---------------------------- MODULE LibraryProofs ----------------------------
(***************************************************************************)
(* The library for any configurations, users, files, tags and number of    *)
(* scans, with scans, the admin command and edits of the configuration     *)
(* interleaving: who may access which folder (AccessFollowsConfig), that   *)
(* the tables refer to rows there are (Consistent), hence that what users  *)
(* are shown they can open and what they may play they can find            *)
(* (NoDeadLinks, SongsAreFound, OnlyOwnArtists), and what a commit does    *)
(* with the files it has read and with annotations (ReadIntoOwnFolder,     *)
(* KeepsAnnotations).                                                      *)
(*                                                                         *)
(* AccessInv says of the committed tables that their rows are of users     *)
(* there are (Owners) and that the stored text is that of the last         *)
(* configuration (Stored), and of a running scan what its transaction      *)
(* holds of the users it has seen and of those created since (Pending).    *)
(*                                                                         *)
(* Consistent rests on what reading one file after the other, in any       *)
(* order, keeps true of the maps of a scan (Maps), on the tables written   *)
(* from them (ReadTables), and on each of the cleaning steps after it      *)
(* (OrphansGone, Ended).                                                   *)
(***************************************************************************)
EXTENDS Browse, FiniteSetTheorems, WellFoundedInduction, TLAPS

Positions == UNION {DOMAIN c : c \in Configs}

\* The configuration grants u the folder i.
Grants(c, i, u) == c[i].users = None \/ u \in c[i].users

FolderTypes ==
    /\ config \in Configs
    /\ loaded \in Configs \cup {<<>>}
    /\ users \subseteq Names
    /\ DOMAIN folders = {"stored", "ids", "access"}
    /\ folders.access \subseteq Positions \X Names
    /\ excused \in [blurred : BOOLEAN, late : SUBSET users]
    /\ DOMAIN scan = {"pc", "full", "load", "last"}
    /\ scan.pc \in {"idle", "run"}

\* The text and the folders are those of the last configuration a scan committed.
Stored ==
    /\ folders.ids = DOMAIN loaded
    /\ \/ folders.stored = None /\ loaded = <<>>
       \/ folders.stored = GenerateMusicDirConfigString(loaded)

\* No row is left of a user that was deleted.
Owners == \A r \in folders.access : r[2] \in users

\* Who is not excused has the rows the last configuration grants.
Rightful ==
    ~excused.blurred =>
        \A u \in users \ excused.late : \A i \in DOMAIN loaded :
            <<i, u>> \in folders.access <=> Grants(loaded, i, u)

\* What a running scan will write for the users it has seen, and what is there of others.
PendingRows(load) ==
    /\ load.ids = DOMAIN load.config
    /\ load.access \subseteq Positions \X Names
    /\ \A r \in load.access : r[2] \in load.seen
    /\ \A r \in load.deleted : r[2] \in load.seen
    /\ \A u \in load.seen : \A i \in DOMAIN load.config :
          <<i, u>> \in load.access <=> Grants(load.config, i, u)
    /\ \A r \in folders.access \ load.deleted : r[2] \notin load.seen
    /\ \A u \in users \ (load.seen \cup excused.late) : \A i \in DOMAIN loaded :
          <<i, u>> \in folders.access <=> Grants(loaded, i, u)

Pending ==
    scan.pc = "run" =>
        /\ DOMAIN scan.load = {"rewrites", "config", "deleted", "ids", "access", "seen"}
        /\ scan.load.rewrites \in BOOLEAN
        /\ scan.load.config \in Configs
        /\ scan.load.seen \subseteq users
        /\ IF scan.load.rewrites THEN PendingRows(scan.load)
           ELSE /\ folders.stored # None
                /\ folders.stored = GenerateMusicDirConfigString(scan.load.config)

AccessInv == FolderTypes /\ Stored /\ Owners /\ Rightful /\ Pending

-----------------------------------------------------------------------------
(* What Granted and the configuration text say.  *)

\* The rows of a configuration for some users are those it grants them.
LEMMA GrantedRows ==
    ASSUME NEW c, NEW all, NEW i, NEW u
    PROVE  <<i, u>> \in Granted(c, all)
             <=> i \in DOMAIN c /\ u \in all /\ Grants(c, i, u)
  BY DEF Granted, Grants, UsersOf

\* Granted has no rows but pairs of a folder and one of the users.
LEMMA GrantedPairs ==
    ASSUME NEW c \in Configs, NEW all \in SUBSET Names
    PROVE  /\ Granted(c, all) \subseteq Positions \X Names
           /\ \A r \in Granted(c, all) : r[2] \in all
  BY DEF Granted, Positions

\* Configurations with the same text have the same folders.
LEMMA SameText ==
    ASSUME NEW c, NEW d, GenerateMusicDirConfigString(c) = GenerateMusicDirConfigString(d)
    PROVE  DOMAIN c = DOMAIN d
  <1>1. ASSUME NEW e
        PROVE  DOMAIN GenerateMusicDirConfigString(e) = DOMAIN e
    BY DEF GenerateMusicDirConfigString
  <1>. QED
    BY <1>1

-----------------------------------------------------------------------------
(* The steps.  *)

\* The initial tables satisfy the invariant of the folders.
LEMMA AccessInit ==
    Init => AccessInv
  BY CatalogAssumption
     DEF Init, InitFolders, AccessInv, FolderTypes, Stored, Owners, Rightful, Pending

\* The beginning of a scan: it rewrites the rows for all users there are, or it has
\* found its configuration's text stored.
LEMMA ScanKeeps ==
    ASSUME NEW full \in BOOLEAN, AccessInv, Scan(full)
    PROVE  AccessInv'
  <1>. USE DEF AccessInv
  <1>1. UNCHANGED <<config, users, folders, loaded, excused>>
    BY DEF Scan, folderVars
  <1>. DEFINE load == LoadMusicDirs(config, full \/ folders.stored = None)
  <1>2. \/ scan' = [scan EXCEPT !.last = "failed"]
        \/ scan' = [scan EXCEPT !.pc = "run", !.load = load,
               !.full = full \/ folders.stored = None \/ ConfigChanged(config)]
    BY DEF Scan
  <1>3. scan.pc = "idle"
    BY DEF Scan
  <1>4. FolderTypes' /\ Stored' /\ Owners' /\ Rightful'
    BY <1>1, <1>2, <1>3 DEF FolderTypes, Stored, Owners, Rightful
  <1>5. Pending'
    <2>1. CASE scan' = [scan EXCEPT !.last = "failed"]
      BY <2>1, <1>3 DEF Pending, FolderTypes
    <2>2. CASE scan' = [scan EXCEPT !.pc = "run", !.load = load,
               !.full = full \/ folders.stored = None \/ ConfigChanged(config)]
      <3>1. scan'.load = load
        BY <2>2 DEF FolderTypes
      <3>2. /\ DOMAIN load = {"rewrites", "config", "deleted", "ids", "access", "seen"}
            /\ load.rewrites \in BOOLEAN
            /\ load.config = config
            /\ load.seen = users
        BY DEF LoadMusicDirs
      <3>3. ASSUME load.rewrites
            PROVE  PendingRows(load)'
        <4>1. /\ load.ids = DOMAIN config
              /\ load.access = Granted(config, users)
              /\ load.deleted = folders.access
          BY <3>3 DEF LoadMusicDirs
        <4>2. /\ Granted(config, users) \subseteq Positions \X Names
              /\ \A r \in Granted(config, users) : r[2] \in users
          BY GrantedPairs DEF FolderTypes
        <4>3. \A u \in users : \A i \in DOMAIN config :
                 <<i, u>> \in Granted(config, users) <=> Grants(config, i, u)
          BY GrantedRows
        <4>4. load' = load
          BY <1>1 DEF LoadMusicDirs, ConfigChanged, Granted, UsersOf
        <4>. HIDE DEF load
        <4>. QED
          BY <1>1, <3>2, <4>1, <4>2, <4>3, <4>4 DEF PendingRows, Owners
      <3>4. ASSUME ~load.rewrites
            PROVE  /\ folders.stored # None
                   /\ folders.stored = GenerateMusicDirConfigString(config)
        BY <3>4 DEF LoadMusicDirs, ConfigChanged
      <3>5. load' = load
        BY <1>1 DEF LoadMusicDirs, ConfigChanged, Granted, UsersOf
      <3>. HIDE DEF load
      <3>6. ASSUME load.rewrites
            PROVE  PendingRows(scan.load)'
        BY <3>1, <3>3, <3>5, <3>6 DEF PendingRows
      <3>. QED
        BY <1>1, <3>1, <3>2, <3>4, <3>6 DEF Pending, FolderTypes
    <2>. QED
      BY <1>2, <2>1, <2>2
  <1>. QED
    BY <1>4, <1>5

\* The end of a scan that is rolled back.
LEMMA RollBackKeeps ==
    ASSUME AccessInv, RolledBack
    PROVE  AccessInv'
  BY DEF AccessInv, RolledBack, folderVars, FolderTypes, Stored, Owners, Rightful, Pending

\* The commit of a scan that has rewritten the rows: what it has seen has its new
\* rows and no old one, the others are late or have the rows of the same
\* configuration.
LEMMA RewriteKeeps ==
    ASSUME AccessInv, scan.pc = "run", scan.load.rewrites, CommitFolders(scan.load),
           scan' = [scan EXCEPT !.pc = "idle", !.load = <<>>, !.last = "ok"]
    PROVE  AccessInv'
  <1>. DEFINE load == scan.load
  <1>. USE DEF AccessInv
  <1>1. PendingRows(load) /\ load.config \in Configs /\ load.seen \subseteq users
    BY DEF Pending
  <1>2. /\ config' = config /\ users' = users /\ loaded' = load.config
        /\ folders' = [stored |-> GenerateMusicDirConfigString(load.config),
                       ids    |-> load.ids,
                       access |-> (folders.access \ load.deleted) \cup load.access]
        /\ excused' = [blurred |-> FALSE,
                       late |-> {u \in users \ load.seen :
                                    u \in excused.late \/ load.config # loaded}]
    BY DEF CommitFolders, FoldersAfter
  <1>. HIDE DEF load
  <1>3. FolderTypes'
    BY <1>1, <1>2 DEF FolderTypes, PendingRows
  <1>4. Stored'
    BY <1>1, <1>2 DEF Stored, PendingRows
  <1>5. Owners'
    BY <1>1, <1>2 DEF Owners, PendingRows
  <1>6. ASSUME NEW u \in users \ excused'.late, NEW i \in DOMAIN load.config
        PROVE  <<i, u>> \in folders'.access <=> Grants(load.config, i, u)
    <2>1. CASE u \in load.seen
      BY <1>1, <1>2, <2>1 DEF PendingRows
    <2>2. CASE u \notin load.seen
      <3>1. u \notin excused.late /\ load.config = loaded
        BY <1>2, <1>6, <2>2
      <3>2. <<i, u>> \in folders.access <=> Grants(loaded, i, u)
        BY <1>1, <2>2, <3>1 DEF PendingRows
      <3>3. <<i, u>> \notin load.deleted /\ <<i, u>> \notin load.access
        BY <1>1, <2>2 DEF PendingRows
      <3>. QED
        BY <1>2, <3>1, <3>2, <3>3
    <2>. QED
      BY <2>1, <2>2
  <1>7. Rightful'
    BY <1>2, <1>6 DEF Rightful, Grants
  <1>8. Pending'
    BY DEF Pending, FolderTypes
  <1>. QED
    BY <1>3, <1>4, <1>5, <1>7, <1>8

\* The commit of a scan that has found its text stored: it grants what the last one
\* has granted, or it has not seen a change.
LEMMA UnseenKeeps ==
    ASSUME AccessInv, scan.pc = "run", ~scan.load.rewrites, CommitFolders(scan.load),
           scan' = [scan EXCEPT !.pc = "idle", !.load = <<>>, !.last = "ok"]
    PROVE  AccessInv'
  <1>. DEFINE load == scan.load
  <1>. USE DEF AccessInv
  <1>1. /\ load.config \in Configs
        /\ folders.stored # None
        /\ folders.stored = GenerateMusicDirConfigString(load.config)
    BY DEF Pending
  <1>2. /\ config' = config /\ users' = users /\ loaded' = load.config
        /\ folders' = folders
        /\ excused' = [blurred |-> excused.blurred \/ load.config # loaded,
                       late |-> excused.late]
    BY DEF CommitFolders, FoldersAfter
  <1>3. DOMAIN load.config = DOMAIN loaded
    BY <1>1, SameText DEF Stored
  <1>. HIDE DEF load
  <1>4. FolderTypes'
    BY <1>1, <1>2 DEF FolderTypes
  <1>5. Stored' /\ Owners'
    BY <1>1, <1>2, <1>3 DEF Stored, Owners
  <1>6. Rightful'
    BY <1>2 DEF Rightful, Grants, FolderTypes
  <1>7. Pending'
    BY DEF Pending, FolderTypes
  <1>. QED
    BY <1>4, <1>5, <1>6, <1>7

\* The commit of a scan keeps the invariant of the folders.
LEMMA CommitKeeps ==
    ASSUME AccessInv, Commit
    PROVE  AccessInv'
  <1>1. scan.pc = "run"
    BY DEF Commit
  <1>2. \/ RolledBack
        \/ /\ CommitFolders(scan.load)
           /\ scan' = [scan EXCEPT !.pc = "idle", !.load = <<>>, !.last = "ok"]
    BY DEF Commit, Committed
  <1>3. scan.load.rewrites \in BOOLEAN
    BY <1>1 DEF AccessInv, Pending
  <1>. QED
    BY <1>1, <1>2, <1>3, RollBackKeeps, RewriteKeeps, UnseenKeeps

\* Editing the configuration touches no table.
LEMMA EditConfigKeeps ==
    ASSUME NEW c \in Configs, AccessInv, EditConfig(c)
    PROVE  AccessInv'
  BY DEF AccessInv, EditConfig, Configure, FolderTypes, Stored, Owners, Rightful, Pending,
         PendingRows, Grants

\* A new user gets the rows of the last scan's configuration, or is late: the
\* stored text is that of the configuration exactly then.
LEMMA CreateKeeps ==
    ASSUME NEW u \in Names, AccessInv, UsersCreate(u)
    PROVE  AccessInv'
  <1>. USE DEF AccessInv
  <1>. DEFINE rows == IF ConfigChanged(config) THEN {} ELSE Granted(config, {u})
  <1>1. /\ u \notin users /\ users' = users \cup {u}
        /\ config' = config /\ loaded' = loaded /\ scan' = scan
        /\ excused' = [excused EXCEPT !.late = IF config # loaded THEN @ \cup {u} ELSE @]
    BY DEF UsersCreate, CreateUser
  <1>2. /\ DOMAIN folders' = {"stored", "ids", "access"}
        /\ folders'.stored = folders.stored /\ folders'.ids = folders.ids
        /\ folders'.access = folders.access \cup rows
    BY DEF UsersCreate, CreateUser, FolderTypes
  <1>3. /\ rows \subseteq Positions \X Names
        /\ \A r \in rows : r[2] = u
    BY GrantedPairs DEF FolderTypes
  <1>4. ASSUME u \notin excused'.late
        PROVE  \A i \in DOMAIN loaded : <<i, u>> \in folders'.access <=> Grants(loaded, i, u)
    <2>1. config = loaded
      BY <1>1, <1>4 DEF FolderTypes
    <2>2. \A i \in DOMAIN loaded : <<i, u>> \notin folders.access
      BY <1>1 DEF Owners
    <2>3. CASE ConfigChanged(config)
      BY <2>1, <2>3 DEF Stored, ConfigChanged
    <2>4. CASE ~ConfigChanged(config)
      BY <1>2, <2>1, <2>2, <2>4, GrantedRows
    <2>. QED
      BY <2>3, <2>4
  <1>. HIDE DEF rows
  <1>5. /\ excused'.blurred = excused.blurred
        /\ excused' \in [blurred : BOOLEAN, late : SUBSET users']
        /\ \A v \in users : v \in excused'.late <=> v \in excused.late
    BY <1>1 DEF FolderTypes
  <1>6. FolderTypes'
    BY <1>1, <1>2, <1>3, <1>5 DEF FolderTypes
  <1>7. Stored' /\ Owners'
    BY <1>1, <1>2, <1>3 DEF Stored, Owners
  <1>8. ASSUME NEW v \in users, NEW i
        PROVE  <<i, v>> \in folders'.access <=> <<i, v>> \in folders.access
    BY <1>1, <1>2, <1>3, <1>8
  <1>9. Rightful'
    <2>1. ASSUME ~excused'.blurred, NEW v \in users' \ excused'.late, NEW i \in DOMAIN loaded
          PROVE  <<i, v>> \in folders'.access <=> Grants(loaded, i, v)
      <3>1. CASE v = u
        BY <1>4, <2>1, <3>1
      <3>2. CASE v \in users \ excused.late
        BY <1>5, <1>8, <2>1, <3>2 DEF Rightful
      <3>. QED
        BY <1>1, <1>5, <2>1, <3>1, <3>2
    <2>. QED
      BY <1>1, <2>1 DEF Rightful, Grants
  <1>10. Pending'
    <2>1. ASSUME scan.pc = "run", scan.load.rewrites
          PROVE  PendingRows(scan.load)'
      <3>1. PendingRows(scan.load) /\ scan.load.seen \subseteq users
        BY <2>1 DEF Pending
      <3>2. \A r \in folders'.access \ scan.load.deleted : r[2] \notin scan.load.seen
        BY <1>1, <1>2, <1>3, <3>1 DEF PendingRows
      <3>3. \A v \in users' \ (scan.load.seen \cup excused'.late) : \A i \in DOMAIN loaded :
               <<i, v>> \in folders'.access <=> Grants(loaded, i, v)
        <4>. SUFFICES ASSUME NEW v \in users' \ (scan.load.seen \cup excused'.late),
                             NEW i \in DOMAIN loaded
                      PROVE  <<i, v>> \in folders'.access <=> Grants(loaded, i, v)
          OBVIOUS
        <4>1. CASE v = u
          BY <1>4, <4>1
        <4>2. CASE v \in users \ (scan.load.seen \cup excused.late)
          BY <1>8, <3>1, <4>2 DEF PendingRows
        <4>. QED
          BY <1>1, <1>5, <4>1, <4>2
      <3>. QED
        BY <1>1, <3>1, <3>2, <3>3 DEF PendingRows, Grants
    <2>. QED
      BY <1>1, <1>2, <2>1 DEF Pending
  <1>. QED
    BY <1>6, <1>7, <1>9, <1>10

\* The rows of a deleted user go; a running scan has neither written nor deleted one.
LEMMA DeleteKeeps ==
    ASSUME NEW u \in Names, AccessInv, UsersDelete(u)
    PROVE  AccessInv'
  <1>. USE DEF AccessInv
  <1>1. /\ users' = users \ {u}
        /\ config' = config /\ loaded' = loaded
        /\ excused' = [excused EXCEPT !.late = @ \ {u}]
        /\ folders' = [folders EXCEPT !.access = {r \in @ : r[2] # u}]
    BY DEF UsersDelete, DeleteUser
  <1>2. /\ DOMAIN folders' = {"stored", "ids", "access"}
        /\ folders'.stored = folders.stored /\ folders'.ids = folders.ids
        /\ folders'.access = {r \in folders.access : r[2] # u}
        /\ excused'.blurred = excused.blurred
        /\ excused'.late = excused.late \ {u}
    BY <1>1 DEF FolderTypes
  <1>3. \/ scan.pc = "idle" /\ scan' = scan
        \/ /\ scan.pc = "run"
           /\ scan' = [scan EXCEPT !.load.seen = @ \ {u}]
           /\ \A r \in scan.load.access \cup scan.load.deleted : r[2] # u
    BY DEF UsersDelete, DeleteUser, FolderTypes
  <1>4. FolderTypes'
    BY <1>1, <1>2, <1>3 DEF FolderTypes
  <1>5. Stored' /\ Owners'
    BY <1>1, <1>2 DEF Stored, Owners
  <1>6. ASSUME NEW v \in users', NEW i
        PROVE  <<i, v>> \in folders'.access <=> <<i, v>> \in folders.access
    BY <1>1, <1>2, <1>6
  <1>7. Rightful'
    BY <1>1, <1>2, <1>6 DEF Rightful, Grants
  <1>8. Pending'
    <2>1. CASE scan.pc = "idle" /\ scan' = scan
      BY <2>1 DEF Pending
    <2>2. ASSUME scan.pc = "run",
                 scan' = [scan EXCEPT !.load.seen = @ \ {u}],
                 \A r \in scan.load.access \cup scan.load.deleted : r[2] # u
          PROVE  Pending'
      <3>1. /\ scan'.pc = "run"
            /\ scan'.load = [scan.load EXCEPT !.seen = @ \ {u}]
        BY <2>2 DEF FolderTypes
      <3>2. /\ DOMAIN scan'.load = DOMAIN scan.load
            /\ scan'.load.rewrites = scan.load.rewrites
            /\ scan'.load.config = scan.load.config
            /\ scan'.load.deleted = scan.load.deleted
            /\ scan'.load.ids = scan.load.ids
            /\ scan'.load.access = scan.load.access
            /\ scan'.load.seen = scan.load.seen \ {u}
        BY <2>2, <3>1 DEF Pending
      <3>3. ASSUME scan.load.rewrites
            PROVE  PendingRows(scan.load)'
        <4>1. PendingRows(scan.load) /\ scan.load.seen \subseteq users
          BY <2>2, <3>3 DEF Pending
        <4>2. \A v \in users' \ (scan'.load.seen \cup excused'.late) : \A i \in DOMAIN loaded :
               <<i, v>> \in folders'.access <=> Grants(loaded, i, v)
          BY <1>1, <1>2, <1>6, <3>2, <4>1 DEF PendingRows
        <4>3. \A r \in folders'.access \ scan'.load.deleted : r[2] \notin scan'.load.seen
          BY <1>2, <3>2, <4>1 DEF PendingRows
        <4>4. /\ \A r \in scan'.load.access : r[2] \in scan'.load.seen
              /\ \A r \in scan'.load.deleted : r[2] \in scan'.load.seen
          BY <2>2, <3>2, <4>1 DEF PendingRows
        <4>5. \A v \in scan'.load.seen : \A i \in DOMAIN scan'.load.config :
                 <<i, v>> \in scan'.load.access <=> Grants(scan'.load.config, i, v)
          BY <3>2, <4>1 DEF PendingRows
        <4>. QED
          BY <1>1, <3>2, <4>1, <4>2, <4>3, <4>4, <4>5 DEF PendingRows, Grants
      <3>. QED
        BY <1>1, <1>2, <2>2, <3>1, <3>2, <3>3 DEF Pending
    <2>. QED
      BY <1>3, <2>1, <2>2
  <1>. QED
    BY <1>4, <1>5, <1>7, <1>8

\* Files, annotations and stuttering have no part in it.
LEMMA OthersKeep ==
    ASSUME AccessInv, UNCHANGED <<folderVars, scan>>
    PROVE  AccessInv'
  BY DEF AccessInv, folderVars, FolderTypes, Stored, Owners, Rightful, Pending, PendingRows,
         Grants

-----------------------------------------------------------------------------
(* The rows of a user are those of the last scan's configuration, whatever   *)
(* scans, edits of the configuration and admin commands interleave           *)
(* (LoadMusicDirs, users create, users delete).                              *)
THEOREM AccessInvInvariant ==
    Spec => []AccessInv
  <1>1. AccessInv /\ [Next]_vars => AccessInv'
    <2>. SUFFICES ASSUME AccessInv, [Next]_vars PROVE AccessInv'
      OBVIOUS
    <2>1. CASE \E full \in BOOLEAN : Scan(full)
      BY <2>1, ScanKeeps
    <2>2. CASE Commit
      BY <2>2, CommitKeeps
    <2>3. CASE \E fs \in (SUBSET Files) \ {{}}, t \in Tags : Retag(fs, t)
      BY <2>3, OthersKeep DEF Retag
    <2>4. CASE \E f \in Files : Delete(f)
      BY <2>4, OthersKeep DEF Delete
    <2>5. CASE \E u \in users, ids \in {DOMAIN db.albums, DOMAIN db.artists} : Star(u, ids)
      BY <2>5, OthersKeep DEF Star
    <2>6. CASE \E s \in db.stars : UnStar(s[1], {s[2]})
      BY <2>6, OthersKeep DEF UnStar
    <2>7. CASE \E c \in Configs : EditConfig(c)
      BY <2>7, EditConfigKeeps
    <2>8. CASE \E u \in Names : UsersCreate(u) \/ UsersDelete(u)
      BY <2>8, CreateKeeps, DeleteKeeps
    <2>9. CASE UNCHANGED vars
      BY <2>9, OthersKeep DEF vars
    <2>. QED
      BY <2>1, <2>2, <2>3, <2>4, <2>5, <2>6, <2>7, <2>8, <2>9 DEF Next
  <1>. QED
    BY <1>1, AccessInit, PTL DEF Spec

(* Once a scan has committed, a user can use exactly the folders which the   *)
(* configuration that scan read grants them, for any users, configurations,  *)
(* files and number of scans, save the excused ones (AccessFollowsConfig).   *)
THEOREM AccessFollowsConfigInvariant ==
    Spec => []AccessFollowsConfig
  <1>1. AccessInv => AccessFollowsConfig
    BY DEF AccessInv, FolderTypes, Stored, Rightful, Grants, AccessFollowsConfig, Accessible,
           UsersOf
  <1>. QED
    BY <1>1, AccessInvInvariant, PTL

-----------------------------------------------------------------------------
(* The artists of a folder.  *)

\* What every set of tables is.
TableFields == {"songs", "albums", "artists", "genres", "links", "stars"}

\* A link between a folder and an artist is justified by a song or an album, or the
\* last scan has deleted what justified it.
Linked ==
    /\ DOMAIN db = TableFields
    /\ db.links \subseteq Justified(db) \cup orphaned

\* Writing the links changes nothing else.
LEMMA WriteLinks ==
    ASSUME NEW t, DOMAIN t = TableFields, NEW S
    PROVE  /\ DOMAIN [t EXCEPT !.links = S] = TableFields
           /\ [t EXCEPT !.links = S].links = S
           /\ [t EXCEPT !.links = S].songs = t.songs
           /\ [t EXCEPT !.links = S].albums = t.albums
  BY DEF TableFields

\* updateMusicFolderAssociations leaves justified links only.
LEMMA TablesLinked ==
    ASSUME NEW order, NEW ids
    PROVE  /\ DOMAIN Tables(order, ids) = TableFields
           /\ Tables(order, ids).links \subseteq Justified(Tables(order, ids))
  <1>1. ASSUME NEW s, NEW g, NEW l, NEW st, NEW ar, NEW al, NEW m
        PROVE  LET t == [songs |-> s, genres |-> g, links |-> l, stars |-> st,
                         artists |-> ar, albums |-> al]
                   new == UpdateMusicFolderAssociations(t, m)
               IN  /\ DOMAIN new = TableFields
                   /\ new.links \subseteq Justified(new)
    <2>. DEFINE t == [songs |-> s, genres |-> g, links |-> l, stars |-> st,
                      artists |-> ar, albums |-> al]
                new == UpdateMusicFolderAssociations(t, m)
    <2>1. /\ DOMAIN new = TableFields
          /\ new.links \subseteq Justified(t)
          /\ new.songs = t.songs /\ new.albums = t.albums
      <3>. DEFINE J == Justified(t) \cap
                         UNION {{<<i, a.id>> : i \in a.folders} : a \in ToSet(m.artists)}
      <3>1. new = [t EXCEPT !.links = J]
        BY DEF UpdateMusicFolderAssociations
      <3>2. DOMAIN t = TableFields
        BY DEF TableFields
      <3>3. \A X, Y : X \cap Y \subseteq X
        OBVIOUS
      <3>4. J \subseteq Justified(t)
        BY <3>3, Zenon
      <3>. HIDE DEF J, t, new
      <3>. QED
        BY <3>1, <3>2, <3>4, WriteLinks
    <2>2. Justified(new) = Justified(t)
      BY <2>1 DEF Justified
    <2>. QED
      BY <2>1, <2>2
  <1>. QED
    BY <1>1 DEF Tables

\* What follows adds no link.
LEMMA CleaningLinks ==
    ASSUME NEW t, DOMAIN t = TableFields, NEW full, NEW read, NEW to
    PROVE  /\ DOMAIN DeleteOrphanedSongs(t, full, read) = TableFields
           /\ DeleteOrphanedSongs(t, full, read).links = t.links
           /\ DOMAIN CleanAlbums(t, to) = TableFields
           /\ CleanAlbums(t, to).links = t.links
           /\ DOMAIN CleanArtists(t, to) = TableFields
           /\ CleanArtists(t, to).links \subseteq t.links
  <1>1. ASSUME NEW x, DOMAIN x = TableFields, NEW y, NEW z, NEW w, NEW v
        PROVE  /\ DOMAIN [x EXCEPT !.songs = y, !.albums = z, !.stars = v, !.genres = w] = TableFields
               /\ [x EXCEPT !.songs = y, !.albums = z, !.stars = v, !.genres = w].links = x.links
               /\ DOMAIN [x EXCEPT !.albums = y, !.stars = z] = TableFields
               /\ [x EXCEPT !.albums = y, !.stars = z].links = x.links
               /\ DOMAIN [x EXCEPT !.stars = y] = TableFields
               /\ [x EXCEPT !.stars = y].links = x.links
               /\ DOMAIN [x EXCEPT !.artists = y, !.stars = z, !.links = w] = TableFields
               /\ [x EXCEPT !.artists = y, !.stars = z, !.links = w].links = w
    BY <1>1 DEF TableFields
  <1>2. /\ DOMAIN DeleteOrphanedSongs(t, full, read) = TableFields
        /\ DeleteOrphanedSongs(t, full, read).links = t.links
    <2>. DEFINE so == Restrict(t.songs, {f \in DOMAIN t.songs :
                         /\ t.songs[f].folder # None
                         /\ IF full THEN f \in read ELSE disk[f] # None})
                al == Restrict(t.albums, {i \in DOMAIN t.albums : t.albums[i].folder # None})
                st == {s \in t.stars : s[2] \in DOMAIN t.albums => t.albums[s[2]].folder # None}
                ge == t.genres \cap UNION {so[f].genres : f \in DOMAIN so}
    <2>1. DeleteOrphanedSongs(t, full, read)
            = [t EXCEPT !.songs = so, !.albums = al, !.stars = st, !.genres = ge]
      BY DEF DeleteOrphanedSongs
    <2>. HIDE DEF so, al, st, ge
    <2>. QED
      BY <1>1, <2>1
  <1>3. /\ DOMAIN MigrateAnnotations(t, to) = TableFields
        /\ MigrateAnnotations(t, to).links = t.links
    BY <1>1, Zenon DEF MigrateAnnotations
  <1>. DEFINE t1 == MigrateAnnotations(t, to)
  <1>. HIDE DEF t1
  <1>4. /\ DOMAIN DeleteIfNoTracks(t1) = TableFields
        /\ DeleteIfNoTracks(t1).links = t1.links
    <2>. DEFINE gone == {i \in DOMAIN t1.albums : ~HasTracks(t1, i)}
                al == Without(t1.albums, gone)
                st == {s \in t1.stars : s[2] \notin gone}
    <2>1. DeleteIfNoTracks(t1) = [t1 EXCEPT !.albums = al, !.stars = st]
      BY DEF DeleteIfNoTracks
    <2>2. DOMAIN t1 = TableFields
      BY <1>3 DEF t1
    <2>. HIDE DEF al, st
    <2>. QED
      BY <1>1, <2>1, <2>2
  <1>5. /\ DOMAIN DeleteIfNoAlbumsAndNoSongs(t1) = TableFields
        /\ DeleteIfNoAlbumsAndNoSongs(t1).links \subseteq t1.links
    <2>. DEFINE gone == {a \in DOMAIN t1.artists : ~HasWork(t1, a)}
                ar == Without(t1.artists, gone)
                st == {s \in t1.stars : s[2] \notin gone}
                li == {l \in t1.links : l[2] \notin gone}
    <2>1. DeleteIfNoAlbumsAndNoSongs(t1) = [t1 EXCEPT !.artists = ar, !.stars = st, !.links = li]
      BY DEF DeleteIfNoAlbumsAndNoSongs
    <2>2. DOMAIN t1 = TableFields
      BY <1>3 DEF t1
    <2>3. li \subseteq t1.links
      OBVIOUS
    <2>. HIDE DEF ar, st, li
    <2>. QED
      BY <1>1, <2>1, <2>2, <2>3
  <1>. QED
    BY <1>2, <1>3, <1>4, <1>5 DEF CleanAlbums, CleanArtists, t1

\* The commit of a scan keeps every link justified or orphaned.
LEMMA LinkedCommit ==
    ASSUME Linked, Commit
    PROVE  Linked'
  <1>1. ASSUME RolledBack PROVE Linked'
    BY <1>1 DEF RolledBack, Linked, Justified
  <1>2. ASSUME NEW order, NEW ids, NEW t1, NEW t2, NEW t3, NEW albumTo, NEW artistTo,
               t1 = Tables(order, ids),
               t2 = DeleteOrphanedSongs(t1, scan.full, ToRead),
               t3 = CleanAlbums(t2, albumTo),
               Committed(t1, CleanArtists(t3, artistTo))
        PROVE  Linked'
    <2>. DEFINE t4 == CleanArtists(t3, artistTo)
    <2>1. DOMAIN t1 = TableFields /\ t1.links \subseteq Justified(t1)
      BY <1>2, TablesLinked
    <2>2. DOMAIN t2 = TableFields /\ t2.links = t1.links
      BY <1>2, <2>1, CleaningLinks
    <2>3. DOMAIN t3 = TableFields /\ t3.links = t2.links
      BY <1>2, <2>2, CleaningLinks, Zenon
    <2>4. DOMAIN t4 = TableFields /\ t4.links \subseteq t3.links
      BY <2>3, CleaningLinks, Zenon
    <2>5. /\ db' = t4
          /\ orphaned' = (t4.links \cap Justified(t1)) \ Justified(t4)
      BY <1>2 DEF Committed
    <2>6. Justified(db)' = Justified(t4)
      BY <2>5 DEF Justified
    <2>. HIDE DEF t4
    <2>. QED
      BY <2>1, <2>2, <2>3, <2>4, <2>5, <2>6 DEF Linked
  <1>. QED
    BY <1>1, <1>2 DEF Commit

\* The annotations are no part of the links.
LEMMA LinkedStars ==
    ASSUME Linked, NEW S, db' = [db EXCEPT !.stars = S], orphaned' = orphaned
    PROVE  Linked'
  <1>1. /\ DOMAIN db' = TableFields /\ db'.links = db.links
        /\ db'.songs = db.songs /\ db'.albums = db.albums
    BY DEF Linked, TableFields
  <1>2. Justified(db)' = Justified(db)
    BY <1>1 DEF Justified
  <1>. QED
    BY <1>1, <1>2 DEF Linked

(* Every artist of a folder has a song or an album in it, or lost the last   *)
(* one in the last scan (updateMusicFolderAssociations, deleteOrphaned), for *)
(* any files, tags, configurations and users and any order the files are     *)
(* read in.                                                                  *)
THEOREM LinkedInvariant ==
    Spec => []Linked
  <1>1. Init => Linked
    BY DEF Init, Linked, TableFields
  <1>2. Linked /\ [Next]_vars => Linked'
    <2>. SUFFICES ASSUME Linked, [Next]_vars PROVE Linked'
      OBVIOUS
    <2>1. ASSUME UNCHANGED <<db, orphaned>> PROVE Linked'
      BY <2>1 DEF Linked, Justified
    <2>2. CASE Commit
      BY <2>2, LinkedCommit
    <2>3. ASSUME NEW u, NEW ids, Star(u, ids) \/ UnStar(u, ids) PROVE Linked'
      BY <2>3, LinkedStars DEF Star, UnStar
    <2>4. ASSUME NEW u \in Names, UsersDelete(u) PROVE Linked'
      BY <2>4, LinkedStars DEF UsersDelete
    <2>. QED
      BY <2>1, <2>2, <2>3, <2>4
         DEF Next, Scan, Retag, Delete, EditConfig, UsersCreate, vars
  <1>. QED
    BY <1>1, <1>2, PTL DEF Spec

(* OnlyOwnArtists: a user sees no artist of whom there is neither a song nor *)
(* an album in their folders, save those whose last one the last scan has    *)
(* deleted (genArtistAccessibleByUserCondition).                             *)
THEOREM OnlyOwnArtistsInvariant ==
    Spec => []OnlyOwnArtists
  <1>1. Linked => OnlyOwnArtists
    <2>. SUFFICES ASSUME Linked, NEW u \in users, NEW a \in ArtistFindByID(u)
                  PROVE  \/ \E i \in AlbumFindByID(u) : a \in db.albums[i].artists
                         \/ \E f \in SongFindByID(u) : a \in db.songs[f].artists
                         \/ \E i \in Accessible(u) : <<i, a>> \in orphaned
      BY DEF OnlyOwnArtists
    <2>1. PICK i \in Accessible(u) : <<i, a>> \in db.links
      BY DEF ArtistFindByID, InFolders
    <2>2. CASE <<i, a>> \in orphaned
      BY <2>2
    <2>3. CASE \E f \in DOMAIN db.songs : i = db.songs[f].folder /\ a \in db.songs[f].artists
      BY <2>3 DEF SongFindByID
    <2>4. CASE \E k \in DOMAIN db.albums : i = db.albums[k].folder /\ a \in db.albums[k].artists
      BY <2>4 DEF AlbumFindByID
    <2>5. <<i, a>> \in Justified(db) =>
             \/ \E f \in DOMAIN db.songs : i = db.songs[f].folder /\ a \in db.songs[f].artists
             \/ \E k \in DOMAIN db.albums : i = db.albums[k].folder /\ a \in db.albums[k].artists
      BY DEF Justified
    <2>. QED
      BY <2>1, <2>2, <2>3, <2>4, <2>5 DEF Linked
  <1>. QED
    BY <1>1, LinkedInvariant, PTL

-----------------------------------------------------------------------------
(* The tables refer to rows there are.  *)

SongFields == {"folder", "album", "artists", "genres"}
AlbumFields == {"name", "rel", "mbid", "version", "released", "original", "artists", "folder"}

\* What is referred to is there, in a folder there is, and every artist is linked to
\* the folders of their songs and albums.
Closed(t, ids) ==
    /\ \A f \in DOMAIN t.songs :
          /\ DOMAIN t.songs[f] = SongFields
          /\ t.songs[f].folder \in ids
          /\ t.songs[f].album = None \/ t.songs[f].album \in DOMAIN t.albums
          /\ t.songs[f].artists \subseteq DOMAIN t.artists
          /\ t.songs[f].genres \subseteq t.genres
    /\ \A i \in DOMAIN t.albums :
          /\ DOMAIN t.albums[i] = AlbumFields
          /\ t.albums[i].folder \in ids
          /\ t.albums[i].artists \subseteq DOMAIN t.artists
    /\ Justified(t) \subseteq t.links

\* The ids of albums and artists.
Numbered(t) ==
    /\ IsFiniteSet(DOMAIN t.albums) /\ DOMAIN t.albums \subseteq Int
    /\ IsFiniteSet(DOMAIN t.artists) /\ DOMAIN t.artists \subseteq Int
    /\ DOMAIN t.albums \cap DOMAIN t.artists = {}

\* Annotations are on rows there are.
Annotated(t) ==
    \A s \in t.stars : /\ s = <<s[1], s[2]>>
                       /\ s[2] \in DOMAIN t.albums \cup DOMAIN t.artists

\* What a running scan has loaded.
Loaded ==
    scan.pc = "run" =>
        /\ scan.full \in BOOLEAN
        /\ scan.load.config \in Configs
        /\ scan.load.ids = DOMAIN scan.load.config
        /\ ~scan.load.rewrites => scan.load.ids = folders.ids

Tagged == disk \in [Files -> Tags \cup {None}]

Consistent ==
    /\ DOMAIN db = TableFields
    /\ Closed(db, folders.ids)
    /\ Numbered(db)
    /\ Annotated(db)
    /\ Loaded
    /\ Tagged

\* What a user is shown: songs and albums of their folders or crossed songs, and
\* artists they may see.
Shown(u, songs, albums, artists) ==
    /\ songs \subseteq SongFindByID(u) \cup CrossedSongs
    /\ albums \subseteq AlbumFindByID(u)
    /\ artists \subseteq ArtistFindByID(u)

\* Nothing in the response leads nowhere.
Opens(u, r) ==
    LET crossed == Response(CrossedSongs, {}, {})
    IN  /\ r.songs \subseteq SongFindByID(u) \cup crossed.songs
        /\ r.albums \subseteq AlbumFindByID(u) \cup crossed.albums
        /\ r.artists \subseteq ArtistFindByID(u) \cup crossed.artists

\* A song's artists are linked to its folder, and so are an album's.
LEMMA LinkedArtists ==
    ASSUME NEW t, NEW ids, Closed(t, ids)
    PROVE  /\ \A f \in DOMAIN t.songs : \A a \in t.songs[f].artists :
                 <<t.songs[f].folder, a>> \in t.links
           /\ \A i \in DOMAIN t.albums : \A a \in t.albums[i].artists :
                 <<t.albums[i].folder, a>> \in t.links
  <1>1. ASSUME NEW f \in DOMAIN t.songs, NEW a \in t.songs[f].artists
        PROVE  <<t.songs[f].folder, a>> \in Justified(t)
    BY DEF Justified
  <1>2. ASSUME NEW i \in DOMAIN t.albums, NEW a \in t.albums[i].artists
        PROVE  <<t.albums[i].folder, a>> \in Justified(t)
    BY DEF Justified
  <1>. QED
    BY <1>1, <1>2 DEF Closed

\* The artists of a song or album a user may see can be seen as well.
LEMMA ArtistsSeen ==
    ASSUME Consistent, NEW u
    PROVE  /\ \A f \in SongFindByID(u) : db.songs[f].artists \subseteq ArtistFindByID(u)
           /\ \A i \in AlbumFindByID(u) : db.albums[i].artists \subseteq ArtistFindByID(u)
           /\ \A f \in SongFindByID(u) \ CrossedSongs :
                 db.songs[f].album # None => db.songs[f].album \in AlbumFindByID(u)
  <1>1. Closed(db, folders.ids)
    BY DEF Consistent
  <1>2. ASSUME NEW f \in SongFindByID(u), NEW a \in db.songs[f].artists
        PROVE  a \in ArtistFindByID(u)
    <2>1. <<db.songs[f].folder, a>> \in db.links
      BY <1>1, LinkedArtists DEF SongFindByID
    <2>. QED
      BY <1>1, <2>1 DEF SongFindByID, ArtistFindByID, InFolders, Closed
  <1>3. ASSUME NEW i \in AlbumFindByID(u), NEW a \in db.albums[i].artists
        PROVE  a \in ArtistFindByID(u)
    <2>1. <<db.albums[i].folder, a>> \in db.links
      BY <1>1, LinkedArtists DEF AlbumFindByID
    <2>. QED
      BY <1>1, <2>1 DEF AlbumFindByID, ArtistFindByID, InFolders, Closed
  <1>4. ASSUME NEW f \in SongFindByID(u) \ CrossedSongs, db.songs[f].album # None
        PROVE  db.songs[f].album \in AlbumFindByID(u)
    BY <1>1, <1>4 DEF SongFindByID, AlbumFindByID, CrossedSongs, Crossed, Closed
  <1>. QED
    BY <1>2, <1>3, <1>4

\* A response about what a user may see leads to nothing else, save by way of
\* crossed songs.
LEMMA ShownOpens ==
    ASSUME Consistent, NEW u, NEW songs, NEW albums, NEW artists,
           Shown(u, songs, albums, artists)
    PROVE  Opens(u, Response(songs, albums, artists))
  <1>. DEFINE r == Response(songs, albums, artists)
              crossed == Response(CrossedSongs, {}, {})
  <1>1. r.songs \subseteq SongFindByID(u) \cup crossed.songs
    BY DEF Shown, Response
  <1>2. ASSUME NEW f \in songs
        PROVE  f \in SongFindByID(u) \ CrossedSongs \/ f \in CrossedSongs
    BY DEF Shown
  <1>3. AlbumsOf(songs) \subseteq AlbumFindByID(u) \cup AlbumsOf(CrossedSongs)
    BY <1>2, ArtistsSeen DEF AlbumsOf
  <1>4. r.albums \subseteq AlbumFindByID(u) \cup crossed.albums
    BY <1>3 DEF Shown, Response
  <1>5. ASSUME NEW f \in songs
        PROVE  db.songs[f].artists
                 \subseteq ArtistFindByID(u) \cup UNION {db.songs[g].artists : g \in CrossedSongs}
    BY <1>2, ArtistsSeen
  <1>6. AlbumArtistRefs(albums \cup AlbumsOf(songs))
          \subseteq ArtistFindByID(u) \cup AlbumArtistRefs(AlbumsOf(CrossedSongs))
    BY <1>3, ArtistsSeen DEF Shown, AlbumArtistRefs
  <1>7. /\ r.artists = artists \cup (UNION {db.songs[f].artists : f \in songs})
                       \cup AlbumArtistRefs(albums \cup AlbumsOf(songs))
        /\ crossed.artists = {} \cup (UNION {db.songs[g].artists : g \in CrossedSongs})
                       \cup AlbumArtistRefs({} \cup AlbumsOf(CrossedSongs))
    BY DEF Response
  <1>8. {} \cup AlbumsOf(CrossedSongs) = AlbumsOf(CrossedSongs)
    OBVIOUS
  <1>9. r.artists \subseteq ArtistFindByID(u) \cup crossed.artists
    BY <1>5, <1>6, <1>7, <1>8 DEF Shown
  <1>. QED
    BY <1>1, <1>4, <1>9 DEF Opens

\* The folders of a request are folders of the user.
LEMMA FoldersOfUser ==
    ASSUME NEW u, NEW req
    PROVE  MusicFolderIDs(u, req) \subseteq Accessible(u)
  BY DEF MusicFolderIDs

\* What the queries find in folders of a user is theirs to see.
LEMMA QueriesShow ==
    ASSUME Consistent, NEW u, NEW fs, fs \subseteq Accessible(u), NEW genres, NEW only
    PROVE  /\ SongFindAllFiltered(fs, genres, {}, {}) \subseteq SongFindByID(u)
           /\ AlbumFindAll(fs, genres) \subseteq AlbumFindByID(u)
           /\ ArtistFindAll(fs, only) \subseteq ArtistFindByID(u)
           /\ \A a : GetAlbums(a, fs) \subseteq AlbumFindByID(u)
           /\ \A a : GetAppearsOnAlbums(a, fs) \subseteq AlbumFindByID(u)
           /\ \A i : GetAlternateVersions(i, fs) \subseteq AlbumFindByID(u)
           /\ AlbumFindStarred(u, fs) \subseteq AlbumFindByID(u)
           /\ ArtistFindStarred(u, fs) \subseteq ArtistFindByID(u)
           /\ SearchAlbums(fs) \subseteq AlbumFindByID(u)
  BY DEF SongFindAllFiltered, AlbumFindAll, ArtistFindAll, GetAlbums, GetAppearsOnAlbums,
         GetAlternateVersions, AlbumFindStarred, ArtistFindStarred, SearchAlbums,
         SongFindByID, AlbumFindByID, ArtistFindByID, InFolders

\* The tracks of an album a user may see are theirs, or crossed.
LEMMA TracksShown ==
    ASSUME Consistent, NEW u, NEW i \in AlbumFindByID(u)
    PROVE  TracksOf(i) \subseteq SongFindByID(u) \cup CrossedSongs
  <1>. SUFFICES ASSUME NEW f \in TracksOf(i), f \notin CrossedSongs
                PROVE  f \in SongFindByID(u)
    OBVIOUS
  <1>1. f \in DOMAIN db.songs /\ db.songs[f].album = i
    BY DEF TracksOf
  <1>2. i \in DOMAIN db.albums /\ db.albums[i].folder \in Accessible(u)
    BY DEF AlbumFindByID
  <1>3. i # None
    BY <1>2, FoldersAssumption DEF Consistent, Numbered
  <1>. QED
    BY <1>1, <1>2, <1>3 DEF SongFindByID, CrossedSongs, Crossed

\* Every response of a user opens.
LEMMA ResponsesOpen ==
    ASSUME Consistent, NEW u, NEW r \in Responses(u)
    PROVE  Opens(u, r)
  <1>1. ASSUME NEW f PROVE Opens(u, HandleGetSong(u, f))
    <2>1. CASE f \in SongFindByID(u)
      BY <2>1, ShownOpens DEF HandleGetSong, Shown
    <2>2. CASE f \notin SongFindByID(u)
      BY <2>2, ShownOpens DEF HandleGetSong, Nothing, Shown
    <2>. QED
      BY <2>1, <2>2
  <1>2. ASSUME NEW i PROVE Opens(u, HandleGetAlbum(u, i))
    <2>1. CASE i \in AlbumFindByID(u)
      BY <2>1, ShownOpens, TracksShown DEF HandleGetAlbum, Shown
    <2>2. CASE i \notin AlbumFindByID(u)
      BY <2>2, ShownOpens DEF HandleGetAlbum, Nothing, Shown
    <2>. QED
      BY <2>1, <2>2
  <1>3. ASSUME NEW fs, fs \subseteq Accessible(u)
        PROVE  /\ Opens(u, HandleGetArtistsIndex(fs))
               /\ Opens(u, HandleGetStarred(u, fs))
               /\ Opens(u, HandleSearch(fs, FALSE))
               /\ \A gs : Opens(u, HandleGetAlbumList(fs, gs))
               /\ \A g : Opens(u, HandleGetSongsByGenre(fs, g))
               /\ \A i : Opens(u, HandleGetMusicDirectory(u, i, fs))
               /\ \A a : Opens(u, HandleGetAppearsOn(a, fs))
               /\ \A i : Opens(u, HandleGetAlternateAlbumVersions(i, fs))
    <2>1. Opens(u, HandleGetArtistsIndex(fs))
      BY <1>3, ShownOpens, QueriesShow DEF HandleGetArtistsIndex, Shown
    <2>2. Opens(u, HandleGetStarred(u, fs))
      BY <1>3, ShownOpens, QueriesShow DEF HandleGetStarred, Shown
    <2>3. Opens(u, HandleSearch(fs, FALSE))
      BY <1>3, ShownOpens, QueriesShow DEF HandleSearch, Shown, SearchSongs, SearchArtists
    <2>4. ASSUME NEW gs PROVE Opens(u, HandleGetAlbumList(fs, gs))
      BY <1>3, ShownOpens, QueriesShow DEF HandleGetAlbumList, Shown
    <2>5. ASSUME NEW g PROVE Opens(u, HandleGetSongsByGenre(fs, g))
      BY <1>3, ShownOpens, QueriesShow DEF HandleGetSongsByGenre, Shown
    <2>6. ASSUME NEW a PROVE Opens(u, HandleGetArtist(u, a, fs))
      <3>1. CASE a \in ArtistFindByID(u)
        BY <1>3, <3>1, ShownOpens, QueriesShow DEF HandleGetArtist, Shown
      <3>2. CASE a \notin ArtistFindByID(u)
        BY <3>2, ShownOpens DEF HandleGetArtist, Nothing, Shown
      <3>. QED
        BY <3>1, <3>2
    <2>7. ASSUME NEW i PROVE Opens(u, HandleGetMusicDirectory(u, i, fs))
      BY <1>2, <2>6 DEF HandleGetMusicDirectory
    <2>8. ASSUME NEW a PROVE Opens(u, HandleGetAppearsOn(a, fs))
      BY <1>3, ShownOpens, QueriesShow DEF HandleGetAppearsOn, Shown
    <2>9. ASSUME NEW i PROVE Opens(u, HandleGetAlternateAlbumVersions(i, fs))
      BY <1>3, ShownOpens, QueriesShow DEF HandleGetAlternateAlbumVersions, Shown
    <2>. QED
      BY <2>1, <2>2, <2>3, <2>4, <2>5, <2>7, <2>8, <2>9
  <1>4. CASE \E f \in DOMAIN db.songs : r = HandleGetSong(u, f)
    BY <1>1, <1>4
  <1>5. ASSUME NEW req \in Requested,
               LET fs == MusicFolderIDs(u, req) IN
               \/ r \in {HandleGetArtistsIndex(fs), HandleGetStarred(u, fs), HandleSearch(fs, FALSE)}
               \/ \E gs : r = HandleGetAlbumList(fs, gs)
               \/ \E g : r = HandleGetSongsByGenre(fs, g)
               \/ \E i : r = HandleGetMusicDirectory(u, i, fs)
               \/ \E a : r = HandleGetAppearsOn(a, fs)
               \/ \E i : r = HandleGetAlternateAlbumVersions(i, fs)
        PROVE  Opens(u, r)
    <2>1. PICK fs : fs = MusicFolderIDs(u, req)
      OBVIOUS
    <2>2. fs \subseteq Accessible(u)
      BY <2>1, FoldersOfUser
    <2>. QED
      BY <1>3, <1>5, <2>1, <2>2
  <1>. QED
    BY <1>4, <1>5 DEF Responses

\* A song in a requested folder is found by every way there.
LEMMA SongFound ==
    ASSUME Consistent, NEW u \in users, NEW f \in SongFindByID(u) \ CrossedSongs, NEW fs,
           fs \subseteq Accessible(u), db.songs[f].folder \in fs
    PROVE  LET s == db.songs[f]
           IN /\ \A i \in {s.album} \ {None} :
                    /\ f \in HandleGetAlbum(u, i).songs
                    /\ i \in HandleGetAlbumList(fs, s.genres).albums
                    /\ \A a \in db.albums[i].artists :
                          /\ a \in HandleGetArtistsIndex(fs).artists
                          /\ i \in HandleGetArtist(u, a, fs).albums
                    /\ \A a \in s.artists \ db.albums[i].artists :
                          db.albums[i].artists # {} => i \in HandleGetAppearsOn(a, fs).albums
              /\ s.genres \subseteq FindAllWithCounts(fs)
              /\ \A g \in s.genres : f \in HandleGetSongsByGenre(fs, g).songs
              /\ f \in HandleGetRandomSongs(fs, s.genres).songs
              /\ f \in HandleGetSongs(fs, s.genres, s.artists, {s.album} \ {None}).songs
              /\ ~HandleGetAlbumInfoPanics(u, f)
              /\ ArtistInfoOf(f) \subseteq ArtistFindByID(u)
  <1>. DEFINE s == db.songs[f]
  <1>1. /\ f \in DOMAIN db.songs /\ s.genres \subseteq db.genres
        /\ s.folder \in Accessible(u)
    BY DEF SongFindByID, Consistent, Closed
  <1>2. ASSUME NEW i, i = s.album, i # None
        PROVE  /\ i \in AlbumFindByID(u) /\ i \in DOMAIN db.albums
               /\ db.albums[i].folder = s.folder
               /\ f \in TracksOf(i)
    BY <1>1, <1>2, ArtistsSeen DEF AlbumFindByID, CrossedSongs, Crossed, TracksOf
  <1>3. ASSUME NEW i, i = s.album, i # None
        PROVE  /\ f \in HandleGetAlbum(u, i).songs
               /\ i \in HandleGetAlbumList(fs, s.genres).albums
    BY <1>2, <1>3 DEF HandleGetAlbum, HandleGetAlbumList, AlbumFindAll, Response
  <1>4. ASSUME NEW i, i = s.album, i # None, NEW a \in db.albums[i].artists
        PROVE  /\ a \in HandleGetArtistsIndex(fs).artists
               /\ i \in HandleGetArtist(u, a, fs).albums
    <2>1. a \in ArtistFindByID(u) /\ a \in DOMAIN db.artists
      BY <1>2, <1>4, ArtistsSeen DEF ArtistFindByID
    <2>2. <<s.folder, a>> \in db.links
      BY <1>2, <1>4, LinkedArtists DEF Consistent
    <2>. QED
      BY <1>2, <1>4, <2>1, <2>2
         DEF HandleGetArtistsIndex, ArtistFindAll, InFolders, HandleGetArtist, GetAlbums, Response
  <1>5. ASSUME NEW i, i = s.album, i # None, NEW a \in s.artists \ db.albums[i].artists,
               db.albums[i].artists # {}
        PROVE  i \in HandleGetAppearsOn(a, fs).albums
    BY <1>2, <1>5 DEF HandleGetAppearsOn, GetAppearsOnAlbums, Response
  <1>6. /\ s.genres \subseteq FindAllWithCounts(fs)
        /\ \A g \in s.genres : f \in HandleGetSongsByGenre(fs, g).songs
        /\ f \in HandleGetRandomSongs(fs, s.genres).songs
        /\ f \in HandleGetSongs(fs, s.genres, s.artists, {s.album} \ {None}).songs
    BY <1>1 DEF FindAllWithCounts, HandleGetSongsByGenre, HandleGetRandomSongs, HandleGetSongs,
                SongFindAllFiltered, Response
  <1>7. ~HandleGetAlbumInfoPanics(u, f)
    BY ArtistsSeen DEF HandleGetAlbumInfoPanics
  <1>8. ArtistInfoOf(f) \subseteq ArtistFindByID(u)
    BY <1>2, ArtistsSeen DEF ArtistInfoOf, AlbumArtistRefs, AlbumsOf
  <1>. QED
    BY <1>3, <1>4, <1>5, <1>6, <1>7, <1>8

-----------------------------------------------------------------------------
(* Lists, and tables in the order of their ids.  *)

ListOf(s) == s \in Seq(ToSet(s))
IdsOf(s) == {s[k].id : k \in DOMAIN s}

\* The indices of a list.
LEMMA ListFacts ==
    ASSUME NEW s, ListOf(s)
    PROVE  Len(s) \in Nat /\ DOMAIN s = 1 .. Len(s)
  BY DEF ListOf

\* A sequence is a function.
LEMMA SeqIsFunction ==
    ASSUME NEW T, NEW t \in Seq(T)
    PROVE  t = [k \in DOMAIN t |-> t[k]]
  OBVIOUS

\* A function on the first numbers is a list.
LEMMA FunctionIsList ==
    ASSUME NEW n \in Nat, NEW s, DOMAIN s = 1 .. n, s = [k \in 1 .. n |-> s[k]]
    PROVE  ListOf(s) /\ Len(s) = n
  <1>1. s \in [1 .. n -> ToSet(s)]
    BY DEF ToSet
  <1>2. s \in Seq(ToSet(s))
    BY <1>1
  <1>. QED
    BY <1>2 DEF ListOf

\* Appending adds one entry at the end.
LEMMA Appended ==
    ASSUME NEW s, ListOf(s), NEW e
    PROVE  /\ ListOf(Append(s, e))
           /\ DOMAIN Append(s, e) = DOMAIN s \cup {Len(s) + 1}
           /\ \A k \in DOMAIN s : k < Len(s) + 1 /\ Append(s, e)[k] = s[k]
           /\ Append(s, e)[Len(s) + 1] = e
           /\ Len(s) + 1 \notin DOMAIN s /\ Len(s) + 1 \in Nat
  <1>. DEFINE T == ToSet(s) \cup {e}
              t == Append(s, e)
  <1>1. s \in Seq(T) /\ e \in T /\ Len(s) \in Nat /\ DOMAIN s = 1 .. Len(s)
    BY DEF ListOf
  <1>. HIDE DEF T
  <1>2. /\ t \in Seq(T) /\ Len(t) = Len(s) + 1
        /\ \A k \in 1 .. Len(s) : t[k] = s[k]
        /\ t[Len(s) + 1] = e
    BY <1>1
  <1>3. DOMAIN t = 1 .. Len(s) + 1 /\ t = [k \in 1 .. Len(s) + 1 |-> t[k]]
    <2>1. DOMAIN t = 1 .. Len(s) + 1
      BY <1>1, <1>2
    <2>2. t = [k \in DOMAIN t |-> t[k]]
      BY <1>2, SeqIsFunction
    <2>. QED
      BY <2>1, <2>2
  <1>. HIDE DEF t
  <1>4. ListOf(t)
    BY <1>1, <1>3, FunctionIsList
  <1>5. 1 .. Len(s) + 1 = 1 .. Len(s) \cup {Len(s) + 1}
    BY <1>1
  <1>6. /\ \A k \in 1 .. Len(s) : k < Len(s) + 1
        /\ Len(s) + 1 \notin 1 .. Len(s) /\ Len(s) + 1 \in Nat
    BY <1>1
  <1>. QED
    BY <1>1, <1>2, <1>3, <1>4, <1>5, <1>6 DEF t

\* Writing an entry changes no other.
LEMMA Written ==
    ASSUME NEW s, ListOf(s), NEW i \in DOMAIN s, NEW e
    PROVE  /\ ListOf([s EXCEPT ![i] = e])
           /\ DOMAIN [s EXCEPT ![i] = e] = DOMAIN s
           /\ [s EXCEPT ![i] = e][i] = e
           /\ \A k \in DOMAIN s : k # i => [s EXCEPT ![i] = e][k] = s[k]
  <1>. DEFINE t == [s EXCEPT ![i] = e]
  <1>1. Len(s) \in Nat /\ DOMAIN s = 1 .. Len(s)
    BY ListFacts
  <1>2. DOMAIN t = DOMAIN s /\ t = [k \in DOMAIN s |-> t[k]]
    OBVIOUS
  <1>3. ListOf(t)
    BY <1>1, <1>2, FunctionIsList
  <1>. QED
    BY <1>3

\* A set of numbers that is not empty has a least one.
LEMMA LeastNumber ==
    ASSUME NEW S \in SUBSET Nat, S # {}
    PROVE  \E n \in S : \A k \in S : n <= k
  <1>. DEFINE R == OpToRel(<, Nat)
  <1>1. \A x, y \in Nat : x < y => <<x, y>> \in R
    BY DEF OpToRel
  <1>2. IsWellFoundedOn(R, Nat)
    BY NatLessThanWellFounded
  <1>. HIDE DEF R
  <1>3. PICK x \in S : \A y \in S : ~(<<y, x>> \in R)
    BY <1>2, WFMin
  <1>4. \A y \in S : ~(y < x)
    BY <1>1, <1>3
  <1>. QED
    BY <1>4

\* Least finds an index if there is one.
LEMMA LeastFinds ==
    ASSUME NEW s, ListOf(s), NEW S \in SUBSET DOMAIN s
    PROVE  /\ Least(S) # 0 => Least(S) \in S
           /\ Least(S) = 0 => S = {}
  <1>1. DOMAIN s \subseteq Nat /\ 0 \notin DOMAIN s
    BY ListFacts
  <1>2. CASE S = {}
    BY <1>2 DEF Least
  <1>3. CASE S # {}
    <2>1. \E n \in S : \A k \in S : n <= k
      BY <1>1, <1>3, LeastNumber
    <2>2. Least(S) \in S
      BY <1>3, <2>1 DEF Least
    <2>. QED
      BY <1>1, <2>2
  <1>. QED
    BY <1>2, <1>3

\* The elements up to one of a finite set of numbers.
LEMMA UpTo ==
    ASSUME NEW T \in SUBSET Int, IsFiniteSet(T), NEW a \in T
    PROVE  /\ Cardinality({k \in T : k <= a}) \in 1 .. Cardinality(T)
           /\ Cardinality({k \in T : k <= a}) = Cardinality(T) => \A k \in T : k <= a
           /\ \A b \in T : a < b =>
                 Cardinality({k \in T : k <= a}) < Cardinality({k \in T : k <= b})
  <1>. DEFINE B(b) == {k \in T : k <= b}
  <1>1. \A b \in T : IsFiniteSet(B(b)) /\ Cardinality(B(b)) \in Nat
    BY FS_Subset, FS_CardinalityType
  <1>2. Cardinality(T) \in Nat
    BY FS_CardinalityType
  <1>3. B(a) \subseteq T /\ a \in B(a)
    OBVIOUS
  <1>4. B(a) = T => \A k \in T : k <= a
    OBVIOUS
  <1>5. ASSUME NEW b \in T, a < b
        PROVE  B(a) \subseteq B(b) /\ b \notin B(a) /\ b \in B(b)
    <2>1. (\A k \in T : k <= a => k <= b) /\ ~(b <= a) /\ b <= b
      BY <1>5
    <2>. QED
      BY <2>1
  <1>. HIDE DEF B
  <1>6. /\ Cardinality(B(a)) <= Cardinality(T)
        /\ Cardinality(B(a)) = Cardinality(T) => B(a) = T
    BY <1>3, FS_Subset
  <1>7. Cardinality(B(a)) # 0
    BY <1>1, <1>3, FS_EmptySet
  <1>8. ASSUME NEW b \in T, a < b
        PROVE  Cardinality(B(a)) < Cardinality(B(b))
    <2>1. B(a) \subseteq B(b) /\ B(a) # B(b)
      BY <1>5, <1>8
    <2>2. IsFiniteSet(B(b)) /\ Cardinality(B(b)) \in Nat /\ Cardinality(B(a)) \in Nat
      BY <1>1
    <2>3. /\ Cardinality(B(a)) <= Cardinality(B(b))
          /\ Cardinality(B(b)) = Cardinality(B(a)) => B(b) = B(a)
      BY <2>1, <2>2, FS_Subset
    <2>. QED
      BY <2>1, <2>2, <2>3
  <1>9. Cardinality(B(a)) \in 1 .. Cardinality(T)
    BY <1>1, <1>2, <1>6, <1>7
  <1>. QED
    BY <1>4, <1>6, <1>8, <1>9 DEF B

\* Ascending lists the elements of a finite set of numbers, each once.
LEMMA AscendingLists ==
    ASSUME NEW T \in SUBSET Int, IsFiniteSet(T)
    PROVE  /\ Cardinality(T) \in Nat
           /\ Ascending(T) \in [1 .. Cardinality(T) -> T]
           /\ \A n \in T : \E i \in 1 .. Cardinality(T) : Ascending(T)[i] = n
           /\ \A i, j \in 1 .. Cardinality(T) : Ascending(T)[i] = Ascending(T)[j] => i = j
           /\ \A i \in 1 .. Cardinality(T) :
                 Cardinality({k \in T : k <= Ascending(T)[i]}) = i
  <1>. DEFINE P(b) == Cardinality({k \in T : k <= b})
              n == Cardinality(T)
              g == [b \in T |-> P(b)]
  <1>1. n \in Nat
    BY FS_CardinalityType
  <1>2. /\ \A a \in T : P(a) \in 1 .. n
        /\ \A a, b \in T : a < b => P(a) < P(b)
    BY UpTo
  <1>. HIDE DEF P, n
  <1>3. ASSUME NEW a \in T, NEW b \in T, P(a) = P(b)
        PROVE  a = b
    <2>1. P(a) \in Int /\ P(b) \in Int
      BY <1>1, <1>2
    <2>2. ~(a < b) /\ ~(b < a)
      BY <1>2, <1>3, <2>1
    <2>. QED
      BY <2>2
  <1>4. g \in Injection(T, 1 .. n)
    BY <1>2, <1>3 DEF Injection, IsInjective
  <1>5. IsFiniteSet(1 .. n) /\ Cardinality(1 .. n) = n
    BY <1>1, FS_Interval
  <1>6. g \in Surjection(T, 1 .. n)
    BY <1>4, <1>5, FS_Injection DEF n
  <1>7. \A i \in 1 .. n : \E b \in T : P(b) = i
    BY <1>6 DEF Surjection
  <1>. DEFINE f == [i \in 1 .. n |-> CHOOSE b \in T : P(b) = i]
  <1>. HIDE DEF f
  <1>a. Ascending(T) = f
    BY DEF Ascending, P, n, f
  <1>b. /\ DOMAIN f = 1 .. n
        /\ \A i \in 1 .. n : f[i] = CHOOSE b \in T : P(b) = i
        /\ f = [i \in 1 .. n |-> f[i]]
    BY DEF f
  <1>8. /\ DOMAIN Ascending(T) = 1 .. n
        /\ \A i \in 1 .. n : Ascending(T)[i] = CHOOSE b \in T : P(b) = i
    BY <1>a, <1>b
  <1>9. \A i \in 1 .. n : Ascending(T)[i] \in T /\ P(Ascending(T)[i]) = i
    BY <1>7, <1>8
  <1>10. Ascending(T) \in [1 .. n -> T]
    <2>1. Ascending(T) = [i \in 1 .. n |-> Ascending(T)[i]]
      BY <1>a, <1>b
    <2>. QED
      BY <1>9, <2>1
  <1>11. \A b \in T : Ascending(T)[P(b)] = b
    BY <1>2, <1>3, <1>9
  <1>12. \A i, j \in 1 .. n : Ascending(T)[i] = Ascending(T)[j] => i = j
    BY <1>9
  <1>13. \A b \in T : \E i \in 1 .. n : Ascending(T)[i] = b
    BY <1>2, <1>11
  <1>. QED
    BY <1>1, <1>9, <1>10, <1>12, <1>13 DEF P, n

\* ById lists the rows of a table, each once.
LEMMA ByIdLists ==
    ASSUME NEW table, DOMAIN table \subseteq Int, IsFiniteSet(DOMAIN table),
           \A i \in DOMAIN table : table[i].id = i
    PROVE  LET s == ById(table)
           IN  /\ ListOf(s)
               /\ \A k \in DOMAIN s : s[k].id \in DOMAIN table /\ s[k] = table[s[k].id]
               /\ \A k, l \in DOMAIN s : s[k].id = s[l].id => k = l
               /\ \A i \in DOMAIN table : \E k \in DOMAIN s : s[k].id = i
               /\ IdsOf(s) = DOMAIN table
  <1>. DEFINE T == DOMAIN table
              n == Cardinality(T)
              a == Ascending(T)
              s == ById(table)
  <1>1. /\ n \in Nat /\ a \in [1 .. n -> T]
        /\ \A b \in T : \E i \in 1 .. n : a[i] = b
        /\ \A i, j \in 1 .. n : a[i] = a[j] => i = j
    <2>1. T \in SUBSET Int
      OBVIOUS
    <2>. HIDE DEF T
    <2>. QED
      BY <2>1, AscendingLists DEF T
  <1>2. s = [k \in DOMAIN a |-> table[a[k]]]
    BY DEF ById
  <1>. HIDE DEF a, n, s
  <1>3. DOMAIN s = 1 .. n /\ s = [k \in 1 .. n |-> s[k]] /\ \A k \in 1 .. n : s[k] = table[a[k]]
    BY <1>1, <1>2
  <1>4. ListOf(s)
    BY <1>1, <1>3, FunctionIsList
  <1>5. \A k \in 1 .. n : s[k].id = a[k] /\ a[k] \in T
    BY <1>1, <1>3
  <1>6. /\ \A k \in DOMAIN s : s[k].id \in DOMAIN table /\ s[k] = table[s[k].id]
        /\ \A k, l \in DOMAIN s : s[k].id = s[l].id => k = l
        /\ \A i \in DOMAIN table : \E k \in DOMAIN s : s[k].id = i
    BY <1>1, <1>3, <1>5
  <1>7. IdsOf(s) = DOMAIN table
    BY <1>6 DEF IdsOf
  <1>. QED
    BY <1>4, <1>6, <1>7 DEF s

\* A finite set of numbers that is not empty has a greatest and a least one.
LEMMA FiniteBounds ==
    ASSUME NEW T \in SUBSET Int, IsFiniteSet(T), T # {}
    PROVE  /\ \E n \in T : \A i \in T : i <= n
           /\ \E n \in T : \A i \in T : n <= i
  <1>. DEFINE c == Cardinality(T)
  <1>1. c \in Nat /\ c # 0
    BY FS_CardinalityType, FS_EmptySet
  <1>2. 1 \in 1 .. c /\ c \in 1 .. c
    BY <1>1
  <1>3. \A i \in 1 .. c : Ascending(T)[i] \in T /\ Cardinality({k \in T : k <= Ascending(T)[i]}) = i
    BY AscendingLists
  <1>4. PICK a \in T : Cardinality({k \in T : k <= a}) = c
    BY <1>2, <1>3
  <1>5. \A k \in T : k <= a
    BY <1>4, UpTo
  <1>6. PICK b \in T : Cardinality({k \in T : k <= b}) = 1
    BY <1>2, <1>3
  <1>. HIDE DEF c
  <1>7. ASSUME NEW i \in T PROVE b <= i
    <2>1. i < b => Cardinality({k \in T : k <= i}) < Cardinality({k \in T : k <= b})
      BY UpTo
    <2>2. Cardinality({k \in T : k <= i}) \in 1 .. c
      BY UpTo DEF c
    <2>. QED
      BY <1>1, <1>6, <2>1, <2>2
  <1>. QED
    BY <1>5, <1>7

\* The rows written of a list without a double id.
LEMMA RowsOf ==
    ASSUME NEW s, ListOf(s), \A k, l \in DOMAIN s : s[k].id = s[l].id => k = l
    PROVE  /\ DOMAIN Rows(s) = IdsOf(s)
           /\ IsFiniteSet(IdsOf(s))
           /\ \A k \in DOMAIN s : s[k].id \in IdsOf(s) /\ Rows(s)[s[k].id] = s[k].row
           /\ \A i \in IdsOf(s) : \E k \in DOMAIN s : s[k].id = i
  <1>1. {r.id : r \in ToSet(s)} = IdsOf(s)
    BY DEF ToSet, IdsOf
  <1>2. DOMAIN Rows(s) = IdsOf(s)
    BY <1>1 DEF Rows
  <1>3. ASSUME NEW k \in DOMAIN s
        PROVE  s[k].id \in IdsOf(s) /\ Rows(s)[s[k].id] = s[k].row
    <2>1. s[k] \in ToSet(s) /\ s[k].id \in IdsOf(s)
      BY DEF ToSet, IdsOf
    <2>2. ASSUME NEW r \in ToSet(s), r.id = s[k].id PROVE r = s[k]
      BY <2>2 DEF ToSet
    <2>3. (CHOOSE r \in ToSet(s) : r.id = s[k].id) = s[k]
      BY <2>1, <2>2
    <2>4. Rows(s)[s[k].id] = (CHOOSE r \in ToSet(s) : r.id = s[k].id).row
      BY <1>1, <2>1 DEF Rows
    <2>. QED
      BY <2>1, <2>3, <2>4
  <1>4. IsFiniteSet(IdsOf(s))
    <2>. DEFINE f == [k \in DOMAIN s |-> s[k].id]
    <2>1. f \in Surjection(DOMAIN s, IdsOf(s))
      BY DEF Surjection, IdsOf
    <2>2. IsFiniteSet(DOMAIN s)
      <3>1. PICK n \in Nat : n = Len(s)
        BY ListFacts
      <3>2. IsFiniteSet(1 .. n)
        BY FS_Interval
      <3>. QED
        BY <3>1, <3>2, ListFacts
    <2>. HIDE DEF f
    <2>. QED
      BY <2>1, <2>2, FS_Surjection
  <1>5. \A i \in IdsOf(s) : \E k \in DOMAIN s : s[k].id = i
    BY DEF IdsOf
  <1>. QED
    BY <1>2, <1>3, <1>4, <1>5

\* An order of a finite set has each of its elements once.
LEMMA OrderOf ==
    ASSUME NEW S, IsFiniteSet(S), NEW order \in SetToSeqs(S)
    PROVE  /\ ListOf(order)
           /\ ToSet(order) = S
           /\ \A i, j \in DOMAIN order : order[i] = order[j] => i = j
  <1>. DEFINE n == Cardinality(S)
  <1>1. n \in Nat
    BY FS_CardinalityType
  <1>2. /\ order \in [1 .. n -> S]
        /\ \A i, j \in 1 .. n : order[i] = order[j] => i = j
    BY DEF SetToSeqs
  <1>3. order \in Injection(1 .. n, S)
    BY <1>2 DEF Injection, IsInjective
  <1>4. IsFiniteSet(1 .. n) /\ Cardinality(1 .. n) = n
    BY <1>1, FS_Interval
  <1>5. order \in Surjection(1 .. n, S)
    BY <1>3, <1>4, FS_Injection
  <1>6. ToSet(order) = S
    BY <1>2, <1>5 DEF ToSet, Surjection
  <1>7. ListOf(order)
    BY <1>1, <1>2, FunctionIsList
  <1>. QED
    BY <1>2, <1>6, <1>7

-----------------------------------------------------------------------------
(* The maps of a scan.  *)

MapFields == {"artists", "albums", "ids", "found", "album", "genres", "songs"}

\* The id was there before those that are still to be given.
Before(i, ids) == IF ids.step = 1 THEN i < ids.next ELSE i > ids.next

\* The artists of a scan: those of the table, and new ones that no earlier one matches.
ArtistList(s, ids, P) ==
    /\ ListOf(s)
    /\ \A k \in DOMAIN s : /\ DOMAIN s[k] = {"id", "folders", "row"}
                           /\ s[k].id \in Int /\ Before(s[k].id, ids)
    /\ \A k, l \in DOMAIN s : s[k].id = s[l].id => k = l
    /\ DOMAIN db.artists \subseteq IdsOf(s)
    /\ \A k \in DOMAIN s : IF s[k].id \in DOMAIN db.artists THEN s[k].row = db.artists[s[k].id]
                           ELSE s[k].row \in P
    /\ \A k, l \in DOMAIN s :
          k < l /\ s[l].id \notin DOMAIN db.artists => ~ArtistMatches(s[k].row, s[l].row)

\* The albums of a scan: those of the table until a file finds them.
AlbumList(s, ids) ==
    /\ ListOf(s)
    /\ \A k \in DOMAIN s : /\ DOMAIN s[k] = {"id", "updated", "row"}
                           /\ s[k].id \in Int /\ Before(s[k].id, ids)
                           /\ s[k].updated \in BOOLEAN
    /\ \A k, l \in DOMAIN s : s[k].id = s[l].id => k = l
    /\ DOMAIN db.albums \subseteq IdsOf(s)
    /\ \A k \in DOMAIN s :
          ~s[k].updated => /\ s[k].id \in DOMAIN db.albums
                           /\ s[k].row = OrNull(db.albums[s[k].id], scan.load.ids)

MapLinks(s) == UNION {{<<i, a.id>> : i \in a.folders} : a \in ToSet(s)}

\* An album that a file has found is in the file's folder, with its artists.
Found(e, artists) ==
    /\ DOMAIN e.row = AlbumFields
    /\ e.row.folder \in scan.load.ids
    /\ \A a \in e.row.artists : <<e.row.folder, a>> \in MapLinks(artists)

\* A song read is in the folder of its album, with its artists.
ReadSong(s, m) ==
    /\ DOMAIN s = SongFields
    /\ s.folder \in scan.load.ids
    /\ s.genres \subseteq m.genres
    /\ \A a \in s.artists : <<s.folder, a>> \in MapLinks(m.artists)
    /\ s.album # None =>
          \E k \in DOMAIN m.albums : /\ m.albums[k].id = s.album /\ m.albums[k].updated
                                     /\ m.albums[k].row.folder = s.folder

Maps(m, R, P) ==
    /\ DOMAIN m = MapFields
    /\ m.ids \in [next : Int, step : {1, -1}]
    /\ ArtistList(m.artists, m.ids, P)
    /\ AlbumList(m.albums, m.ids)
    /\ \A k \in DOMAIN m.artists, l \in DOMAIN m.albums : m.artists[k].id # m.albums[l].id
    /\ ~scan.full => Justified(db) \subseteq MapLinks(m.artists)
    /\ \A k \in DOMAIN m.albums :
          m.albums[k].updated => /\ Found(m.albums[k], m.artists)
                                 /\ \E f \in R : m.songs[f].album = m.albums[k].id
    /\ R \subseteq DOMAIN m.songs
    /\ \A f \in DOMAIN m.songs :
          IF f \in R THEN ReadSong(m.songs[f], m)
          ELSE f \in DOMAIN db.songs /\ m.songs[f] = OrNull(db.songs[f], scan.load.ids)
    /\ db.genres \subseteq m.genres

\* Who the files of R name.
TagsOf(R) == UNION {ToSet(disk[f].artists \o disk[f].albumArtists) : f \in R}

\* The pairs of a list of artists.
LEMMA LinkIn ==
    ASSUME NEW s, NEW i, NEW a
    PROVE  <<i, a>> \in MapLinks(s) <=> \E k \in DOMAIN s : s[k].id = a /\ i \in s[k].folders
  BY DEF MapLinks, ToSet

\* Each entry is still there, with its folders.
Widens(s, t) ==
    \A k \in DOMAIN s : k \in DOMAIN t /\ t[k].id = s[k].id /\ s[k].folders \subseteq t[k].folders

\* Whatever links one list has another has as well.
LEMMA LinksWithin ==
    ASSUME NEW s, NEW t, Widens(s, t)
    PROVE  MapLinks(s) \subseteq MapLinks(t)
  <1>. SUFFICES ASSUME NEW l \in MapLinks(s) PROVE l \in MapLinks(t)
    OBVIOUS
  <1>1. PICK k \in DOMAIN s : \E i \in s[k].folders : l = <<i, s[k].id>>
    BY DEF MapLinks, ToSet
  <1>. QED
    BY <1>1, LinkIn DEF Widens

\* The ids of rows there are come before those of new ones.
LEMMA NewIdsFresh ==
    ASSUME Numbered(db), NEW ids \in NewIds
    PROVE  /\ ids \in [next : Int, step : {1, -1}]
           /\ \A i \in DOMAIN db.albums \cup DOMAIN db.artists : Before(i, ids)
  <1>. DEFINE used == DOMAIN db.albums \cup DOMAIN db.artists \cup {0}
              last == CHOOSE n \in used : \A i \in used : i <= n
              first == CHOOSE n \in used : \A i \in used : n <= i
  <1>1. used \in SUBSET Int /\ IsFiniteSet(used) /\ used # {}
    <2>1. IsFiniteSet(DOMAIN db.albums \cup DOMAIN db.artists)
      BY FS_Union DEF Numbered
    <2>2. IsFiniteSet(used)
      BY <2>1, FS_AddElement
    <2>. QED
      BY <2>2 DEF Numbered
  <1>2. /\ \E n \in used : \A i \in used : i <= n
        /\ \E n \in used : \A i \in used : n <= i
    <2>. HIDE DEF used
    <2>. QED
      BY <1>1, FiniteBounds
  <1>3. last \in Int /\ \A i \in used : i <= last
    BY <1>1, <1>2
  <1>4. first \in Int /\ \A i \in used : first <= i
    BY <1>1, <1>2
  <1>5. \/ ids = [next |-> last + 1, step |-> 1]
        \/ ids = [next |-> first - 1, step |-> -1]
    BY DEF NewIds
  <1>6. DOMAIN db.albums \cup DOMAIN db.artists \subseteq used
    OBVIOUS
  <1>. HIDE DEF used, last, first
  <1>7. CASE ids = [next |-> last + 1, step |-> 1]
    <2>1. /\ ids \in [next : Int, step : {1, -1}] /\ ids.step = 1 /\ ids.next = last + 1
          /\ \A i \in used : i < last + 1
      BY <1>1, <1>3, <1>7
    <2>. QED
      BY <1>6, <2>1 DEF Before
  <1>8. CASE ids = [next |-> first - 1, step |-> -1]
    <2>1. /\ ids \in [next : Int, step : {1, -1}] /\ ids.step # 1 /\ ids.next = first - 1
          /\ \A i \in used : i > first - 1
      BY <1>1, <1>4, <1>8
    <2>. QED
      BY <1>6, <2>1 DEF Before
  <1>. QED
    BY <1>5, <1>7, <1>8

\* Taking an id leaves those before it before the next.
LEMMA IdTaken ==
    ASSUME NEW ids \in [next : Int, step : {1, -1}]
    PROVE  /\ NextId(ids) \in [next : Int, step : {1, -1}]
           /\ ids.next \in Int
           /\ ~Before(ids.next, ids)
           /\ Before(ids.next, NextId(ids))
           /\ \A i \in Int : Before(i, ids) => Before(i, NextId(ids))
  <1>1. ids.next \in Int /\ ids.step \in {1, -1}
    OBVIOUS
  <1>2. NextId(ids) = [next |-> ids.next + ids.step, step |-> ids.step]
    BY DEF NextId
  <1>3. CASE ids.step = 1
    BY <1>1, <1>2, <1>3 DEF Before
  <1>4. CASE ids.step = -1
    BY <1>1, <1>2, <1>4 DEF Before
  <1>. QED
    BY <1>1, <1>3, <1>4

\* The maps a scan begins with.
LEMMA MapsBegin ==
    ASSUME Consistent, scan.pc = "run", NEW ids \in NewIds, NEW P
    PROVE  Maps(NewMaps(ids), {}, P)
  <1>. DEFINE m == NewMaps(ids)
              full == scan.full
              artists == [i \in DOMAIN db.artists |->
                 [id |-> i, row |-> db.artists[i],
                  folders |-> IF full THEN {} ELSE {l[1] : l \in {k \in db.links : k[2] = i}}]]
              albums == [i \in DOMAIN db.albums |->
                 [id |-> i, updated |-> FALSE, row |-> OrNull(db.albums[i], scan.load.ids)]]
  <1>1. Numbered(db) /\ Closed(db, folders.ids) /\ full \in BOOLEAN
    BY DEF Consistent, Loaded
  <1>2. /\ DOMAIN m = MapFields /\ m.ids = ids
        /\ m.artists = ById(artists) /\ m.albums = ById(albums)
        /\ m.songs = [f \in DOMAIN db.songs |-> OrNull(db.songs[f], scan.load.ids)]
        /\ m.genres = db.genres
    BY DEF NewMaps, MapFields, NewArtistMapFromDB, NewAlbumMapFromDB
  <1>3. /\ ids \in [next : Int, step : {1, -1}]
        /\ \A i \in DOMAIN db.albums \cup DOMAIN db.artists : Before(i, ids)
    BY <1>1, NewIdsFresh
  <1>4. /\ ListOf(m.artists)
        /\ \A k \in DOMAIN m.artists :
              m.artists[k].id \in DOMAIN db.artists /\ m.artists[k] = artists[m.artists[k].id]
        /\ \A k, l \in DOMAIN m.artists : m.artists[k].id = m.artists[l].id => k = l
        /\ \A i \in DOMAIN db.artists : \E k \in DOMAIN m.artists : m.artists[k].id = i
        /\ IdsOf(m.artists) = DOMAIN db.artists
    <2>1. /\ DOMAIN artists = DOMAIN db.artists
          /\ DOMAIN artists \subseteq Int /\ IsFiniteSet(DOMAIN artists)
          /\ \A i \in DOMAIN artists : artists[i].id = i
      BY <1>1 DEF Numbered
    <2>. HIDE DEF artists, m
    <2>. QED
      BY <1>2, <2>1, ByIdLists
  <1>5. /\ ListOf(m.albums)
        /\ \A k \in DOMAIN m.albums :
              m.albums[k].id \in DOMAIN db.albums /\ m.albums[k] = albums[m.albums[k].id]
        /\ \A k, l \in DOMAIN m.albums : m.albums[k].id = m.albums[l].id => k = l
        /\ \A i \in DOMAIN db.albums : \E k \in DOMAIN m.albums : m.albums[k].id = i
        /\ IdsOf(m.albums) = DOMAIN db.albums
    <2>1. /\ DOMAIN albums = DOMAIN db.albums
          /\ DOMAIN albums \subseteq Int /\ IsFiniteSet(DOMAIN albums)
          /\ \A i \in DOMAIN albums : albums[i].id = i
      BY <1>1 DEF Numbered
    <2>. HIDE DEF albums, m
    <2>. QED
      BY <1>2, <2>1, ByIdLists
  <1>6. \A i \in DOMAIN db.artists :
           /\ DOMAIN artists[i] = {"id", "folders", "row"} /\ artists[i].row = db.artists[i]
           /\ artists[i].folders = IF full THEN {} ELSE {l[1] : l \in {k \in db.links : k[2] = i}}
    OBVIOUS
  <1>7. \A i \in DOMAIN db.albums :
           /\ DOMAIN albums[i] = {"id", "updated", "row"} /\ albums[i].updated = FALSE
           /\ albums[i].row = OrNull(db.albums[i], scan.load.ids)
    OBVIOUS
  <1>. HIDE DEF m, artists, albums
  <1>8. ArtistList(m.artists, ids, P)
    <2>1. ASSUME NEW k \in DOMAIN m.artists
          PROVE  /\ DOMAIN m.artists[k] = {"id", "folders", "row"}
                 /\ m.artists[k].id \in Int /\ Before(m.artists[k].id, ids)
                 /\ m.artists[k].id \in DOMAIN db.artists
                 /\ m.artists[k].row = db.artists[m.artists[k].id]
      <3>1. PICK i \in DOMAIN db.artists : m.artists[k] = artists[i] /\ i = m.artists[k].id
        BY <1>4
      <3>. QED
        BY <1>1, <1>3, <1>6, <3>1 DEF Numbered
    <2>. QED
      BY <1>4, <2>1 DEF ArtistList
  <1>9. AlbumList(m.albums, ids)
    <2>1. ASSUME NEW k \in DOMAIN m.albums
          PROVE  /\ DOMAIN m.albums[k] = {"id", "updated", "row"}
                 /\ m.albums[k].id \in Int /\ Before(m.albums[k].id, ids)
                 /\ m.albums[k].updated = FALSE
                 /\ m.albums[k].id \in DOMAIN db.albums
                 /\ m.albums[k].row = OrNull(db.albums[m.albums[k].id], scan.load.ids)
      <3>1. PICK i \in DOMAIN db.albums : m.albums[k] = albums[i] /\ i = m.albums[k].id
        BY <1>5
      <3>. QED
        BY <1>1, <1>3, <1>7, <3>1 DEF Numbered
    <2>. QED
      BY <1>5, <2>1 DEF AlbumList
  <1>10. \A k \in DOMAIN m.artists, l \in DOMAIN m.albums : m.artists[k].id # m.albums[l].id
    BY <1>1, <1>4, <1>5 DEF Numbered
  <1>11. ASSUME ~full, NEW j \in Justified(db)
         PROVE  j \in MapLinks(m.artists)
    <2>1. PICK i, a : j = <<i, a>> /\ a \in DOMAIN db.artists
      BY <1>1 DEF Justified, Closed
    <2>2. <<i, a>> \in db.links
      BY <1>1, <2>1 DEF Closed
    <2>3. i \in artists[a].folders
      BY <1>6, <1>11, <2>1, <2>2
    <2>. QED
      BY <1>4, <2>1, <2>3, LinkIn
  <1>12. \A k \in DOMAIN m.albums : ~m.albums[k].updated
    BY <1>5, <1>7
  <1>13. \A f \in DOMAIN m.songs :
            f \in DOMAIN db.songs /\ m.songs[f] = OrNull(db.songs[f], scan.load.ids)
    BY <1>2
  <1>14. ~full => Justified(db) \subseteq MapLinks(m.artists)
    BY <1>11
  <1>15. DOMAIN m = MapFields /\ m.ids = ids /\ m.genres = db.genres
    BY <1>2
  <1>16. Maps(m, {}, P)
    BY <1>3, <1>8, <1>9, <1>10, <1>12, <1>13, <1>14, <1>15 DEF Maps
  <1>. QED
    BY <1>16 DEF m

-----------------------------------------------------------------------------
(* The artists of a file.  *)

\* The artists have come to be more, or in more folders; nothing else has changed.
Grown(m, n) ==
    /\ DOMAIN n = MapFields
    /\ n.albums = m.albums /\ n.songs = m.songs /\ n.genres = m.genres
    /\ MapLinks(m.artists) \subseteq MapLinks(n.artists)

\* The artists found for a file are in its folder.
FoundIn(m, folder) == \A x \in m.found : <<folder, x>> \in MapLinks(m.artists)

\* An entry is written, or added at the end.
Writes(s, t, i, e) ==
    /\ ListOf(t) /\ DOMAIN t = DOMAIN s /\ t[i] = e
    /\ \A k \in DOMAIN s : k # i => t[k] = s[k]
Adds(s, t, n, e) ==
    /\ ListOf(t) /\ DOMAIN t = DOMAIN s \cup {n} /\ n \notin DOMAIN s /\ n \in Nat
    /\ \A k \in DOMAIN s : k < n /\ t[k] = s[k]
    /\ t[n] = e

\* What EXCEPT does.
LEMMA ExceptWrites ==
    ASSUME NEW s, ListOf(s), NEW i \in DOMAIN s, NEW e, NEW t, t = [s EXCEPT ![i] = e]
    PROVE  Writes(s, t, i, e)
  <1>1. /\ ListOf([s EXCEPT ![i] = e]) /\ DOMAIN [s EXCEPT ![i] = e] = DOMAIN s
        /\ [s EXCEPT ![i] = e][i] = e
        /\ \A k \in DOMAIN s : k # i => [s EXCEPT ![i] = e][k] = s[k]
    BY Written
  <1>. QED
    BY <1>1, Zenon DEF Writes

\* What Append does.
LEMMA AppendAdds ==
    ASSUME NEW s, ListOf(s), NEW e, NEW t, t = Append(s, e)
    PROVE  Adds(s, t, Len(s) + 1, e)
  <1>1. /\ ListOf(Append(s, e))
        /\ DOMAIN Append(s, e) = DOMAIN s \cup {Len(s) + 1}
        /\ \A k \in DOMAIN s : k < Len(s) + 1 /\ Append(s, e)[k] = s[k]
        /\ Append(s, e)[Len(s) + 1] = e
        /\ Len(s) + 1 \notin DOMAIN s /\ Len(s) + 1 \in Nat
    BY Appended
  <1>. QED
    BY <1>1, Zenon DEF Adds

\* The artist in one folder more.
Touched(e, f, folder) ==
    /\ DOMAIN f = {"id", "folders", "row"} /\ f.id = e.id /\ f.row = e.row
    /\ f.folders = e.folders \cup {folder}

\* An artist that is in the list is in one folder more.
LEMMA ArtistTouched ==
    ASSUME NEW s, NEW ids, NEW P, ArtistList(s, ids, P), NEW i \in DOMAIN s, NEW folder, NEW t,
           NEW e, Touched(s[i], e, folder), Writes(s, t, i, e)
    PROVE  /\ ArtistList(t, ids, P)
           /\ MapLinks(s) \subseteq MapLinks(t)
           /\ <<folder, s[i].id>> \in MapLinks(t)
           /\ DOMAIN t = DOMAIN s
           /\ \A k \in DOMAIN s : t[k].id = s[k].id
  <1>1. ListOf(t) /\ DOMAIN t = DOMAIN s /\ t[i] = e /\ DOMAIN s[i] = {"id", "folders", "row"}
    BY DEF Writes, ArtistList
  <1>2. ASSUME NEW k \in DOMAIN s
        PROVE  /\ DOMAIN t[k] = DOMAIN s[k] /\ t[k].id = s[k].id /\ t[k].row = s[k].row
               /\ s[k].folders \subseteq t[k].folders
    <2>1. CASE k = i
      BY <1>1, <2>1 DEF Touched
    <2>2. CASE k # i
      BY <2>2 DEF Writes
    <2>. QED
      BY <2>1, <2>2
  <1>3. IdsOf(t) = IdsOf(s)
    BY <1>1, <1>2 DEF IdsOf
  <1>4. MapLinks(s) \subseteq MapLinks(t)
    BY <1>1, <1>2, LinksWithin DEF Widens
  <1>5. <<folder, s[i].id>> \in MapLinks(t)
    BY <1>1, LinkIn DEF Touched
  <1>6. ArtistList(t, ids, P)
    <2>1. ASSUME NEW k \in DOMAIN t
          PROVE  /\ DOMAIN t[k] = {"id", "folders", "row"}
                 /\ t[k].id \in Int /\ Before(t[k].id, ids)
                 /\ IF t[k].id \in DOMAIN db.artists THEN t[k].row = db.artists[t[k].id]
                    ELSE t[k].row \in P
      BY <1>1, <1>2 DEF ArtistList
    <2>2. ASSUME NEW k \in DOMAIN t, NEW l \in DOMAIN t
          PROVE  /\ t[k].id = t[l].id => k = l
                 /\ k < l /\ t[l].id \notin DOMAIN db.artists
                       => ~ArtistMatches(t[k].row, t[l].row)
      BY <1>1, <1>2 DEF ArtistList
    <2>3. DOMAIN db.artists \subseteq IdsOf(t)
      BY <1>3 DEF ArtistList
    <2>. QED
      BY <1>1, <2>1, <2>2, <2>3 DEF ArtistList
  <1>. QED
    BY <1>1, <1>2, <1>4, <1>5, <1>6

\* An artist that none in the list matches is added with the next id.
LEMMA ArtistAdded ==
    ASSUME NEW s, NEW ids \in [next : Int, step : {1, -1}], NEW P, ArtistList(s, ids, P),
           NEW tag \in P, \A k \in DOMAIN s : ~ArtistMatches(s[k].row, tag), NEW folder,
           NEW t, NEW n, NEW e, Adds(s, t, n, e),
           e = [id |-> ids.next, folders |-> {folder}, row |-> tag]
    PROVE  /\ ArtistList(t, NextId(ids), P)
           /\ MapLinks(s) \subseteq MapLinks(t)
           /\ <<folder, ids.next>> \in MapLinks(t)
           /\ \A k \in DOMAIN t : t[k].id = ids.next \/ (k \in DOMAIN s /\ t[k] = s[k])
  <1>1. ListOf(s)
    BY DEF ArtistList
  <1>2. /\ DOMAIN e = {"id", "folders", "row"} /\ e.id = ids.next /\ e.row = tag
        /\ e.folders = {folder}
    OBVIOUS
  <1>4. /\ ListOf(t) /\ DOMAIN t = DOMAIN s \cup {n} /\ n \notin DOMAIN s /\ n \in Nat
        /\ \A k \in DOMAIN s : k < n /\ t[k] = s[k]
        /\ t[n] = e
    BY DEF Adds
  <1>5. DOMAIN s \subseteq Nat
    BY <1>1, ListFacts
  <1>6. /\ ids.next \in Int /\ ~Before(ids.next, ids) /\ Before(ids.next, NextId(ids))
        /\ \A i \in Int : Before(i, ids) => Before(i, NextId(ids))
    BY IdTaken
  <1>7. \A k \in DOMAIN s : s[k].id # ids.next /\ s[k].id \in Int /\ Before(s[k].id, ids)
    BY <1>6 DEF ArtistList
  <1>8. ids.next \notin DOMAIN db.artists
    BY <1>7 DEF ArtistList, IdsOf
  <1>9. ASSUME NEW k \in DOMAIN t
        PROVE  /\ DOMAIN t[k] = {"id", "folders", "row"}
               /\ t[k].id \in Int /\ Before(t[k].id, NextId(ids))
               /\ IF t[k].id \in DOMAIN db.artists THEN t[k].row = db.artists[t[k].id]
                  ELSE t[k].row \in P
    <2>1. CASE k = n
      BY <1>2, <1>4, <1>6, <1>8, <2>1
    <2>2. CASE k \in DOMAIN s
      <3>1. t[k] = s[k] /\ DOMAIN s[k] = {"id", "folders", "row"}
        BY <1>4, <2>2 DEF ArtistList
      <3>2. IF s[k].id \in DOMAIN db.artists THEN s[k].row = db.artists[s[k].id]
            ELSE s[k].row \in P
        BY <2>2 DEF ArtistList
      <3>. QED
        BY <1>6, <1>7, <2>2, <3>1, <3>2
    <2>. QED
      BY <1>4, <2>1, <2>2
  <1>10. ASSUME NEW k \in DOMAIN t, NEW l \in DOMAIN t, t[k].id = t[l].id
         PROVE  k = l
    BY <1>2, <1>4, <1>7, <1>10 DEF ArtistList
  <1>11. IdsOf(s) \subseteq IdsOf(t)
    BY <1>4 DEF IdsOf
  <1>12. ASSUME NEW k \in DOMAIN t, NEW l \in DOMAIN t, k < l, t[l].id \notin DOMAIN db.artists
         PROVE  ~ArtistMatches(t[k].row, t[l].row)
    <2>1. CASE l = n
      <3>1. k \in DOMAIN s /\ t[k] = s[k] /\ t[l].row = tag
        BY <1>2, <1>4, <1>5, <1>12, <2>1
      <3>. QED
        BY <3>1
    <2>2. CASE l \in DOMAIN s
      <3>1. k \in DOMAIN s /\ t[k] = s[k] /\ t[l] = s[l]
        <4>1. l < n /\ k # n
          BY <1>4, <1>5, <1>12, <2>2
        <4>. QED
          BY <1>4, <2>2, <4>1
      <3>. QED
        BY <1>12, <2>2, <3>1 DEF ArtistList
    <2>. QED
      BY <1>4, <2>1, <2>2
  <1>13. ArtistList(t, NextId(ids), P)
    <2>1. DOMAIN db.artists \subseteq IdsOf(t)
      BY <1>11 DEF ArtistList
    <2>. QED
      BY <1>4, <1>9, <1>10, <1>12, <2>1 DEF ArtistList
  <1>14. MapLinks(s) \subseteq MapLinks(t)
    BY <1>4, LinksWithin DEF Widens
  <1>15. <<folder, ids.next>> \in MapLinks(t)
    BY <1>2, <1>4, LinkIn
  <1>16. ASSUME NEW k \in DOMAIN t PROVE t[k].id = ids.next \/ (k \in DOMAIN s /\ t[k] = s[k])
    <2>1. CASE k = n
      <3>1. t[k].id = e.id
        BY <1>4, <2>1, Zenon
      <3>. QED
        BY <1>2, <3>1, Zenon
    <2>2. CASE k \in DOMAIN s
      BY <1>4, <2>2, Zenon
    <2>. QED
      BY <1>4, <2>1, <2>2, Zenon
  <1>. QED
    BY <1>13, <1>14, <1>15, <1>16

\* The maps are as well kept with more artists.
LEMMA MapsGrow ==
    ASSUME NEW m, NEW n, NEW R, NEW P, Maps(m, R, P), Grown(m, n),
           n.ids \in [next : Int, step : {1, -1}],
           \A i \in Int : Before(i, m.ids) => Before(i, n.ids),
           ArtistList(n.artists, n.ids, P),
           \A k \in DOMAIN n.artists, l \in DOMAIN m.albums : n.artists[k].id # m.albums[l].id
    PROVE  Maps(n, R, P)
  <1>1. n.albums = m.albums /\ n.songs = m.songs /\ n.genres = m.genres /\ DOMAIN n = MapFields
    BY DEF Grown
  <1>2. AlbumList(n.albums, n.ids)
    <2>1. AlbumList(m.albums, m.ids)
      BY DEF Maps
    <2>. QED
      BY <1>1, <2>1 DEF AlbumList
  <1>3. ASSUME NEW e, Found(e, m.artists) PROVE Found(e, n.artists)
    BY <1>3 DEF Found, Grown
  <1>4. ASSUME NEW s, ReadSong(s, m) PROVE ReadSong(s, n)
    BY <1>1, <1>4 DEF ReadSong, Grown
  <1>5. ~scan.full => Justified(db) \subseteq MapLinks(n.artists)
    BY DEF Maps, Grown
  <1>6. /\ \A k \in DOMAIN n.albums :
              n.albums[k].updated => /\ Found(n.albums[k], n.artists)
                                     /\ \E f \in R : n.songs[f].album = n.albums[k].id
        /\ R \subseteq DOMAIN n.songs
        /\ db.genres \subseteq n.genres
    BY <1>1, <1>3 DEF Maps
  <1>7. \A f \in DOMAIN n.songs :
          IF f \in R THEN ReadSong(n.songs[f], n)
          ELSE f \in DOMAIN db.songs /\ n.songs[f] = OrNull(db.songs[f], scan.load.ids)
    BY <1>1, <1>4 DEF Maps
  <1>. QED
    BY <1>1, <1>2, <1>5, <1>6, <1>7 DEF Maps

\* artistMap.findOrCreate keeps the maps, and the artist found is in the folder.
LEMMA ArtistFound ==
    ASSUME NEW m, NEW R, NEW P, Maps(m, R, P), NEW tag \in P, NEW folder, FoundIn(m, folder),
           NEW n, n = FindOrCreateArtist(m, tag, folder)
    PROVE  Maps(n, R, P) /\ Grown(m, n) /\ FoundIn(n, folder)
  <1>. DEFINE s == m.artists
              S == {k \in DOMAIN s : ArtistMatches(s[k].row, tag)}
              i == Least(S)
              e == [id |-> m.ids.next, folders |-> {folder}, row |-> tag]
  <1>1. /\ DOMAIN m = MapFields /\ m.ids \in [next : Int, step : {1, -1}]
        /\ ArtistList(s, m.ids, P) /\ ListOf(s) /\ AlbumList(m.albums, m.ids)
        /\ \A k \in DOMAIN s, l \in DOMAIN m.albums : s[k].id # m.albums[l].id
    BY DEF Maps, ArtistList
  <1>2. (i # 0 => i \in S) /\ (i = 0 => S = {})
    <2>1. S \in SUBSET DOMAIN s
      OBVIOUS
    <2>. HIDE DEF S, s
    <2>. QED
      BY <1>1, <2>1, LeastFinds
  <1>3. CASE i # 0
    <2>1. i \in DOMAIN s
      BY <1>2, <1>3
    <2>2. n = [m EXCEPT !.artists[i].folders = @ \cup {folder}, !.found = @ \cup {s[i].id}]
      BY <1>3 DEF FindOrCreateArtist
    <2>. HIDE DEF i
    <2>3. /\ DOMAIN n = MapFields /\ n.ids = m.ids /\ n.albums = m.albums /\ n.songs = m.songs
          /\ n.genres = m.genres /\ n.found = m.found \cup {s[i].id}
          /\ n.artists = [s EXCEPT ![i].folders = @ \cup {folder}]
      BY <1>1, <2>2 DEF MapFields
    <2>. HIDE DEF s
    <2>3a. PICK f : f = [s[i] EXCEPT !.folders = @ \cup {folder}]
      OBVIOUS
    <2>3b. Touched(s[i], f, folder)
      BY <1>1, <2>1, <2>3a DEF ArtistList, Touched
    <2>3c. n.artists = [s EXCEPT ![i] = f]
      BY <2>3, <2>3a
    <2>3d. Writes(s, n.artists, i, f)
      BY <1>1, <2>1, <2>3c, ExceptWrites
    <2>4. /\ ArtistList(n.artists, m.ids, P)
          /\ MapLinks(s) \subseteq MapLinks(n.artists)
          /\ <<folder, s[i].id>> \in MapLinks(n.artists)
          /\ DOMAIN n.artists = DOMAIN s
          /\ \A k \in DOMAIN s : n.artists[k].id = s[k].id
      BY <1>1, <2>1, <2>3b, <2>3d, ArtistTouched
    <2>5. Grown(m, n)
      BY <2>3, <2>4 DEF Grown, s
    <2>5a. \A k \in DOMAIN n.artists, l \in DOMAIN m.albums : n.artists[k].id # m.albums[l].id
      BY <1>1, <2>4
    <2>5b. /\ n.ids \in [next : Int, step : {1, -1}] /\ ArtistList(n.artists, n.ids, P)
           /\ \A x \in Int : Before(x, m.ids) => Before(x, n.ids)
      BY <1>1, <2>3, <2>4
    <2>6. Maps(n, R, P)
      BY <2>5, <2>5a, <2>5b, MapsGrow
    <2>7. FoundIn(n, folder)
      BY <2>3, <2>4 DEF FoundIn, s
    <2>. QED
      BY <2>5, <2>6, <2>7
  <1>4. CASE i = 0
    <2>1. \A k \in DOMAIN s : ~ArtistMatches(s[k].row, tag)
      BY <1>2, <1>4
    <2>2. n = [m EXCEPT !.artists = Append(@, e), !.ids = NextId(@), !.found = @ \cup {e.id}]
      BY <1>4 DEF FindOrCreateArtist
    <2>3. /\ DOMAIN n = MapFields /\ n.ids = NextId(m.ids) /\ n.albums = m.albums
          /\ n.songs = m.songs /\ n.genres = m.genres /\ n.found = m.found \cup {m.ids.next}
          /\ n.artists = Append(s, e)
      BY <1>1, <2>2 DEF MapFields
    <2>. HIDE DEF s, i
    <2>3a. Adds(s, n.artists, Len(s) + 1, e)
      BY <1>1, <2>3, AppendAdds
    <2>4. /\ ArtistList(n.artists, NextId(m.ids), P)
          /\ MapLinks(s) \subseteq MapLinks(n.artists)
          /\ <<folder, m.ids.next>> \in MapLinks(n.artists)
          /\ \A k \in DOMAIN n.artists :
                n.artists[k].id = m.ids.next \/ (k \in DOMAIN s /\ n.artists[k] = s[k])
      BY <1>1, <2>1, <2>3a, ArtistAdded
    <2>5. Grown(m, n)
      BY <2>3, <2>4 DEF Grown, s
    <2>6. /\ NextId(m.ids) \in [next : Int, step : {1, -1}]
          /\ ~Before(m.ids.next, m.ids)
          /\ \A x \in Int : Before(x, m.ids) => Before(x, NextId(m.ids))
      BY <1>1, IdTaken
    <2>7. \A l \in DOMAIN m.albums : m.albums[l].id # m.ids.next
      BY <1>1, <2>6 DEF AlbumList
    <2>8. \A k \in DOMAIN n.artists, l \in DOMAIN m.albums : n.artists[k].id # m.albums[l].id
      BY <1>1, <2>4, <2>7
    <2>9. Maps(n, R, P)
      BY <1>1, <2>3, <2>4, <2>5, <2>6, <2>8, MapsGrow, ZenonT(30)
    <2>10. FoundIn(n, folder)
      BY <2>3, <2>4 DEF FoundIn, s
    <2>. QED
      BY <2>5, <2>9, <2>10
  <1>. QED
    BY <1>3, <1>4

\* The computation of FindOrCreateArtists up to the n-th artist.
Finding(u, n, m, tags, folder) ==
    u = [i \in 0 .. n |-> IF i = 0 THEN [m EXCEPT !.found = {}]
                          ELSE FindOrCreateArtist(u[i - 1], tags[i], folder)]

\* There is one for each number of artists.
LEMMA FindingExists ==
    ASSUME NEW m, NEW tags, NEW folder, NEW N \in Nat
    PROVE  \E u : Finding(u, N, m, tags, folder)
  <1>. DEFINE Bad == {n \in Nat : ~\E u : Finding(u, n, m, tags, folder)}
  <1>1. SUFFICES ASSUME Bad # {} PROVE FALSE
    OBVIOUS
  <1>2. PICK n \in Bad : \A k \in Bad : n <= k
    <2>1. Bad \in SUBSET Nat
      OBVIOUS
    <2>. HIDE DEF Bad
    <2>. QED
      BY <1>1, <2>1, LeastNumber
  <1>3. n \in Nat /\ ~\E u : Finding(u, n, m, tags, folder)
    OBVIOUS
  <1>4. CASE n = 0
    <2>. DEFINE u == [i \in 0 .. 0 |-> [m EXCEPT !.found = {}]]
    <2>1. Finding(u, 0, m, tags, folder)
      BY DEF Finding
    <2>. QED
      BY <1>3, <1>4, <2>1
  <1>5. CASE n # 0
    <2>1. n - 1 \in Nat /\ n - 1 \notin Bad
      BY <1>2, <1>3, <1>5
    <2>2. PICK u : Finding(u, n - 1, m, tags, folder)
      BY <2>1
    <2>. DEFINE v == [i \in 0 .. n |-> IF i = n THEN FindOrCreateArtist(u[n - 1], tags[n], folder)
                                       ELSE u[i]]
    <2>3. \A i \in 0 .. n - 1 : u[i] = IF i = 0 THEN [m EXCEPT !.found = {}]
                                       ELSE FindOrCreateArtist(u[i - 1], tags[i], folder)
      BY <2>2 DEF Finding
    <2>4. ASSUME NEW i \in 0 .. n
          PROVE  v[i] = IF i = 0 THEN [m EXCEPT !.found = {}]
                        ELSE FindOrCreateArtist(v[i - 1], tags[i], folder)
      <3>1. CASE i = 0
        <4>1. v[i] = u[0] /\ 0 \in 0 .. n - 1
          BY <1>3, <1>5, <3>1
        <4>. QED
          BY <2>3, <3>1, <4>1
      <3>2. CASE i # 0 /\ i # n
        <4>1. i \in 0 .. n - 1 /\ i - 1 \in 0 .. n /\ i - 1 # n
          BY <1>3, <3>2
        <4>2. v[i] = u[i] /\ v[i - 1] = u[i - 1]
          BY <3>2, <4>1
        <4>. QED
          BY <2>3, <3>2, <4>1, <4>2
      <3>3. CASE i # 0 /\ i = n
        <4>1. n - 1 \in 0 .. n /\ n - 1 # n
          BY <1>3, <3>3
        <4>2. v[n - 1] = u[n - 1] /\ v[n] = FindOrCreateArtist(u[n - 1], tags[n], folder)
          BY <4>1, <3>3
        <4>. QED
          BY <3>3, <4>2
      <3>. QED
        BY <3>1, <3>2, <3>3
    <2>5. v = [i \in 0 .. n |-> v[i]]
      OBVIOUS
    <2>. HIDE DEF v
    <2>6. Finding(v, n, m, tags, folder)
      BY <2>4, <2>5 DEF Finding
    <2>. QED
      BY <1>3, <2>6
  <1>. QED
    BY <1>4, <1>5

\* The artists of a file keep the maps, and all found are in its folder.
LEMMA ArtistsFound ==
    ASSUME NEW m, NEW R, NEW P, Maps(m, R, P), NEW tags, ListOf(tags), ToSet(tags) \subseteq P,
           NEW folder, NEW n, n = FindOrCreateArtists(m, tags, folder)
    PROVE  Maps(n, R, P) /\ Grown(m, n) /\ FoundIn(n, folder)
  <1>. DEFINE N == Len(tags)
  <1>1. N \in Nat /\ DOMAIN tags = 1 .. N
    BY ListFacts
  <1>2. PICK u : Finding(u, N, m, tags, folder) /\ n = u[N]
    <2>1. \E u : Finding(u, N, m, tags, folder)
      BY <1>1, FindingExists
    <2>2. Finding(CHOOSE u : Finding(u, N, m, tags, folder), N, m, tags, folder)
      BY <2>1
    <2>3. n = (CHOOSE u : Finding(u, N, m, tags, folder))[N]
      BY DEF FindOrCreateArtists, Finding
    <2>. QED
      BY <2>2, <2>3
  <1>. DEFINE G(i) == Maps(u[i], R, P) /\ Grown(m, u[i]) /\ FoundIn(u[i], folder)
              Bad == {i \in Nat : i <= N /\ ~G(i)}
  <1>3. \A i \in 0 .. N : u[i] = IF i = 0 THEN [m EXCEPT !.found = {}]
                                 ELSE FindOrCreateArtist(u[i - 1], tags[i], folder)
    BY <1>2 DEF Finding
  <1>4. G(0)
    <2>0. 0 \in 0 .. N
      BY <1>1
    <2>1. u[0] = [m EXCEPT !.found = {}]
      BY <1>3, <2>0, Zenon
    <2>2. DOMAIN m = MapFields
      BY DEF Maps
    <2>3. /\ DOMAIN u[0] = MapFields /\ u[0].ids = m.ids /\ u[0].albums = m.albums
          /\ u[0].artists = m.artists /\ u[0].songs = m.songs /\ u[0].genres = m.genres
          /\ u[0].found = {}
      BY <2>1, <2>2 DEF MapFields
    <2>4. Grown(m, u[0]) /\ FoundIn(u[0], folder)
      BY <2>3 DEF Grown, FoundIn
    <2>5. /\ m.ids \in [next : Int, step : {1, -1}] /\ ArtistList(m.artists, m.ids, P)
          /\ \A k \in DOMAIN m.artists, l \in DOMAIN m.albums : m.artists[k].id # m.albums[l].id
      BY DEF Maps
    <2>6. Maps(u[0], R, P)
      BY <2>3, <2>4, <2>5, MapsGrow
    <2>. QED
      BY <2>4, <2>6
  <1>5. ASSUME NEW i \in 1 .. N, G(i - 1) PROVE G(i)
    <2>1. u[i] = FindOrCreateArtist(u[i - 1], tags[i], folder)
      BY <1>1, <1>3
    <2>2. tags[i] \in P
      BY <1>1 DEF ToSet
    <2>3. Maps(u[i], R, P) /\ Grown(u[i - 1], u[i]) /\ FoundIn(u[i], folder)
      BY <1>5, <2>1, <2>2, ArtistFound
    <2>4. Grown(m, u[i])
      BY <1>5, <2>3 DEF Grown
    <2>. QED
      BY <2>3, <2>4
  <1>. HIDE DEF G
  <1>6. Bad = {}
    <2>. SUFFICES ASSUME Bad # {} PROVE FALSE
      OBVIOUS
    <2>1. PICK i \in Bad : \A k \in Bad : i <= k
      <3>1. Bad \in SUBSET Nat
        OBVIOUS
      <3>. HIDE DEF Bad
      <3>. QED
        BY <3>1, LeastNumber
    <2>2. i \in Nat /\ i <= N /\ ~G(i) /\ i # 0
      BY <1>4
    <2>3. i \in 1 .. N /\ i - 1 \in Nat /\ i - 1 <= N /\ ~(i <= i - 1)
      BY <1>1, <2>2
    <2>4. G(i - 1)
      BY <2>1, <2>3
    <2>. QED
      BY <1>5, <2>2, <2>3, <2>4
  <1>7. G(N)
    BY <1>1, <1>6
  <1>. QED
    BY <1>2, <1>7 DEF G

-----------------------------------------------------------------------------
(* The album of a file, and the file.  *)

\* Before a file's song is written, its album is the only one without a song read.
Placed(m, n, R, folder) ==
    /\ DOMAIN n = MapFields
    /\ n.artists = m.artists /\ n.songs = m.songs /\ n.genres = m.genres
    /\ n.ids \in [next : Int, step : {1, -1}]
    /\ \A i \in Int : Before(i, m.ids) => Before(i, n.ids)
    /\ AlbumList(n.albums, n.ids)
    /\ \A k \in DOMAIN n.artists, l \in DOMAIN n.albums : n.artists[k].id # n.albums[l].id
    /\ \A k \in DOMAIN m.albums :
          m.albums[k].updated => k \in DOMAIN n.albums /\ n.albums[k] = m.albums[k]
    /\ \A k \in DOMAIN n.albums :
          n.albums[k].updated => \/ k \in DOMAIN m.albums /\ n.albums[k] = m.albums[k]
                                 \/ Found(n.albums[k], m.artists) /\ n.albums[k].id = n.album
    /\ n.album # None =>
          \E k \in DOMAIN n.albums : /\ n.albums[k].id = n.album /\ n.albums[k].updated
                                     /\ n.albums[k].row.folder = folder

\* An album that none in the list matches is added with the next id.
LEMMA AlbumAdded ==
    ASSUME NEW s, NEW ids \in [next : Int, step : {1, -1}], AlbumList(s, ids), NEW tag,
           NEW t, NEW n, NEW e, Adds(s, t, n, e),
           DOMAIN e = {"id", "updated", "row"}, e.id = ids.next, e.updated = TRUE, e.row = tag
    PROVE  AlbumList(t, NextId(ids))
  <1>1. /\ ListOf(t) /\ DOMAIN t = DOMAIN s \cup {n} /\ n \notin DOMAIN s /\ n \in Nat
        /\ \A k \in DOMAIN s : k < n /\ t[k] = s[k]
        /\ t[n] = e
    BY DEF Adds
  <1>2. /\ ids.next \in Int /\ ~Before(ids.next, ids) /\ Before(ids.next, NextId(ids))
        /\ \A i \in Int : Before(i, ids) => Before(i, NextId(ids))
    BY IdTaken
  <1>3. \A k \in DOMAIN s : s[k].id # ids.next /\ s[k].id \in Int /\ Before(s[k].id, ids)
    BY <1>2 DEF AlbumList
  <1>4. ASSUME NEW k \in DOMAIN t
        PROVE  /\ DOMAIN t[k] = {"id", "updated", "row"}
               /\ t[k].id \in Int /\ Before(t[k].id, NextId(ids))
               /\ t[k].updated \in BOOLEAN
               /\ ~t[k].updated => /\ t[k].id \in DOMAIN db.albums
                                   /\ t[k].row = OrNull(db.albums[t[k].id], scan.load.ids)
    <2>1. CASE k = n
      BY <1>1, <1>2, <2>1
    <2>2. CASE k \in DOMAIN s
      <3>1. /\ t[k] = s[k] /\ DOMAIN s[k] = {"id", "updated", "row"} /\ s[k].updated \in BOOLEAN
            /\ ~s[k].updated => /\ s[k].id \in DOMAIN db.albums
                                /\ s[k].row = OrNull(db.albums[s[k].id], scan.load.ids)
        BY <1>1, <2>2 DEF AlbumList
      <3>. QED
        BY <1>2, <1>3, <2>2, <3>1
    <2>. QED
      BY <1>1, <2>1, <2>2
  <1>5. ASSUME NEW k \in DOMAIN t, NEW l \in DOMAIN t, t[k].id = t[l].id
        PROVE  k = l
    BY <1>1, <1>3, <1>5 DEF AlbumList
  <1>6. DOMAIN db.albums \subseteq IdsOf(t)
    <2>1. IdsOf(s) \subseteq IdsOf(t)
      BY <1>1 DEF IdsOf
    <2>. QED
      BY <2>1 DEF AlbumList
  <1>. QED
    BY <1>1, <1>4, <1>5, <1>6 DEF AlbumList

\* An album found is written with its id.
LEMMA AlbumWritten ==
    ASSUME NEW s, NEW ids, AlbumList(s, ids), NEW i \in DOMAIN s, NEW t, NEW e, Writes(s, t, i, e),
           DOMAIN e = {"id", "updated", "row"}, e.id = s[i].id, e.updated = TRUE
    PROVE  AlbumList(t, ids) /\ DOMAIN t = DOMAIN s /\ \A k \in DOMAIN s : t[k].id = s[k].id
  <1>1. /\ ListOf(t) /\ DOMAIN t = DOMAIN s /\ t[i] = e
        /\ \A k \in DOMAIN s : k # i => t[k] = s[k]
    BY DEF Writes
  <1>2. ASSUME NEW k \in DOMAIN t
        PROVE  /\ DOMAIN t[k] = {"id", "updated", "row"} /\ t[k].id = s[k].id
               /\ t[k].id \in Int /\ Before(t[k].id, ids)
               /\ t[k].updated \in BOOLEAN
               /\ ~t[k].updated => /\ t[k].id \in DOMAIN db.albums
                                   /\ t[k].row = OrNull(db.albums[t[k].id], scan.load.ids)
    <2>1. CASE k = i
      BY <1>1, <2>1 DEF AlbumList
    <2>2. CASE k # i
      <3>1. t[k] = s[k] /\ k \in DOMAIN s
        BY <1>1, <2>2
      <3>. QED
        BY <3>1 DEF AlbumList
    <2>. QED
      BY <2>1, <2>2
  <1>3. \A k, l \in DOMAIN t : t[k].id = t[l].id => k = l
    BY <1>1, <1>2 DEF AlbumList
  <1>4. DOMAIN db.albums \subseteq IdsOf(t)
    <2>1. IdsOf(s) = IdsOf(t)
      BY <1>1, <1>2 DEF IdsOf
    <2>. QED
      BY <2>1 DEF AlbumList
  <1>. QED
    BY <1>1, <1>2, <1>3, <1>4 DEF AlbumList

\* albumMap.findOrCreate: the album is in the folder of the file.
LEMMA AlbumFound ==
    ASSUME NEW m, NEW R, NEW P, Maps(m, R, P), NEW tag, DOMAIN tag = AlbumFields,
           tag.folder \in scan.load.ids,
           \A a \in tag.artists : <<tag.folder, a>> \in MapLinks(m.artists),
           NEW c, NEW n, n = FindOrCreateAlbum(m, tag, c)
    PROVE  Placed(m, n, R, tag.folder)
  <1>. DEFINE s == m.albums
              S == {k \in DOMAIN s : AlbumMatches(s[k], tag, c)}
              i == Least(S)
              row(id) == [id |-> id, updated |-> TRUE, row |-> tag]
  <1>1. /\ DOMAIN m = MapFields /\ m.ids \in [next : Int, step : {1, -1}]
        /\ AlbumList(s, m.ids) /\ ListOf(s) /\ ArtistList(m.artists, m.ids, P)
        /\ \A k \in DOMAIN m.artists, l \in DOMAIN s : m.artists[k].id # s[l].id
    BY DEF Maps, AlbumList
  <1>2. (i # 0 => i \in S) /\ (i = 0 => S = {})
    <2>1. S \in SUBSET DOMAIN s
      OBVIOUS
    <2>. HIDE DEF S, s
    <2>. QED
      BY <1>1, <2>1, LeastFinds
  <1>3. \A id : /\ DOMAIN row(id) = {"id", "updated", "row"} /\ row(id).id = id
                /\ row(id).updated = TRUE /\ row(id).row = tag
                /\ Found(row(id), m.artists)
    BY DEF Found
  <1>4. CASE i = 0
    <2>1. n = [m EXCEPT !.albums = Append(@, row(m.ids.next)), !.ids = NextId(@),
                        !.album = m.ids.next]
      BY <1>4 DEF FindOrCreateAlbum
    <2>2. /\ DOMAIN n = MapFields /\ n.ids = NextId(m.ids) /\ n.artists = m.artists
          /\ n.songs = m.songs /\ n.genres = m.genres /\ n.album = m.ids.next
          /\ n.albums = Append(s, row(m.ids.next))
      BY <1>1, <2>1 DEF MapFields
    <2>3. PICK e : e = row(m.ids.next)
      OBVIOUS
    <2>. HIDE DEF s, i, row
    <2>4. Adds(s, n.albums, Len(s) + 1, e)
      BY <1>1, <2>2, <2>3, AppendAdds
    <2>4a. /\ DOMAIN e = {"id", "updated", "row"} /\ e.id = m.ids.next
           /\ e.updated = TRUE /\ e.row = tag
      BY <1>3, <2>3
    <2>4b. AlbumList(n.albums, NextId(m.ids))
      BY <1>1, <2>4, <2>4a, AlbumAdded
    <2>5. AlbumList(n.albums, n.ids)
      BY <2>2, <2>4b
    <2>6. /\ NextId(m.ids) \in [next : Int, step : {1, -1}]
          /\ ~Before(m.ids.next, m.ids)
          /\ \A x \in Int : Before(x, m.ids) => Before(x, NextId(m.ids))
      BY <1>1, IdTaken
    <2>7. \A k \in DOMAIN m.artists : m.artists[k].id # m.ids.next
      BY <1>1, <2>6 DEF ArtistList
    <2>8. /\ \A k \in DOMAIN s : k \in DOMAIN n.albums /\ n.albums[k] = s[k]
          /\ \A k \in DOMAIN n.albums : k \in DOMAIN s \/ n.albums[k] = e
          /\ Len(s) + 1 \in DOMAIN n.albums /\ n.albums[Len(s) + 1] = e
      BY <2>4 DEF Adds
    <2>9. e.id = n.album /\ e.updated = TRUE /\ e.row.folder = tag.folder /\ Found(e, m.artists)
      BY <1>3, <2>2, <2>3
    <2>10. \A k \in DOMAIN n.artists, l \in DOMAIN n.albums : n.artists[k].id # n.albums[l].id
      BY <1>1, <2>2, <2>7, <2>8, <2>9
    <2>11. \A k \in DOMAIN n.albums :
              n.albums[k].updated => \/ k \in DOMAIN m.albums /\ n.albums[k] = m.albums[k]
                                     \/ Found(n.albums[k], m.artists) /\ n.albums[k].id = n.album
      BY <2>8, <2>9 DEF s
    <2>12. \E k \in DOMAIN n.albums : /\ n.albums[k].id = n.album /\ n.albums[k].updated
                                      /\ n.albums[k].row.folder = tag.folder
      BY <2>8, <2>9
    <2>13. \A k \in DOMAIN m.albums :
              m.albums[k].updated => k \in DOMAIN n.albums /\ n.albums[k] = m.albums[k]
      BY <2>8 DEF s
    <2>. QED
      BY <2>2, <2>5, <2>6, <2>10, <2>11, <2>12, <2>13 DEF Placed
  <1>5. CASE i # 0
    <2>1. i \in DOMAIN s /\ AlbumMatches(s[i], tag, c)
      BY <1>2, <1>5
    <2>2. n = [m EXCEPT !.albums[i] = IF @.updated THEN @ ELSE row(@.id),
                        !.album = m.albums[i].id]
      BY <1>5 DEF FindOrCreateAlbum
    <2>3. PICK e : e = IF s[i].updated THEN s[i] ELSE row(s[i].id)
      OBVIOUS
    <2>4. /\ DOMAIN n = MapFields /\ n.ids = m.ids /\ n.artists = m.artists
          /\ n.songs = m.songs /\ n.genres = m.genres /\ n.album = s[i].id
          /\ n.albums = [s EXCEPT ![i] = e]
      BY <1>1, <2>2, <2>3 DEF MapFields
    <2>. HIDE DEF s, i, row
    <2>5. Writes(s, n.albums, i, e)
      BY <1>1, <2>1, <2>4, ExceptWrites
    <2>6. /\ DOMAIN s[i] = {"id", "updated", "row"} /\ s[i].updated \in BOOLEAN
      BY <1>1, <2>1 DEF AlbumList
    <2>7. /\ DOMAIN e = {"id", "updated", "row"} /\ e.id = s[i].id /\ e.updated = TRUE
          /\ s[i].updated => e = s[i]
          /\ ~s[i].updated => Found(e, m.artists) /\ e.row = tag
      BY <1>3, <2>3, <2>6
    <2>8. AlbumList(n.albums, n.ids) /\ DOMAIN n.albums = DOMAIN s
          /\ \A k \in DOMAIN s : n.albums[k].id = s[k].id
      BY <1>1, <2>1, <2>4, <2>5, <2>7, AlbumWritten, ZenonT(30)
    <2>9. e.row.folder = tag.folder
      BY <2>1, <2>7 DEF AlbumMatches
    <2>10. n.albums[i] = e /\ \A k \in DOMAIN s : k # i => n.albums[k] = s[k]
      BY <2>5 DEF Writes
    <2>11. \A k \in DOMAIN n.artists, l \in DOMAIN n.albums : n.artists[k].id # n.albums[l].id
      BY <1>1, <2>4, <2>8
    <2>12. ASSUME NEW k \in DOMAIN s, s[k].updated
           PROVE  n.albums[k] = s[k]
      BY <2>7, <2>10, <2>12
    <2>13. ASSUME NEW k \in DOMAIN s
           PROVE  n.albums[k] = s[k] \/ (Found(n.albums[k], m.artists) /\ n.albums[k].id = n.album)
      BY <2>4, <2>7, <2>10, <2>6
    <2>14. \E k \in DOMAIN n.albums : /\ n.albums[k].id = n.album /\ n.albums[k].updated
                                      /\ n.albums[k].row.folder = tag.folder
      BY <2>1, <2>4, <2>7, <2>8, <2>9, <2>10
    <2>. QED
      BY <1>1, <2>4, <2>8, <2>11, <2>12, <2>13, <2>14 DEF Placed, s
  <1>. QED
    BY <1>4, <1>5

\* The song of a file joins its album.
LEMMA SongWritten ==
    ASSUME NEW m, NEW R, NEW P, Maps(m, R, P), NEW n, NEW folder, Placed(m, n, R, folder),
           NEW f, f \notin R, NEW song, NEW genres, DOMAIN song = SongFields,
           song.folder = folder, folder \in scan.load.ids, song.album = n.album,
           song.genres = genres, \A a \in song.artists : <<folder, a>> \in MapLinks(m.artists),
           NEW o, DOMAIN o = MapFields, o.artists = n.artists, o.albums = n.albums,
           o.ids = n.ids, o.genres = n.genres \cup genres,
           DOMAIN o.songs = DOMAIN n.songs \cup {f}, o.songs[f] = song,
           \A g \in DOMAIN n.songs : g # f => o.songs[g] = n.songs[g]
    PROVE  Maps(o, R \cup {f}, P)
  <1>1. /\ n.artists = m.artists /\ n.songs = m.songs /\ n.genres = m.genres
        /\ o.ids \in [next : Int, step : {1, -1}]
        /\ \A i \in Int : Before(i, m.ids) => Before(i, o.ids)
        /\ AlbumList(o.albums, o.ids)
        /\ \A k \in DOMAIN o.artists, l \in DOMAIN o.albums : o.artists[k].id # o.albums[l].id
    BY DEF Placed
  <1>2. /\ ArtistList(m.artists, m.ids, P) /\ R \subseteq DOMAIN m.songs
        /\ ~scan.full => Justified(db) \subseteq MapLinks(m.artists)
        /\ db.genres \subseteq m.genres
    BY DEF Maps
  <1>3. ArtistList(o.artists, o.ids, P)
    BY <1>1, <1>2 DEF ArtistList
  <1>4. ASSUME NEW k \in DOMAIN o.albums, o.albums[k].updated
        PROVE  /\ Found(o.albums[k], o.artists)
               /\ \E g \in R \cup {f} : o.songs[g].album = o.albums[k].id
    <2>1. CASE k \in DOMAIN m.albums /\ o.albums[k] = m.albums[k]
      <3>1. PICK g \in R : m.songs[g].album = m.albums[k].id
        BY <1>4, <2>1 DEF Maps
      <3>2. o.songs[g] = m.songs[g]
        BY <1>1, <1>2
      <3>. QED
        BY <1>1, <1>4, <2>1, <3>1, <3>2 DEF Maps
    <2>2. CASE Found(o.albums[k], m.artists) /\ o.albums[k].id = n.album
      BY <1>1, <2>2
    <2>. QED
      BY <1>4, <2>1, <2>2 DEF Placed
  <1>5. ASSUME NEW g \in R PROVE ReadSong(o.songs[g], o)
    <2>1. g \in DOMAIN m.songs /\ o.songs[g] = m.songs[g] /\ ReadSong(m.songs[g], m)
      BY <1>1, <1>2 DEF Maps
    <2>2. PICK s : s = m.songs[g]
      OBVIOUS
    <2>3. ASSUME s.album # None
          PROVE  \E k \in DOMAIN o.albums : /\ o.albums[k].id = s.album /\ o.albums[k].updated
                                            /\ o.albums[k].row.folder = s.folder
      <3>1. PICK k \in DOMAIN m.albums : /\ m.albums[k].id = s.album /\ m.albums[k].updated
                                         /\ m.albums[k].row.folder = s.folder
        BY <2>1, <2>2, <2>3 DEF ReadSong
      <3>2. k \in DOMAIN o.albums /\ o.albums[k] = m.albums[k]
        BY <3>1 DEF Placed
      <3>. QED
        BY <3>1, <3>2
    <2>4. m.genres \subseteq o.genres /\ o.artists = m.artists
      BY <1>1
    <2>5. ReadSong(s, o)
      BY <2>1, <2>2, <2>3, <2>4 DEF ReadSong
    <2>. QED
      BY <2>1, <2>2, <2>5
  <1>6. ReadSong(song, o)
    <2>1. song.album # None =>
          \E k \in DOMAIN o.albums : /\ o.albums[k].id = song.album /\ o.albums[k].updated
                                     /\ o.albums[k].row.folder = song.folder
      BY DEF Placed
    <2>. QED
      BY <1>1, <2>1 DEF ReadSong
  <1>7. ASSUME NEW g \in DOMAIN o.songs
        PROVE  IF g \in R \cup {f} THEN ReadSong(o.songs[g], o)
               ELSE g \in DOMAIN db.songs /\ o.songs[g] = OrNull(db.songs[g], scan.load.ids)
    <2>1. CASE g \in R \cup {f}
      BY <1>5, <1>6, <2>1
    <2>2. CASE g \notin R \cup {f}
      <3>1. g \in DOMAIN m.songs /\ o.songs[g] = m.songs[g] /\ g \notin R
        BY <1>1, <2>2
      <3>. QED
        BY <2>2, <3>1 DEF Maps
    <2>. QED
      BY <2>1, <2>2
  <1>8. /\ R \cup {f} \subseteq DOMAIN o.songs
        /\ ~scan.full => Justified(db) \subseteq MapLinks(o.artists)
        /\ db.genres \subseteq o.genres
    BY <1>1, <1>2
  <1>. QED
    BY <1>1, <1>3, <1>4, <1>7, <1>8 DEF Maps

\* createOrUpdateSongs keeps the maps: the file joins those read.
LEMMA FileRead ==
    ASSUME NEW m, NEW R, NEW P, Maps(m, R, P), NEW f, f \notin R, disk[f] \in Tags,
           TagsOf({f}) \subseteq P, NEW folder \in scan.load.ids
    PROVE  Maps(ReadFile(m, f, folder), R \cup {f}, P)
  <1>1. PICK t \in Tags : t = disk[f]
    OBVIOUS
  <1>2. /\ ListOf(t.artists) /\ ListOf(t.albumArtists)
        /\ ToSet(t.artists) \subseteq P /\ ToSet(t.albumArtists) \subseteq P
    <2>1. ListOf(t.artists) /\ ListOf(t.albumArtists)
      BY CatalogAssumption DEF ListOf
    <2>2. TagsOf({f}) = ToSet(t.artists \o t.albumArtists)
      BY <1>1 DEF TagsOf
    <2>3. PICK a, b : a = t.artists /\ b = t.albumArtists
      OBVIOUS
    <2>4. ToSet(a) \subseteq ToSet(a \o b) /\ ToSet(b) \subseteq ToSet(a \o b)
      <3>1. PICK T : a \in Seq(T) /\ b \in Seq(T)
        <4>1. a \in Seq(ToSet(a) \cup ToSet(b)) /\ b \in Seq(ToSet(a) \cup ToSet(b))
          BY <2>1, <2>3 DEF ListOf
        <4>. QED
          BY <4>1
      <3>2. /\ a \o b \in Seq(T) /\ Len(a \o b) = Len(a) + Len(b)
            /\ \A i \in 1 .. Len(a) : (a \o b)[i] = a[i]
            /\ \A i \in 1 .. Len(b) : (a \o b)[Len(a) + i] = b[i]
            /\ Len(a) \in Nat /\ Len(b) \in Nat
            /\ DOMAIN a = 1 .. Len(a) /\ DOMAIN b = 1 .. Len(b)
            /\ DOMAIN (a \o b) = 1 .. Len(a) + Len(b)
        BY <3>1
      <3>3. ASSUME NEW i \in 1 .. Len(a) PROVE a[i] \in ToSet(a \o b)
        <4>1. i \in DOMAIN (a \o b)
          BY <3>2
        <4>. QED
          BY <3>2, <4>1 DEF ToSet
      <3>4. ASSUME NEW i \in 1 .. Len(b) PROVE b[i] \in ToSet(a \o b)
        <4>1. Len(a) + i \in DOMAIN (a \o b)
          BY <3>2
        <4>. QED
          BY <3>2, <4>1 DEF ToSet
      <3>. QED
        BY <3>2, <3>3, <3>4 DEF ToSet
    <2>. QED
      BY <2>1, <2>2, <2>3, <2>4
  <1>3. PICK m1 : m1 = FindOrCreateArtists(m, t.artists, folder)
    OBVIOUS
  <1>4. Maps(m1, R, P) /\ FoundIn(m1, folder)
    BY <1>2, <1>3, ArtistsFound
  <1>5. PICK m2 : m2 = FindOrCreateArtists(m1, t.albumArtists, folder)
    OBVIOUS
  <1>6. Maps(m2, R, P) /\ Grown(m1, m2) /\ FoundIn(m2, folder)
    BY <1>2, <1>4, <1>5, ArtistsFound
  <1>7. PICK m3 : m3 = IF t.album = None THEN [m2 EXCEPT !.album = None]
              ELSE FindOrCreateAlbum(m2, AlbumTag(t, m2.found, folder), Len(t.albumArtists))
    OBVIOUS
  <1>8. Placed(m2, m3, R, folder)
    <2>1. CASE t.album = None
      <3>1. DOMAIN m2 = MapFields
        BY <1>6 DEF Maps
      <3>2. /\ DOMAIN m3 = MapFields /\ m3.artists = m2.artists /\ m3.songs = m2.songs
            /\ m3.genres = m2.genres /\ m3.ids = m2.ids /\ m3.albums = m2.albums
            /\ m3.album = None
        BY <1>7, <2>1, <3>1 DEF MapFields
      <3>. QED
        BY <1>6, <3>2 DEF Placed, Maps
    <2>2. CASE t.album # None
      <3>1. PICK tag : tag = AlbumTag(t, m2.found, folder)
        OBVIOUS
      <3>2. DOMAIN tag = AlbumFields /\ tag.folder = folder /\ tag.artists = m2.found
        BY <3>1 DEF AlbumTag, AlbumFields
      <3>3. m3 = FindOrCreateAlbum(m2, tag, Len(t.albumArtists))
        BY <1>7, <2>2, <3>1
      <3>4. \A a \in tag.artists : <<tag.folder, a>> \in MapLinks(m2.artists)
        BY <1>6, <3>2 DEF FoundIn
      <3>. QED
        BY <1>6, <3>2, <3>3, <3>4, AlbumFound
    <2>. QED
      BY <2>1, <2>2
  <1>9. PICK song : song = [folder |-> folder, album |-> m3.album, artists |-> m1.found,
                            genres |-> t.genres]
    OBVIOUS
  <1>10. /\ DOMAIN song = SongFields /\ song.folder = folder /\ song.album = m3.album
         /\ song.artists = m1.found /\ song.genres = t.genres
    BY <1>9 DEF SongFields
  <1>11. PICK o : o = [m3 EXCEPT
                !.songs = [g \in DOMAIN @ \cup {f} |-> IF g = f THEN song ELSE @[g]],
                !.genres = @ \cup t.genres]
    OBVIOUS
  <1>12. ReadFile(m, f, folder) = o
    BY <1>1, <1>3, <1>5, <1>7, <1>9, <1>11, ZenonT(30) DEF ReadFile
  <1>13. DOMAIN m3 = MapFields
    BY <1>8 DEF Placed
  <1>14. /\ DOMAIN o = MapFields /\ o.artists = m3.artists /\ o.albums = m3.albums
         /\ o.ids = m3.ids /\ o.genres = m3.genres \cup t.genres
         /\ o.songs = [g \in DOMAIN m3.songs \cup {f} |-> IF g = f THEN song ELSE m3.songs[g]]
    BY <1>11, <1>13 DEF MapFields
  <1>15. /\ DOMAIN o.songs = DOMAIN m3.songs \cup {f} /\ o.songs[f] = song
         /\ \A g \in DOMAIN m3.songs : g # f => o.songs[g] = m3.songs[g]
    BY <1>14
  <1>16. \A a \in song.artists : <<folder, a>> \in MapLinks(m2.artists)
    BY <1>4, <1>6, <1>10 DEF FoundIn, Grown
  <1>17. Maps(o, R \cup {f}, P)
    <2>1. /\ DOMAIN o = MapFields /\ o.artists = m3.artists /\ o.albums = m3.albums
          /\ o.ids = m3.ids /\ o.genres = m3.genres \cup t.genres
      BY <1>14
    <2>. QED
      BY <1>6, <1>8, <1>10, <1>15, <1>16, <2>1, SongWritten
  <1>. QED
    BY <1>12, <1>17

\* The computation of ReadFiles up to the n-th file.
Reading(u, n, m, order, c) ==
    u = [i \in 0 .. n |-> IF i = 0 THEN m
                          ELSE ReadFile(u[i - 1], order[i], FolderOf(order[i], c))]

\* There is one for each number of files.
LEMMA ReadingExists ==
    ASSUME NEW m, NEW order, NEW c, NEW N \in Nat
    PROVE  \E u : Reading(u, N, m, order, c)
  <1>. DEFINE Bad == {n \in Nat : ~\E u : Reading(u, n, m, order, c)}
  <1>1. SUFFICES ASSUME Bad # {} PROVE FALSE
    OBVIOUS
  <1>2. PICK n \in Bad : \A k \in Bad : n <= k
    <2>1. Bad \in SUBSET Nat
      OBVIOUS
    <2>. HIDE DEF Bad
    <2>. QED
      BY <1>1, <2>1, LeastNumber
  <1>3. n \in Nat /\ ~\E u : Reading(u, n, m, order, c)
    OBVIOUS
  <1>4. CASE n = 0
    <2>. DEFINE u == [i \in 0 .. 0 |-> m]
    <2>1. Reading(u, 0, m, order, c)
      BY DEF Reading
    <2>. QED
      BY <1>3, <1>4, <2>1
  <1>5. CASE n # 0
    <2>1. n - 1 \in Nat /\ n - 1 \notin Bad
      BY <1>2, <1>3, <1>5
    <2>2. PICK u : Reading(u, n - 1, m, order, c)
      BY <2>1
    <2>. DEFINE v == [i \in 0 .. n |-> IF i = n
                        THEN ReadFile(u[n - 1], order[n], FolderOf(order[n], c)) ELSE u[i]]
    <2>3. \A i \in 0 .. n - 1 : u[i] = IF i = 0 THEN m
                                 ELSE ReadFile(u[i - 1], order[i], FolderOf(order[i], c))
      BY <2>2 DEF Reading
    <2>4. ASSUME NEW i \in 0 .. n
          PROVE  v[i] = IF i = 0 THEN m
                        ELSE ReadFile(v[i - 1], order[i], FolderOf(order[i], c))
      <3>1. CASE i = 0
        <4>1. v[i] = u[0] /\ 0 \in 0 .. n - 1
          BY <1>3, <1>5, <3>1
        <4>. QED
          BY <2>3, <3>1, <4>1
      <3>2. CASE i # 0 /\ i # n
        <4>1. i \in 0 .. n - 1 /\ i - 1 \in 0 .. n /\ i - 1 # n
          BY <1>3, <3>2
        <4>2. v[i] = u[i] /\ v[i - 1] = u[i - 1]
          BY <3>2, <4>1
        <4>. QED
          BY <2>3, <3>2, <4>1, <4>2
      <3>3. CASE i # 0 /\ i = n
        <4>1. n - 1 \in 0 .. n /\ n - 1 # n
          BY <1>3, <3>3
        <4>2. v[n - 1] = u[n - 1] /\ v[n] = ReadFile(u[n - 1], order[n], FolderOf(order[n], c))
          BY <4>1, <3>3
        <4>. QED
          BY <3>3, <4>2
      <3>. QED
        BY <3>1, <3>2, <3>3
    <2>5. v = [i \in 0 .. n |-> v[i]]
      OBVIOUS
    <2>. HIDE DEF v
    <2>6. Reading(v, n, m, order, c)
      BY <2>4, <2>5 DEF Reading
    <2>. QED
      BY <1>3, <2>6
  <1>. QED
    BY <1>4, <1>5

\* A file to be read has tags and is in a folder of the configuration.
LEMMA FileToRead ==
    ASSUME Consistent, scan.pc = "run", NEW f \in ToRead
    PROVE  /\ f \in Files /\ disk[f] \in Tags
           /\ FolderOf(f, scan.load.config) \in scan.load.ids
  <1>1. f \in Files /\ disk[f] # None /\ Configured(f, scan.load.config)
    BY DEF ToRead
  <1>2. disk[f] \in Tags
    BY <1>1 DEF Consistent, Tagged
  <1>3. FolderOf(f, scan.load.config) \in DOMAIN scan.load.config
    BY <1>1 DEF Configured, FolderOf
  <1>. QED
    BY <1>1, <1>2, <1>3 DEF Consistent, Loaded

\* The maps after all files were read, in whatever order.
LEMMA FilesRead ==
    ASSUME Consistent, scan.pc = "run", NEW ids \in NewIds, NEW order \in SetToSeqs(ToRead)
    PROVE  Maps(ReadFiles(NewMaps(ids), order, scan.load.config), ToRead, TagsOf(ToRead))
  <1>. DEFINE N == Len(order)
              c == scan.load.config
              m == NewMaps(ids)
              P == TagsOf(ToRead)
              R(i) == {order[k] : k \in 1 .. i}
  <1>1. /\ ListOf(order) /\ ToSet(order) = ToRead
        /\ \A i, j \in DOMAIN order : order[i] = order[j] => i = j
    <2>1. IsFiniteSet(ToRead)
      BY CatalogAssumption, FS_Subset DEF ToRead
    <2>. QED
      BY <2>1, OrderOf
  <1>2. N \in Nat /\ DOMAIN order = 1 .. N
    BY <1>1, ListFacts
  <1>3. PICK u : Reading(u, N, m, order, c) /\ ReadFiles(m, order, c) = u[N]
    <2>1. \E u : Reading(u, N, m, order, c)
      BY <1>2, ReadingExists
    <2>2. Reading(CHOOSE u : Reading(u, N, m, order, c), N, m, order, c)
      BY <2>1
    <2>3. ReadFiles(m, order, c) = (CHOOSE u : Reading(u, N, m, order, c))[N]
      BY DEF ReadFiles, Reading
    <2>. QED
      BY <2>2, <2>3
  <1>4. \A i \in 0 .. N : u[i] = IF i = 0 THEN m
                                 ELSE ReadFile(u[i - 1], order[i], FolderOf(order[i], c))
    BY <1>3 DEF Reading
  <1>. DEFINE G(i) == Maps(u[i], R(i), P)
              Bad == {i \in Nat : i <= N /\ ~G(i)}
  <1>5. G(0)
    <2>1. 0 \in 0 .. N /\ 1 .. 0 = {}
      BY <1>2
    <2>2. u[0] = m
      BY <1>4, <2>1, Zenon
    <2>3. R(0) = {}
      BY <2>1
    <2>4. Maps(m, {}, P)
      BY MapsBegin
    <2>. QED
      BY <2>2, <2>3, <2>4
  <1>6. ASSUME NEW i \in 1 .. N, G(i - 1) PROVE G(i)
    <2>1. i \in 0 .. N /\ i # 0 /\ i \in DOMAIN order
      BY <1>2
    <2>2. u[i] = ReadFile(u[i - 1], order[i], FolderOf(order[i], c))
      BY <1>4, <2>1
    <2>3. PICK f \in ToRead : f = order[i]
      BY <1>1, <2>1 DEF ToSet
    <2>4. f \notin R(i - 1)
      <3>1. \A k \in 1 .. i - 1 : k \in DOMAIN order /\ k # i
        BY <1>2, <2>1
      <3>. QED
        BY <1>1, <2>1, <2>3, <3>1
    <2>5. R(i) = R(i - 1) \cup {f}
      <3>1. 1 .. i = 1 .. i - 1 \cup {i}
        BY <1>2, <2>1
      <3>. QED
        BY <2>3, <3>1
    <2>6. TagsOf({f}) \subseteq P
      BY DEF TagsOf
    <2>7. disk[f] \in Tags /\ FolderOf(f, c) \in scan.load.ids
      BY FileToRead
    <2>. HIDE DEF R, P, c
    <2>8. Maps(ReadFile(u[i - 1], f, FolderOf(f, c)), R(i - 1) \cup {f}, P)
      BY <1>6, <2>4, <2>6, <2>7, FileRead
    <2>. QED
      BY <2>2, <2>3, <2>5, <2>8
  <1>. HIDE DEF G
  <1>7. Bad = {}
    <2>. SUFFICES ASSUME Bad # {} PROVE FALSE
      OBVIOUS
    <2>1. PICK i \in Bad : \A k \in Bad : i <= k
      <3>1. Bad \in SUBSET Nat
        OBVIOUS
      <3>. HIDE DEF Bad
      <3>. QED
        BY <3>1, LeastNumber
    <2>2. i \in Nat /\ i <= N /\ ~G(i) /\ i # 0
      BY <1>5
    <2>3. i \in 1 .. N /\ i - 1 \in Nat /\ i - 1 <= N /\ ~(i <= i - 1)
      BY <1>2, <2>2
    <2>4. G(i - 1)
      BY <2>1, <2>3
    <2>. QED
      BY <1>6, <2>2, <2>3, <2>4
  <1>8. G(N)
    BY <1>2, <1>7
  <1>9. R(N) = ToRead
    BY <1>1, <1>2 DEF ToSet
  <1>. QED
    BY <1>3, <1>8, <1>9 DEF G

-----------------------------------------------------------------------------
(* The tables when the files of R have been read.  *)

\* The rows refer to rows there are, in the folders of the configuration or in none.
Complete(t, ids) ==
    /\ \A f \in DOMAIN t.songs :
          /\ DOMAIN t.songs[f] = SongFields
          /\ t.songs[f].folder \in ids \cup {None}
          /\ t.songs[f].album = None \/ t.songs[f].album \in DOMAIN t.albums
          /\ t.songs[f].artists \subseteq DOMAIN t.artists
          /\ t.songs[f].genres \subseteq t.genres
    /\ \A i \in DOMAIN t.albums :
          /\ DOMAIN t.albums[i] = AlbumFields
          /\ t.albums[i].folder \in ids \cup {None}
          /\ t.albums[i].artists \subseteq DOMAIN t.artists

\* The artists of a row are linked to its folder.
Links(t, row) == \A a \in row.artists : <<row.folder, a>> \in t.links

\* A file read is in its album's folder, and both are linked to their artists.
Filed(t, f) ==
    LET s == t.songs[f]
    IN  /\ f \in DOMAIN t.songs
        /\ s.folder \in scan.load.ids
        /\ Links(t, s)
        /\ s.album # None => /\ t.albums[s.album].folder = s.folder
                             /\ Links(t, t.albums[s.album])

\* What a scan that is not full has not read is linked as it was.
StillLinked(t) ==
    /\ \A f \in DOMAIN t.songs : t.songs[f].folder # None => Links(t, t.songs[f])
    /\ \A i \in DOMAIN t.albums : t.albums[i].folder # None => Links(t, t.albums[i])

\* An album is as it was, unless a song read is in it.
OldAlbums(t, R) ==
    \A i \in DOMAIN t.albums :
        \/ \E f \in R : t.songs[f].album = i
        \/ i \in DOMAIN db.albums /\ t.albums[i] = OrNull(db.albums[i], scan.load.ids)

\* An artist is as before, or new by a name not used for the same MusicBrainz id.
NewArtists(t, R) ==
    /\ \A a \in DOMAIN db.artists : t.artists[a] = db.artists[a]
    /\ \A a \in DOMAIN t.artists \ DOMAIN db.artists : t.artists[a] \in TagsOf(R)
    /\ \A a, b \in DOMAIN t.artists \ DOMAIN db.artists :
          a # b /\ t.artists[a].mbid = t.artists[b].mbid => t.artists[a].name # t.artists[b].name

ReadTables(t, R) ==
    /\ DOMAIN t = TableFields /\ t.stars = db.stars
    /\ Numbered(t)
    /\ DOMAIN db.albums \subseteq DOMAIN t.albums
    /\ DOMAIN db.artists \subseteq DOMAIN t.artists
    /\ Complete(t, scan.load.ids)
    /\ \A f \in R : Filed(t, f)
    /\ ~scan.full => StillLinked(t)
    /\ OldAlbums(t, R)
    /\ NewArtists(t, R)

\* The songs and the albums alone justify links.
LEMMA SameJustified ==
    ASSUME NEW t, NEW r, t.songs = r.songs, t.albums = r.albums
    PROVE  Justified(t) = Justified(r)
  BY DEF Justified

\* The fields of the tables that are written.
LEMMA TablesFields ==
    ASSUME NEW m, NEW so, NEW ge, NEW st, NEW ar, NEW al, NEW t,
           t = UpdateMusicFolderAssociations(
                   [songs |-> so, genres |-> ge, links |-> {}, stars |-> st,
                    artists |-> ar, albums |-> al], m)
    PROVE  /\ DOMAIN t = TableFields
           /\ t.songs = so /\ t.genres = ge /\ t.stars = st /\ t.artists = ar /\ t.albums = al
           /\ t.links = Justified(t) \cap MapLinks(m.artists)
  <1>. DEFINE r == [songs |-> so, genres |-> ge, links |-> {}, stars |-> st,
                    artists |-> ar, albums |-> al]
              J == Justified(r) \cap MapLinks(m.artists)
  <1>1. t = [r EXCEPT !.links = J]
    BY DEF UpdateMusicFolderAssociations, MapLinks
  <1>. HIDE DEF J
  <1>2. /\ DOMAIN t = TableFields
        /\ t.songs = so /\ t.genres = ge /\ t.stars = st /\ t.artists = ar /\ t.albums = al
        /\ t.links = J
    BY <1>1 DEF TableFields
  <1>3. t.songs = r.songs /\ t.albums = r.albums
    BY <1>2
  <1>. HIDE DEF r
  <1>4. Justified(t) = Justified(r)
    BY <1>3, SameJustified
  <1>. QED
    BY <1>2, <1>4 DEF J

\* A row that lost its folder has its other values.
LEMMA OrNullRow ==
    ASSUME NEW row, NEW ids, "folder" \in DOMAIN row
    PROVE  /\ DOMAIN OrNull(row, ids) = DOMAIN row
           /\ OrNull(row, ids).folder = IF row.folder \in ids THEN row.folder ELSE None
           /\ \A x \in DOMAIN row : x # "folder" => OrNull(row, ids)[x] = row[x]
  BY DEF OrNull

\* An album or song of the table is complete after a change of the configuration.
LEMMA OldRows ==
    ASSUME Closed(db, folders.ids), NEW ids
    PROVE  /\ \A f \in DOMAIN db.songs :
                 LET s == OrNull(db.songs[f], ids)
                 IN  /\ DOMAIN s = SongFields /\ s.folder \in ids \cup {None}
                     /\ s.folder # None => s.folder = db.songs[f].folder
                     /\ s.album = db.songs[f].album /\ s.artists = db.songs[f].artists
                     /\ s.genres = db.songs[f].genres
           /\ \A i \in DOMAIN db.albums :
                 LET s == OrNull(db.albums[i], ids)
                 IN  /\ DOMAIN s = AlbumFields /\ s.folder \in ids \cup {None}
                     /\ s.folder # None => s.folder = db.albums[i].folder
                     /\ s.artists = db.albums[i].artists /\ s.mbid = db.albums[i].mbid
  <1>1. ASSUME NEW f \in DOMAIN db.songs
        PROVE  LET s == OrNull(db.songs[f], ids)
                 IN  /\ DOMAIN s = SongFields /\ s.folder \in ids \cup {None}
                     /\ s.folder # None => s.folder = db.songs[f].folder
                     /\ s.album = db.songs[f].album /\ s.artists = db.songs[f].artists
                     /\ s.genres = db.songs[f].genres
    <2>1. PICK r : r = db.songs[f]
      OBVIOUS
    <2>2. DOMAIN r = SongFields
      BY <2>1 DEF Closed
    <2>3. PICK s : s = OrNull(r, ids)
      OBVIOUS
    <2>4. /\ DOMAIN s = SongFields
          /\ s.folder = IF r.folder \in ids THEN r.folder ELSE None
          /\ s.album = r.album /\ s.artists = r.artists /\ s.genres = r.genres
      BY <2>2, <2>3, OrNullRow DEF SongFields
    <2>. QED
      BY <2>1, <2>3, <2>4
  <1>2. ASSUME NEW i \in DOMAIN db.albums
        PROVE  LET s == OrNull(db.albums[i], ids)
                 IN  /\ DOMAIN s = AlbumFields /\ s.folder \in ids \cup {None}
                     /\ s.folder # None => s.folder = db.albums[i].folder
                     /\ s.artists = db.albums[i].artists /\ s.mbid = db.albums[i].mbid
    <2>1. PICK r : r = db.albums[i]
      OBVIOUS
    <2>2. DOMAIN r = AlbumFields
      BY <2>1 DEF Closed
    <2>3. PICK s : s = OrNull(r, ids)
      OBVIOUS
    <2>4. /\ DOMAIN s = AlbumFields
          /\ s.folder = IF r.folder \in ids THEN r.folder ELSE None
          /\ s.artists = r.artists /\ s.mbid = r.mbid
      BY <2>2, <2>3, OrNullRow DEF AlbumFields
    <2>. QED
      BY <2>1, <2>3, <2>4
  <1>. QED
    BY <1>1, <1>2

\* Writing the maps gives such tables.
LEMMA TablesRead ==
    ASSUME Consistent, scan.pc = "run", NEW ids \in NewIds, NEW order \in SetToSeqs(ToRead),
           NEW t, t = Tables(order, ids)
    PROVE  ReadTables(t, ToRead)
  <1>. DEFINE R == ToRead
              P == TagsOf(R)
              load == scan.load
  <1>1. PICK m : m = ReadFiles(NewMaps(ids), order, scan.load.config)
    OBVIOUS
  <1>2. Maps(m, R, P)
    BY <1>1, FilesRead
  <1>3. t = UpdateMusicFolderAssociations(
               [songs |-> m.songs, genres |-> m.genres, links |-> {}, stars |-> db.stars,
                artists |-> Rows(m.artists), albums |-> Rows(m.albums)], m)
    BY <1>1 DEF Tables
  <1>4. /\ DOMAIN t = TableFields
        /\ t.songs = m.songs /\ t.genres = m.genres /\ t.stars = db.stars
        /\ t.artists = Rows(m.artists) /\ t.albums = Rows(m.albums)
        /\ t.links = Justified(t) \cap MapLinks(m.artists)
    BY <1>3, TablesFields
  <1>. HIDE DEF R, P
  <1>5. /\ ArtistList(m.artists, m.ids, P) /\ AlbumList(m.albums, m.ids)
        /\ Closed(db, folders.ids)
    BY <1>2 DEF Maps, Consistent
  <1>6. /\ DOMAIN t.artists = IdsOf(m.artists)
        /\ IsFiniteSet(IdsOf(m.artists))
        /\ \A k \in DOMAIN m.artists :
              m.artists[k].id \in IdsOf(m.artists) /\ t.artists[m.artists[k].id] = m.artists[k].row
        /\ \A i \in IdsOf(m.artists) : \E k \in DOMAIN m.artists : m.artists[k].id = i
    BY <1>4, <1>5, RowsOf DEF ArtistList
  <1>7. /\ DOMAIN t.albums = IdsOf(m.albums)
        /\ IsFiniteSet(IdsOf(m.albums))
        /\ \A k \in DOMAIN m.albums :
              m.albums[k].id \in IdsOf(m.albums) /\ t.albums[m.albums[k].id] = m.albums[k].row
        /\ \A i \in IdsOf(m.albums) : \E k \in DOMAIN m.albums : m.albums[k].id = i
    BY <1>4, <1>5, RowsOf DEF AlbumList
  <1>8. Numbered(t)
    <2>1. IdsOf(m.artists) \subseteq Int
      BY <1>5 DEF ArtistList, IdsOf
    <2>2. IdsOf(m.albums) \subseteq Int
      BY <1>5 DEF AlbumList, IdsOf
    <2>3. IdsOf(m.albums) \cap IdsOf(m.artists) = {}
      BY <1>2 DEF Maps, IdsOf
    <2>. QED
      BY <1>6, <1>7, <2>1, <2>2, <2>3 DEF Numbered
  <1>9. DOMAIN db.albums \subseteq DOMAIN t.albums /\ DOMAIN db.artists \subseteq DOMAIN t.artists
    BY <1>5, <1>6, <1>7 DEF ArtistList, AlbumList
  <1>10. ASSUME NEW i, NEW a, <<i, a>> \in MapLinks(m.artists)
         PROVE  a \in DOMAIN t.artists
    <2>1. PICK k \in DOMAIN m.artists : m.artists[k].id = a
      BY <1>10, LinkIn
    <2>. QED
      BY <1>6, <2>1
  <1>11. /\ \A f \in DOMAIN t.songs : \A a \in t.songs[f].artists :
               <<t.songs[f].folder, a>> \in Justified(t)
         /\ \A i \in DOMAIN t.albums : \A a \in t.albums[i].artists :
               <<t.albums[i].folder, a>> \in Justified(t)
    BY DEF Justified
  <1>12. ASSUME NEW k \in DOMAIN m.albums
         PROVE  /\ DOMAIN m.albums[k].row = AlbumFields
                /\ m.albums[k].row.folder \in load.ids \cup {None}
                /\ m.albums[k].row.artists \subseteq DOMAIN t.artists
    <2>1. CASE m.albums[k].updated
      <3>1. Found(m.albums[k], m.artists)
        BY <1>2, <2>1 DEF Maps
      <3>. QED
        BY <1>10, <3>1 DEF Found
    <2>2. CASE ~m.albums[k].updated
      <3>1. PICK i \in DOMAIN db.albums : m.albums[k].row = OrNull(db.albums[i], load.ids)
        BY <1>5, <2>2 DEF AlbumList
      <3>2. db.albums[i].artists \subseteq DOMAIN t.artists
        BY <1>5, <1>9 DEF Closed
      <3>3. PICK r : r = OrNull(db.albums[i], load.ids)
        OBVIOUS
      <3>4. /\ DOMAIN r = AlbumFields /\ r.folder \in load.ids \cup {None}
            /\ r.artists = db.albums[i].artists
        BY <1>5, <3>3, OldRows
      <3>. QED
        BY <3>1, <3>2, <3>3, <3>4
    <2>. QED
      BY <2>1, <2>2
  <1>13. ASSUME NEW f \in DOMAIN t.songs
         PROVE  /\ DOMAIN t.songs[f] = SongFields
                /\ t.songs[f].folder \in load.ids \cup {None}
                /\ t.songs[f].album = None \/ t.songs[f].album \in DOMAIN t.albums
                /\ t.songs[f].artists \subseteq DOMAIN t.artists
                /\ t.songs[f].genres \subseteq t.genres
    <2>1. PICK s : s = t.songs[f]
      OBVIOUS
    <2>2. CASE f \in R
      <3>1. ReadSong(s, m)
        BY <1>2, <1>4, <2>1, <2>2 DEF Maps
      <3>2. s.album = None \/ s.album \in DOMAIN t.albums
        BY <1>7, <3>1 DEF ReadSong
      <3>. QED
        BY <1>4, <1>10, <2>1, <3>1, <3>2 DEF ReadSong
    <2>3. CASE f \notin R
      <3>1. f \in DOMAIN db.songs /\ s = OrNull(db.songs[f], load.ids)
        BY <1>2, <1>4, <2>1, <2>3 DEF Maps
      <3>2. /\ db.songs[f].album = None \/ db.songs[f].album \in DOMAIN t.albums
            /\ db.songs[f].artists \subseteq DOMAIN t.artists
            /\ db.songs[f].genres \subseteq db.genres
        BY <1>5, <1>9, <3>1 DEF Closed
      <3>3. db.genres \subseteq t.genres
        BY <1>2, <1>4 DEF Maps
      <3>4. /\ DOMAIN s = SongFields /\ s.folder \in load.ids \cup {None}
            /\ s.album = db.songs[f].album /\ s.artists = db.songs[f].artists
            /\ s.genres = db.songs[f].genres
        BY <1>5, <3>1, OldRows
      <3>. QED
        BY <2>1, <3>2, <3>3, <3>4
    <2>. QED
      BY <2>2, <2>3
  <1>14. Complete(t, load.ids)
    <2>1. ASSUME NEW i \in DOMAIN t.albums
          PROVE  /\ DOMAIN t.albums[i] = AlbumFields
                 /\ t.albums[i].folder \in load.ids \cup {None}
                 /\ t.albums[i].artists \subseteq DOMAIN t.artists
      BY <1>7, <1>12
    <2>. QED
      BY <1>13, <2>1 DEF Complete
  <1>15. ASSUME NEW f \in R PROVE Filed(t, f)
    <2>1. f \in DOMAIN t.songs /\ ReadSong(t.songs[f], m)
      BY <1>2, <1>4 DEF Maps
    <2>2. PICK s : s = t.songs[f]
      OBVIOUS
    <2>3. s.folder \in load.ids /\ Links(t, s)
      BY <1>4, <1>11, <2>1, <2>2 DEF ReadSong, Links
    <2>4. ASSUME s.album # None
          PROVE  t.albums[s.album].folder = s.folder /\ Links(t, t.albums[s.album])
      <3>1. PICK k \in DOMAIN m.albums : /\ m.albums[k].id = s.album /\ m.albums[k].updated
                                         /\ m.albums[k].row.folder = s.folder
        BY <2>1, <2>2, <2>4 DEF ReadSong
      <3>2. s.album \in DOMAIN t.albums /\ t.albums[s.album] = m.albums[k].row
        BY <1>7, <3>1
      <3>3. Found(m.albums[k], m.artists)
        BY <1>2, <3>1 DEF Maps
      <3>4. Links(t, t.albums[s.album])
        BY <1>4, <1>11, <3>2, <3>3 DEF Links, Found
      <3>. QED
        BY <3>1, <3>2, <3>4
    <2>. QED
      BY <2>1, <2>2, <2>3, <2>4 DEF Filed
  <1>16. ASSUME ~scan.full PROVE StillLinked(t)
    <2>1. Justified(db) \subseteq MapLinks(m.artists)
      BY <1>2, <1>16 DEF Maps
    <2>2. ASSUME NEW f \in DOMAIN t.songs, t.songs[f].folder # None
          PROVE  Links(t, t.songs[f])
      <3>1. CASE f \in R
        BY <1>15, <3>1 DEF Filed
      <3>2. CASE f \notin R
        <4>1. f \in DOMAIN db.songs /\ t.songs[f] = OrNull(db.songs[f], load.ids)
          BY <1>2, <1>4, <3>2 DEF Maps
        <4>2a. PICK r : r = OrNull(db.songs[f], load.ids)
          OBVIOUS
        <4>2b. /\ r.folder # None => r.folder = db.songs[f].folder
               /\ r.artists = db.songs[f].artists
          BY <1>5, <4>1, <4>2a, OldRows
        <4>2. t.songs[f].folder = db.songs[f].folder /\ t.songs[f].artists = db.songs[f].artists
          BY <2>2, <4>1, <4>2a, <4>2b
        <4>3. \A a \in db.songs[f].artists : <<db.songs[f].folder, a>> \in Justified(db)
          BY <4>1 DEF Justified
        <4>. QED
          BY <1>4, <1>11, <2>1, <4>2, <4>3 DEF Links
      <3>. QED
        BY <3>1, <3>2
    <2>3. ASSUME NEW i \in DOMAIN t.albums, t.albums[i].folder # None
          PROVE  Links(t, t.albums[i])
      <3>1. PICK k \in DOMAIN m.albums : m.albums[k].id = i /\ t.albums[i] = m.albums[k].row
        BY <1>7
      <3>2. CASE m.albums[k].updated
        <4>1. Found(m.albums[k], m.artists)
          BY <1>2, <3>2 DEF Maps
        <4>. QED
          BY <1>4, <1>11, <3>1, <4>1 DEF Links, Found
      <3>3. CASE ~m.albums[k].updated
        <4>1. i \in DOMAIN db.albums /\ t.albums[i] = OrNull(db.albums[i], load.ids)
          BY <1>5, <3>1, <3>3 DEF AlbumList
        <4>2a. PICK r : r = OrNull(db.albums[i], load.ids)
          OBVIOUS
        <4>2b. /\ r.folder # None => r.folder = db.albums[i].folder
               /\ r.artists = db.albums[i].artists
          BY <1>5, <4>1, <4>2a, OldRows
        <4>2. /\ t.albums[i].folder = db.albums[i].folder
              /\ t.albums[i].artists = db.albums[i].artists
          BY <2>3, <4>1, <4>2a, <4>2b
        <4>3. \A a \in db.albums[i].artists : <<db.albums[i].folder, a>> \in Justified(db)
          BY <4>1 DEF Justified
        <4>. QED
          BY <1>4, <1>11, <2>1, <4>2, <4>3 DEF Links
      <3>. QED
        BY <3>2, <3>3
    <2>. QED
      BY <2>2, <2>3 DEF StillLinked
  <1>17. OldAlbums(t, R)
    <2>. SUFFICES ASSUME NEW i \in DOMAIN t.albums
                  PROVE  \/ \E f \in R : t.songs[f].album = i
                         \/ /\ i \in DOMAIN db.albums
                            /\ t.albums[i] = OrNull(db.albums[i], load.ids)
      BY DEF OldAlbums
    <2>1. PICK k \in DOMAIN m.albums : m.albums[k].id = i /\ t.albums[i] = m.albums[k].row
      BY <1>7
    <2>2. CASE m.albums[k].updated
      BY <1>2, <1>4, <2>1, <2>2 DEF Maps
    <2>3. CASE ~m.albums[k].updated
      BY <1>5, <2>1, <2>3 DEF AlbumList
    <2>. QED
      BY <2>2, <2>3
  <1>18. NewArtists(t, R)
    <2>1. ASSUME NEW a \in DOMAIN t.artists
          PROVE  \E k \in DOMAIN m.artists : m.artists[k].id = a /\ t.artists[a] = m.artists[k].row
      BY <1>6
    <2>2. \A a \in DOMAIN db.artists : t.artists[a] = db.artists[a]
      BY <1>5, <1>9, <2>1 DEF ArtistList
    <2>3. \A a \in DOMAIN t.artists \ DOMAIN db.artists : t.artists[a] \in P
      BY <1>5, <2>1 DEF ArtistList
    <2>4. ASSUME NEW a \in DOMAIN t.artists \ DOMAIN db.artists,
                 NEW b \in DOMAIN t.artists \ DOMAIN db.artists,
                 a # b, t.artists[a].mbid = t.artists[b].mbid,
                 t.artists[a].name = t.artists[b].name
          PROVE  FALSE
      <3>1. PICK k \in DOMAIN m.artists : m.artists[k].id = a /\ t.artists[a] = m.artists[k].row
        BY <2>1
      <3>2. PICK l \in DOMAIN m.artists : m.artists[l].id = b /\ t.artists[b] = m.artists[l].row
        BY <2>1
      <3>3. /\ ArtistMatches(m.artists[k].row, m.artists[l].row)
            /\ ArtistMatches(m.artists[l].row, m.artists[k].row)
        BY <2>4, <3>1, <3>2 DEF ArtistMatches
      <3>4. k \in Nat /\ l \in Nat
        BY <1>5, ListFacts DEF ArtistList
      <3>5. k < l \/ l < k
        BY <2>4, <3>1, <3>2, <3>4
      <3>. QED
        BY <1>5, <3>1, <3>2, <3>3, <3>5 DEF ArtistList
    <2>. QED
      BY <2>2, <2>3, <2>4 DEF NewArtists, P
  <1>19. ReadTables(t, R)
    BY <1>4, <1>8, <1>9, <1>14, <1>15, <1>16, <1>17, <1>18 DEF ReadTables
  <1>. QED
    BY <1>19 DEF R

-----------------------------------------------------------------------------
(* The end of a scan.  *)

\* Where the annotations go.
Moved(stars, to) ==
    {<<s[1], IF s[2] \in DOMAIN to /\ s \notin missed THEN to[s[2]] ELSE s[2]>> : s \in stars}

\* What deleteOrphaned leaves.
LEMMA OrphansDeleted ==
    ASSUME NEW t, DOMAIN t = TableFields, NEW full, NEW R, NEW n,
           n = DeleteOrphanedSongs(t, full, R)
    PROVE  /\ DOMAIN n = TableFields /\ n.artists = t.artists /\ n.links = t.links
           /\ DOMAIN n.songs = {f \in DOMAIN t.songs :
                                   /\ t.songs[f].folder # None
                                   /\ IF full THEN f \in R ELSE disk[f] # None}
           /\ \A f \in DOMAIN n.songs : n.songs[f] = t.songs[f]
           /\ DOMAIN n.albums = {i \in DOMAIN t.albums : t.albums[i].folder # None}
           /\ \A i \in DOMAIN n.albums : n.albums[i] = t.albums[i]
           /\ n.stars = {s \in t.stars : s[2] \in DOMAIN t.albums => t.albums[s[2]].folder # None}
           /\ \A f \in DOMAIN n.songs : t.genres \cap n.songs[f].genres \subseteq n.genres
  <1>. DEFINE S == {f \in DOMAIN t.songs :
                      /\ t.songs[f].folder # None
                      /\ IF full THEN f \in R ELSE disk[f] # None}
              A == {i \in DOMAIN t.albums : t.albums[i].folder # None}
              so == Restrict(t.songs, S)
              al == Restrict(t.albums, A)
              st == {s \in t.stars : s[2] \in DOMAIN t.albums => t.albums[s[2]].folder # None}
              ge == t.genres \cap UNION {so[f].genres : f \in DOMAIN so}
  <1>1. n = [t EXCEPT !.songs = so, !.albums = al, !.stars = st, !.genres = ge]
    BY DEF DeleteOrphanedSongs
  <1>2. DOMAIN so = S /\ \A f \in S : so[f] = t.songs[f]
    <2>. HIDE DEF S
    <2>. QED
      BY DEF Restrict
  <1>3. DOMAIN al = A /\ \A i \in A : al[i] = t.albums[i]
    <2>. HIDE DEF A
    <2>. QED
      BY DEF Restrict
  <1>. HIDE DEF S, A, so, al, st
  <1>4. PICK g : g = ge
    OBVIOUS
  <1>. HIDE DEF ge
  <1>5. /\ DOMAIN n = TableFields /\ n.artists = t.artists /\ n.links = t.links
        /\ n.songs = so /\ n.albums = al /\ n.stars = st /\ n.genres = g
    BY <1>1, <1>4 DEF TableFields
  <1>6. ASSUME NEW f \in DOMAIN n.songs
        PROVE  t.genres \cap n.songs[f].genres \subseteq n.genres
    BY <1>4, <1>5 DEF ge
  <1>7. DOMAIN n.songs = S /\ DOMAIN n.albums = A /\ n.stars = st
    BY <1>2, <1>3, <1>5
  <1>8. /\ \A f \in DOMAIN n.songs : n.songs[f] = t.songs[f]
        /\ \A i \in DOMAIN n.albums : n.albums[i] = t.albums[i]
    BY <1>2, <1>3, <1>5
  <1>. QED
    BY <1>5, <1>6, <1>7, <1>8 DEF S, A, st

\* What cleanAlbums leaves.
LEMMA AlbumsCleaned ==
    ASSUME NEW t, DOMAIN t = TableFields, NEW to, NEW n, n = CleanAlbums(t, to)
    PROVE  /\ DOMAIN n = TableFields /\ n.artists = t.artists /\ n.links = t.links
           /\ n.songs = t.songs /\ n.genres = t.genres
           /\ DOMAIN n.albums = {i \in DOMAIN t.albums : HasTracks(t, i)}
           /\ \A i \in DOMAIN n.albums : n.albums[i] = t.albums[i]
           /\ n.stars = {s \in Moved(t.stars, to) :
                            ~(s[2] \in DOMAIN t.albums /\ ~HasTracks(t, s[2]))}
  <1>. DEFINE mv == Moved(t.stars, to)
  <1>1. PICK r : r = [t EXCEPT !.stars = mv]
    OBVIOUS
  <1>2. MigrateAnnotations(t, to) = r
    BY <1>1 DEF MigrateAnnotations, Moved
  <1>. HIDE DEF mv
  <1>3. /\ DOMAIN r = TableFields /\ r.artists = t.artists /\ r.links = t.links
        /\ r.songs = t.songs /\ r.genres = t.genres /\ r.albums = t.albums /\ r.stars = mv
    BY <1>1 DEF TableFields
  <1>4. \A i : HasTracks(r, i) <=> HasTracks(t, i)
    BY <1>3 DEF HasTracks
  <1>. DEFINE gone == {i \in DOMAIN r.albums : ~HasTracks(r, i)}
              al == Without(r.albums, gone)
              st == {s \in r.stars : s[2] \notin gone}
  <1>5. n = [r EXCEPT !.albums = al, !.stars = st]
    BY <1>2 DEF CleanAlbums, DeleteIfNoTracks
  <1>6. DOMAIN al = DOMAIN r.albums \ gone /\ \A i \in DOMAIN al : al[i] = r.albums[i]
    <2>. HIDE DEF gone
    <2>. QED
      BY DEF Without, Restrict
  <1>7. \A i : i \in gone <=> i \in DOMAIN t.albums /\ ~HasTracks(t, i)
    BY <1>3, <1>4
  <1>. HIDE DEF gone, al
  <1>8. PICK w : w = st
    OBVIOUS
  <1>. HIDE DEF st
  <1>9. /\ DOMAIN n = TableFields /\ n.artists = t.artists /\ n.links = t.links
        /\ n.songs = t.songs /\ n.genres = t.genres /\ n.albums = al /\ n.stars = w
    BY <1>3, <1>5, <1>8 DEF TableFields
  <1>10. /\ DOMAIN n.albums = {i \in DOMAIN t.albums : HasTracks(t, i)}
         /\ \A i \in DOMAIN n.albums : n.albums[i] = t.albums[i]
    <2>1. DOMAIN al = {i \in DOMAIN t.albums : HasTracks(t, i)}
      BY <1>3, <1>6, <1>7
    <2>. QED
      BY <1>3, <1>6, <1>9, <2>1
  <1>11. n.stars = {s \in mv : ~(s[2] \in DOMAIN t.albums /\ ~HasTracks(t, s[2]))}
    BY <1>3, <1>7, <1>8, <1>9 DEF st
  <1>. QED
    BY <1>9, <1>10, <1>11 DEF mv

\* What cleanArtists leaves.
LEMMA ArtistsCleaned ==
    ASSUME NEW t, DOMAIN t = TableFields, NEW to, NEW n, n = CleanArtists(t, to)
    PROVE  /\ DOMAIN n = TableFields /\ n.albums = t.albums
           /\ n.songs = t.songs /\ n.genres = t.genres
           /\ DOMAIN n.artists = {a \in DOMAIN t.artists : HasWork(t, a)}
           /\ \A a \in DOMAIN n.artists : n.artists[a] = t.artists[a]
           /\ n.stars = {s \in Moved(t.stars, to) :
                            ~(s[2] \in DOMAIN t.artists /\ ~HasWork(t, s[2]))}
           /\ n.links = {l \in t.links : ~(l[2] \in DOMAIN t.artists /\ ~HasWork(t, l[2]))}
  <1>. DEFINE mv == Moved(t.stars, to)
  <1>1. PICK r : r = [t EXCEPT !.stars = mv]
    OBVIOUS
  <1>2. MigrateAnnotations(t, to) = r
    BY <1>1 DEF MigrateAnnotations, Moved
  <1>. HIDE DEF mv
  <1>3. /\ DOMAIN r = TableFields /\ r.artists = t.artists /\ r.links = t.links
        /\ r.songs = t.songs /\ r.genres = t.genres /\ r.albums = t.albums /\ r.stars = mv
    BY <1>1 DEF TableFields
  <1>4. \A i : HasWork(r, i) <=> HasWork(t, i)
    BY <1>3 DEF HasWork
  <1>. DEFINE gone == {i \in DOMAIN r.artists : ~HasWork(r, i)}
              ar == Without(r.artists, gone)
              st == {s \in r.stars : s[2] \notin gone}
              li == {l \in r.links : l[2] \notin gone}
  <1>5. n = [r EXCEPT !.artists = ar, !.stars = st, !.links = li]
    BY <1>2 DEF CleanArtists, DeleteIfNoAlbumsAndNoSongs
  <1>6. DOMAIN ar = DOMAIN r.artists \ gone /\ \A i \in DOMAIN ar : ar[i] = r.artists[i]
    <2>. HIDE DEF gone
    <2>. QED
      BY DEF Without, Restrict
  <1>7. \A i : i \in gone <=> i \in DOMAIN t.artists /\ ~HasWork(t, i)
    BY <1>3, <1>4
  <1>. HIDE DEF gone, ar
  <1>8. PICK w, v : w = st /\ v = li
    OBVIOUS
  <1>. HIDE DEF st, li
  <1>9. /\ DOMAIN n = TableFields /\ n.albums = t.albums
        /\ n.songs = t.songs /\ n.genres = t.genres /\ n.artists = ar /\ n.stars = w
        /\ n.links = v
    BY <1>3, <1>5, <1>8 DEF TableFields
  <1>10. /\ DOMAIN n.artists = {i \in DOMAIN t.artists : HasWork(t, i)}
         /\ \A i \in DOMAIN n.artists : n.artists[i] = t.artists[i]
    <2>1. DOMAIN ar = {i \in DOMAIN t.artists : HasWork(t, i)}
      BY <1>3, <1>6, <1>7
    <2>. QED
      BY <1>3, <1>6, <1>9, <2>1
  <1>11. n.stars = {s \in mv : ~(s[2] \in DOMAIN t.artists /\ ~HasWork(t, s[2]))}
    BY <1>3, <1>7, <1>8, <1>9 DEF st
  <1>12. n.links = {l \in t.links : ~(l[2] \in DOMAIN t.artists /\ ~HasWork(t, l[2]))}
    BY <1>3, <1>7, <1>8, <1>9 DEF li
  <1>. QED
    BY <1>9, <1>10, <1>11, <1>12 DEF mv

\* The pairs of a migration are rows of the tables, the new one created by the scan.
LEMMA HeirsCreated ==
    ASSUME NEW pairs, NEW A, NEW B, pairs \subseteq A \X B, NEW to \in Heirs(pairs)
    PROVE  \A o \in DOMAIN to : o \in A /\ to[o] \in B /\ <<o, to[o]>> \in pairs
  <1>1. \A o \in DOMAIN to : <<o, to[o]>> \in pairs
    BY DEF Heirs
  <1>. QED
    BY <1>1

\* The old albums of a migration, and what they are handed on to.
LEMMA AlbumMigrations ==
    ASSUME NEW t, NEW to \in Heirs(AlbumsToMigrate(t))
    PROVE  \A o \in DOMAIN to :
              /\ o \in DOMAIN t.albums /\ <<o, to[o]>> \in AlbumsToMigrate(t)
              /\ to[o] \in DOMAIN t.albums \ DOMAIN db.albums
  <1>1. PICK pairs, A, B : /\ pairs = AlbumsToMigrate(t) /\ A = DOMAIN t.albums
                           /\ B = DOMAIN t.albums \ DOMAIN db.albums
    OBVIOUS
  <1>2. pairs \subseteq A \X B
    BY <1>1 DEF AlbumsToMigrate
  <1>3. to \in Heirs(pairs)
    BY <1>1
  <1>4. \A o \in DOMAIN to : o \in A /\ to[o] \in B /\ <<o, to[o]>> \in pairs
    BY <1>2, <1>3, HeirsCreated
  <1>. QED
    BY <1>1, <1>4

\* The same of artists.
LEMMA ArtistMigrations ==
    ASSUME NEW t, NEW to \in Heirs(ArtistsToMigrate(t))
    PROVE  \A o \in DOMAIN to :
              /\ o \in DOMAIN t.artists /\ <<o, to[o]>> \in ArtistsToMigrate(t)
              /\ to[o] \in DOMAIN t.artists \ DOMAIN db.artists
  <1>1. PICK pairs, A, B : /\ pairs = ArtistsToMigrate(t) /\ A = DOMAIN t.artists
                           /\ B = DOMAIN t.artists \ DOMAIN db.artists
    OBVIOUS
  <1>2. pairs \subseteq A \X B
    BY <1>1 DEF ArtistsToMigrate
  <1>3. to \in Heirs(pairs)
    BY <1>1
  <1>4. \A o \in DOMAIN to : o \in A /\ to[o] \in B /\ <<o, to[o]>> \in pairs
    BY <1>2, <1>3, HeirsCreated
  <1>. QED
    BY <1>1, <1>4

\* What a scan commits: tables with the files read (t1), without orphans (t2), with
\* the albums (t3) and the artists (t4) cleaned.
Ending(t1, t2, t3, t4, albumTo, artistTo) ==
    /\ ReadTables(t1, ToRead)
    /\ ~Dangles(t1)
    /\ t2 = DeleteOrphanedSongs(t1, scan.full, ToRead)
    /\ albumTo \in Heirs(AlbumsToMigrate(t2))
    /\ t3 = CleanAlbums(t2, albumTo)
    /\ artistTo \in Heirs(ArtistsToMigrate(t3))
    /\ t4 = CleanArtists(t3, artistTo)

\* The tables without orphans: all that is left is in a folder, and linked if it is
\* a song or an album with songs.
LEMMA OrphansGone ==
    ASSUME Consistent, scan.pc = "run", NEW t1, NEW t2, ReadTables(t1, ToRead), ~Dangles(t1),
           t2 = DeleteOrphanedSongs(t1, scan.full, ToRead)
    PROVE  /\ DOMAIN t2 = TableFields
           /\ \A f \in DOMAIN t2.songs :
                 /\ f \in DOMAIN t1.songs /\ t2.songs[f] = t1.songs[f]
                 /\ DOMAIN t2.songs[f] = SongFields
                 /\ t2.songs[f].folder \in scan.load.ids
                 /\ t2.songs[f].album = None \/ t2.songs[f].album \in DOMAIN t2.albums
                 /\ t2.songs[f].artists \subseteq DOMAIN t2.artists
                 /\ t2.songs[f].genres \subseteq t2.genres
                 /\ Links(t2, t2.songs[f])
           /\ ToRead \subseteq DOMAIN t2.songs
           /\ \A i \in DOMAIN t2.albums :
                 /\ i \in DOMAIN t1.albums /\ t2.albums[i] = t1.albums[i]
                 /\ DOMAIN t2.albums[i] = AlbumFields
                 /\ t2.albums[i].folder \in scan.load.ids
                 /\ t2.albums[i].artists \subseteq DOMAIN t2.artists
                 /\ HasTracks(t2, i) => Links(t2, t2.albums[i])
           /\ Numbered(t2)
           /\ Annotated(t2)
           /\ t2.artists = t1.artists
  <1>. DEFINE ids == scan.load.ids
  <1>1. /\ DOMAIN t1 = TableFields /\ Complete(t1, ids) /\ Numbered(t1) /\ t1.stars = db.stars
        /\ DOMAIN db.albums \subseteq DOMAIN t1.albums
        /\ DOMAIN db.artists \subseteq DOMAIN t1.artists
    BY DEF ReadTables
  <1>2. /\ DOMAIN t2 = TableFields /\ t2.artists = t1.artists /\ t2.links = t1.links
        /\ DOMAIN t2.songs = {f \in DOMAIN t1.songs :
                                 /\ t1.songs[f].folder # None
                                 /\ IF scan.full THEN f \in ToRead ELSE disk[f] # None}
        /\ \A f \in DOMAIN t2.songs : t2.songs[f] = t1.songs[f]
        /\ DOMAIN t2.albums = {i \in DOMAIN t1.albums : t1.albums[i].folder # None}
        /\ \A i \in DOMAIN t2.albums : t2.albums[i] = t1.albums[i]
        /\ t2.stars = {s \in t1.stars :
                          s[2] \in DOMAIN t1.albums => t1.albums[s[2]].folder # None}
        /\ \A f \in DOMAIN t2.songs : t1.genres \cap t2.songs[f].genres \subseteq t2.genres
    BY <1>1, OrphansDeleted
  <1>3. ids = DOMAIN scan.load.config /\ scan.full \in BOOLEAN /\ scan.load.config \in Configs
    BY DEF Consistent, Loaded
  <1>4. None \notin Int
    BY FoldersAssumption
  <1>5. ASSUME NEW row PROVE Links(t1, row) <=> Links(t2, row)
    BY <1>2 DEF Links
  <1>6. ASSUME NEW f \in DOMAIN t2.songs
        PROVE  /\ f \in DOMAIN t1.songs /\ t2.songs[f] = t1.songs[f]
               /\ DOMAIN t2.songs[f] = SongFields
               /\ t2.songs[f].folder \in scan.load.ids
               /\ t2.songs[f].album = None \/ t2.songs[f].album \in DOMAIN t2.albums
               /\ t2.songs[f].artists \subseteq DOMAIN t2.artists
               /\ t2.songs[f].genres \subseteq t2.genres
               /\ Links(t2, t2.songs[f])
    <2>1. PICK s : s = t1.songs[f]
      OBVIOUS
    <2>2. f \in DOMAIN t1.songs /\ s.folder # None /\ t2.songs[f] = s
      BY <1>2, <2>1
    <2>3. /\ DOMAIN s = SongFields /\ s.folder \in ids
          /\ s.album = None \/ s.album \in DOMAIN t1.albums
          /\ s.artists \subseteq DOMAIN t2.artists /\ s.genres \subseteq t1.genres
      BY <1>1, <1>2, <2>1, <2>2 DEF Complete
    <2>4. s.album = None \/ s.album \in DOMAIN t2.albums
      BY <1>2, <2>1, <2>2, <2>3 DEF Dangles
    <2>5. s.genres \subseteq t2.genres
      BY <1>2, <2>2, <2>3
    <2>6. Links(t1, s)
      <3>1. CASE scan.full
        <4>1. f \in ToRead
          BY <1>2, <3>1
        <4>. QED
          BY <2>1, <4>1 DEF ReadTables, Filed
      <3>2. CASE ~scan.full
        BY <2>1, <2>2, <3>2 DEF ReadTables, StillLinked
      <3>. QED
        BY <3>1, <3>2
    <2>. QED
      BY <1>5, <2>1, <2>2, <2>3, <2>4, <2>5, <2>6
  <1>7. ASSUME NEW f \in ToRead PROVE f \in DOMAIN t2.songs
    <2>1. f \in DOMAIN t1.songs /\ t1.songs[f].folder \in ids
      BY DEF ReadTables, Filed
    <2>2. t1.songs[f].folder # None
      <3>1. t1.songs[f].folder \in Nat
        BY <1>3, <2>1, FoldersAssumption
      <3>. QED
        BY <1>3, <1>4, <2>1, <3>1
    <2>3. disk[f] # None
      BY DEF ToRead
    <2>. QED
      BY <1>2, <2>1, <2>2, <2>3
  <1>8. ASSUME NEW i \in DOMAIN t2.albums
        PROVE  /\ i \in DOMAIN t1.albums /\ t2.albums[i] = t1.albums[i]
               /\ DOMAIN t2.albums[i] = AlbumFields
               /\ t2.albums[i].folder \in scan.load.ids
               /\ t2.albums[i].artists \subseteq DOMAIN t2.artists
               /\ HasTracks(t2, i) => Links(t2, t2.albums[i])
    <2>1. i \in DOMAIN t1.albums /\ t1.albums[i].folder # None /\ t2.albums[i] = t1.albums[i]
      BY <1>2
    <2>2. i # None
      BY <1>1, <1>4, <2>1 DEF Numbered
    <2>3. ASSUME HasTracks(t2, i) PROVE Links(t1, t1.albums[i])
      <3>1. CASE scan.full
        <4>1. PICK f \in DOMAIN t2.songs : t2.songs[f].album = i
          BY <2>3 DEF HasTracks
        <4>2. f \in ToRead /\ t1.songs[f].album = i
          BY <1>2, <3>1, <4>1
        <4>. QED
          BY <2>2, <4>2 DEF ReadTables, Filed
      <3>2. CASE ~scan.full
        BY <2>1, <3>2 DEF ReadTables, StillLinked
      <3>. QED
        BY <3>1, <3>2
    <2>. QED
      BY <1>1, <1>2, <1>5, <2>1, <2>3 DEF Complete
  <1>9. Numbered(t2)
    <2>1. IsFiniteSet(DOMAIN t2.albums)
      BY <1>1, <1>2, FS_Subset DEF Numbered
    <2>. QED
      BY <1>1, <1>2, <2>1 DEF Numbered
  <1>10. Annotated(t2)
    <2>. SUFFICES ASSUME NEW s \in t2.stars
                  PROVE  s = <<s[1], s[2]>> /\ s[2] \in DOMAIN t2.albums \cup DOMAIN t2.artists
      BY DEF Annotated
    <2>1. s \in db.stars /\ (s[2] \in DOMAIN t1.albums => t1.albums[s[2]].folder # None)
      BY <1>1, <1>2
    <2>2. s = <<s[1], s[2]>> /\ s[2] \in DOMAIN db.albums \cup DOMAIN db.artists
      BY <2>1 DEF Consistent, Annotated
    <2>. QED
      BY <1>1, <1>2, <2>1, <2>2
  <1>. QED
    BY <1>2, <1>6, <1>7, <1>8, <1>9, <1>10

\* The annotations that are moved are on rows there are.
LEMMA MovedStars ==
    ASSUME NEW stars, NEW to, NEW A, NEW B,
           \A s \in stars : s = <<s[1], s[2]>> /\ s[2] \in A \cup B,
           \A o \in DOMAIN to : to[o] \in A \cup B
    PROVE  \A s \in Moved(stars, to) : s = <<s[1], s[2]>> /\ s[2] \in A \cup B
  <1>. SUFFICES ASSUME NEW s \in Moved(stars, to)
                PROVE  s = <<s[1], s[2]>> /\ s[2] \in A \cup B
    OBVIOUS
  <1>1. PICK r \in stars :
            s = <<r[1], IF r[2] \in DOMAIN to /\ r \notin missed THEN to[r[2]] ELSE r[2]>>
    BY DEF Moved
  <1>. QED
    BY <1>1

\* Albums without songs gone, the tables are as good as before.
LEMMA AlbumsGone ==
    ASSUME NEW t, DOMAIN t = TableFields, Numbered(t), Annotated(t),
           NEW to \in Heirs(AlbumsToMigrate(t)), NEW n, n = CleanAlbums(t, to)
    PROVE  Numbered(n) /\ Annotated(n)
  <1>1. /\ DOMAIN n = TableFields /\ n.artists = t.artists
        /\ DOMAIN n.albums = {i \in DOMAIN t.albums : HasTracks(t, i)}
        /\ n.stars = {s \in Moved(t.stars, to) :
                            ~(s[2] \in DOMAIN t.albums /\ ~HasTracks(t, s[2]))}
    BY AlbumsCleaned
  <1>2. IsFiniteSet(DOMAIN n.albums)
    BY <1>1, FS_Subset DEF Numbered
  <1>3. Numbered(n)
    BY <1>1, <1>2 DEF Numbered
  <1>4. PICK A, B, S, M : A = DOMAIN t.albums /\ B = DOMAIN t.artists /\ S = t.stars
                          /\ M = Moved(S, to)
    OBVIOUS
  <1>5. \A o \in DOMAIN to : to[o] \in A \cup B
    BY <1>4, AlbumMigrations
  <1>6. \A s \in S : s = <<s[1], s[2]>> /\ s[2] \in A \cup B
    BY <1>4 DEF Annotated
  <1>7. \A s \in M : s = <<s[1], s[2]>> /\ s[2] \in A \cup B
    BY <1>4, <1>5, <1>6, MovedStars, ZenonT(30)
  <1>8. Annotated(n)
    BY <1>1, <1>4, <1>7 DEF Annotated
  <1>. QED
    BY <1>3, <1>8

\* And so they are with the artists without songs and albums gone.
LEMMA ArtistsGone ==
    ASSUME NEW t, DOMAIN t = TableFields, Numbered(t), Annotated(t),
           NEW to \in Heirs(ArtistsToMigrate(t)), NEW n, n = CleanArtists(t, to)
    PROVE  Numbered(n) /\ Annotated(n)
  <1>1. /\ DOMAIN n = TableFields /\ n.albums = t.albums
        /\ DOMAIN n.artists = {a \in DOMAIN t.artists : HasWork(t, a)}
        /\ n.stars = {s \in Moved(t.stars, to) :
                            ~(s[2] \in DOMAIN t.artists /\ ~HasWork(t, s[2]))}
    BY ArtistsCleaned
  <1>2. IsFiniteSet(DOMAIN n.artists)
    BY <1>1, FS_Subset DEF Numbered
  <1>3. Numbered(n)
    BY <1>1, <1>2 DEF Numbered
  <1>4. PICK A, B, S, M : A = DOMAIN t.albums /\ B = DOMAIN t.artists /\ S = t.stars
                          /\ M = Moved(S, to)
    OBVIOUS
  <1>5. \A o \in DOMAIN to : to[o] \in A \cup B
    BY <1>4, ArtistMigrations
  <1>6. \A s \in S : s = <<s[1], s[2]>> /\ s[2] \in A \cup B
    BY <1>4 DEF Annotated
  <1>7. \A s \in M : s = <<s[1], s[2]>> /\ s[2] \in A \cup B
    BY <1>4, <1>5, <1>6, MovedStars, ZenonT(30)
  <1>8. Annotated(n)
    BY <1>1, <1>4, <1>7 DEF Annotated
  <1>. QED
    BY <1>3, <1>8

\* What a commit leaves of the tables without orphans.
Remains(t2, t4) ==
    /\ t4.songs = t2.songs
    /\ DOMAIN t4.albums = {i \in DOMAIN t2.albums : HasTracks(t2, i)}
    /\ \A i \in DOMAIN t4.albums : t4.albums[i] = t2.albums[i]
    /\ DOMAIN t4.artists = {a \in DOMAIN t2.artists : HasWork(t4, a)}
    /\ \A a \in DOMAIN t4.artists : t4.artists[a] = t2.artists[a]

\* The tables a scan commits.
LEMMA Ended ==
    ASSUME Consistent, scan.pc = "run", NEW t1, NEW t2, NEW t3, NEW t4, NEW albumTo,
           NEW artistTo, Ending(t1, t2, t3, t4, albumTo, artistTo)
    PROVE  /\ DOMAIN t4 = TableFields
           /\ Closed(t4, scan.load.ids)
           /\ Numbered(t4)
           /\ Annotated(t4)
           /\ Remains(t2, t4)
           /\ \A a : HasWork(t3, a) <=> HasWork(t4, a)
           /\ t3.artists = t2.artists
  <1>. DEFINE ids == scan.load.ids
  <1>1. /\ ReadTables(t1, ToRead) /\ ~Dangles(t1)
        /\ t2 = DeleteOrphanedSongs(t1, scan.full, ToRead)
    BY DEF Ending
  <1>2. /\ DOMAIN t2 = TableFields
        /\ \A f \in DOMAIN t2.songs :
              /\ DOMAIN t2.songs[f] = SongFields
              /\ t2.songs[f].folder \in ids
              /\ t2.songs[f].album = None \/ t2.songs[f].album \in DOMAIN t2.albums
              /\ t2.songs[f].artists \subseteq DOMAIN t2.artists
              /\ t2.songs[f].genres \subseteq t2.genres
              /\ Links(t2, t2.songs[f])
        /\ \A i \in DOMAIN t2.albums :
              /\ DOMAIN t2.albums[i] = AlbumFields
              /\ t2.albums[i].folder \in ids
              /\ t2.albums[i].artists \subseteq DOMAIN t2.artists
              /\ HasTracks(t2, i) => Links(t2, t2.albums[i])
        /\ Numbered(t2)
        /\ Annotated(t2)
    BY <1>1, OrphansGone
  <1>3. albumTo \in Heirs(AlbumsToMigrate(t2)) /\ t3 = CleanAlbums(t2, albumTo)
    BY DEF Ending
  <1>4. artistTo \in Heirs(ArtistsToMigrate(t3)) /\ t4 = CleanArtists(t3, artistTo)
    BY DEF Ending
  <1>5. /\ DOMAIN t3 = TableFields /\ t3.artists = t2.artists /\ t3.links = t2.links
        /\ t3.songs = t2.songs /\ t3.genres = t2.genres
        /\ DOMAIN t3.albums = {i \in DOMAIN t2.albums : HasTracks(t2, i)}
        /\ \A i \in DOMAIN t3.albums : t3.albums[i] = t2.albums[i]
    BY <1>2, <1>3, AlbumsCleaned
  <1>6. Numbered(t3) /\ Annotated(t3)
    BY <1>2, <1>3, AlbumsGone
  <1>7. /\ DOMAIN t4 = TableFields /\ t4.albums = t3.albums
        /\ t4.songs = t3.songs /\ t4.genres = t3.genres
        /\ DOMAIN t4.artists = {a \in DOMAIN t3.artists : HasWork(t3, a)}
        /\ \A a \in DOMAIN t4.artists : t4.artists[a] = t3.artists[a]
        /\ t4.links = {l \in t3.links : ~(l[2] \in DOMAIN t3.artists /\ ~HasWork(t3, l[2]))}
    BY <1>4, <1>5, ArtistsCleaned
  <1>8. Numbered(t4) /\ Annotated(t4)
    BY <1>4, <1>5, <1>6, ArtistsGone
  <1>9. \A a : HasWork(t3, a) <=> HasWork(t4, a)
    BY <1>7 DEF HasWork
  <1>10. Remains(t2, t4)
    BY <1>5, <1>7, <1>9 DEF Remains
  <1>11. ASSUME NEW f \in DOMAIN t4.songs
         PROVE  /\ DOMAIN t4.songs[f] = SongFields
                /\ t4.songs[f].folder \in ids
                /\ t4.songs[f].album = None \/ t4.songs[f].album \in DOMAIN t4.albums
                /\ t4.songs[f].artists \subseteq DOMAIN t4.artists
                /\ t4.songs[f].genres \subseteq t4.genres
                /\ \A a \in t4.songs[f].artists : <<t4.songs[f].folder, a>> \in t4.links
    <2>1. PICK s : s = t2.songs[f]
      OBVIOUS
    <2>2. t4.songs[f] = s /\ f \in DOMAIN t2.songs
      BY <1>5, <1>7, <2>1
    <2>3. \A a \in s.artists : HasWork(t3, a)
      BY <1>5, <2>1, <2>2 DEF HasWork
    <2>4. s.album = None \/ s.album \in DOMAIN t4.albums
      BY <1>2, <1>5, <1>7, <2>1, <2>2 DEF HasTracks
    <2>5. s.artists \subseteq DOMAIN t4.artists
      BY <1>2, <1>5, <1>7, <2>1, <2>2, <2>3
    <2>6. \A a \in s.artists : <<s.folder, a>> \in t4.links
      BY <1>2, <1>5, <1>7, <2>1, <2>2, <2>3 DEF Links
    <2>. QED
      BY <1>2, <1>5, <1>7, <2>1, <2>2, <2>4, <2>5, <2>6
  <1>12. ASSUME NEW i \in DOMAIN t4.albums
         PROVE  /\ DOMAIN t4.albums[i] = AlbumFields
                /\ t4.albums[i].folder \in ids
                /\ t4.albums[i].artists \subseteq DOMAIN t4.artists
                /\ \A a \in t4.albums[i].artists : <<t4.albums[i].folder, a>> \in t4.links
    <2>1. PICK r : r = t2.albums[i]
      OBVIOUS
    <2>2. t4.albums[i] = r /\ t3.albums[i] = r /\ i \in DOMAIN t3.albums
          /\ i \in DOMAIN t2.albums /\ HasTracks(t2, i)
      BY <1>5, <1>7, <2>1
    <2>3. \A a \in r.artists : HasWork(t3, a)
      BY <2>2 DEF HasWork
    <2>5. r.artists \subseteq DOMAIN t4.artists
      BY <1>2, <1>5, <1>7, <2>1, <2>2, <2>3
    <2>6. \A a \in r.artists : <<r.folder, a>> \in t4.links
      BY <1>2, <1>5, <1>7, <2>1, <2>2, <2>3 DEF Links
    <2>. QED
      BY <1>2, <2>1, <2>2, <2>5, <2>6
  <1>13. Justified(t4) \subseteq t4.links
    BY <1>11, <1>12 DEF Justified
  <1>14. Closed(t4, ids)
    BY <1>11, <1>12, <1>13 DEF Closed
  <1>. QED
    BY <1>5, <1>7, <1>8, <1>9, <1>10, <1>14

-----------------------------------------------------------------------------
(* The tables stay consistent.  *)

\* A scan commits tables as described, or nothing.
LEMMA CommitEnds ==
    ASSUME Consistent, Commit
    PROVE  \/ RolledBack
           \/ \E t1, t2, t3, t4, albumTo, artistTo :
                 /\ Ending(t1, t2, t3, t4, albumTo, artistTo)
                 /\ Committed(t1, t4)
  <1>1. scan.pc = "run"
    BY DEF Commit
  <1>2. PICK order \in SetToSeqs(ToRead), ids \in NewIds : \E t1 \in {Tables(order, ids)} :
           \E t2 \in {DeleteOrphanedSongs(t1, scan.full, ToRead)} :
           \E albumTo \in Heirs(AlbumsToMigrate(t2)) :
           \E t3 \in {CleanAlbums(t2, albumTo)} :
           \E artistTo \in Heirs(ArtistsToMigrate(t3)) :
               IF Dangles(t1) \/ Collides(t2, albumTo) \/ Collides(t3, artistTo)
               THEN RolledBack
               ELSE Committed(t1, CleanArtists(t3, artistTo))
    BY DEF Commit
  <1>3. PICK t1 : t1 = Tables(order, ids) /\
           \E t2 \in {DeleteOrphanedSongs(t1, scan.full, ToRead)} :
           \E albumTo \in Heirs(AlbumsToMigrate(t2)) :
           \E t3 \in {CleanAlbums(t2, albumTo)} :
           \E artistTo \in Heirs(ArtistsToMigrate(t3)) :
               IF Dangles(t1) \/ Collides(t2, albumTo) \/ Collides(t3, artistTo)
               THEN RolledBack
               ELSE Committed(t1, CleanArtists(t3, artistTo))
    BY <1>2
  <1>4. PICK t2 : t2 = DeleteOrphanedSongs(t1, scan.full, ToRead) /\
           \E albumTo \in Heirs(AlbumsToMigrate(t2)) :
           \E t3 \in {CleanAlbums(t2, albumTo)} :
           \E artistTo \in Heirs(ArtistsToMigrate(t3)) :
               IF Dangles(t1) \/ Collides(t2, albumTo) \/ Collides(t3, artistTo)
               THEN RolledBack
               ELSE Committed(t1, CleanArtists(t3, artistTo))
    BY <1>3
  <1>5. PICK albumTo \in Heirs(AlbumsToMigrate(t2)) :
           \E t3 \in {CleanAlbums(t2, albumTo)} :
           \E artistTo \in Heirs(ArtistsToMigrate(t3)) :
               IF Dangles(t1) \/ Collides(t2, albumTo) \/ Collides(t3, artistTo)
               THEN RolledBack
               ELSE Committed(t1, CleanArtists(t3, artistTo))
    BY <1>4
  <1>6. PICK t3 : t3 = CleanAlbums(t2, albumTo) /\
           \E artistTo \in Heirs(ArtistsToMigrate(t3)) :
               IF Dangles(t1) \/ Collides(t2, albumTo) \/ Collides(t3, artistTo)
               THEN RolledBack
               ELSE Committed(t1, CleanArtists(t3, artistTo))
    BY <1>5
  <1>7. PICK artistTo \in Heirs(ArtistsToMigrate(t3)) :
               IF Dangles(t1) \/ Collides(t2, albumTo) \/ Collides(t3, artistTo)
               THEN RolledBack
               ELSE Committed(t1, CleanArtists(t3, artistTo))
    BY <1>6
  <1>8. PICK t4 : t4 = CleanArtists(t3, artistTo)
    OBVIOUS
  <1>9. ReadTables(t1, ToRead)
    BY <1>1, <1>3, TablesRead
  <1>10. ASSUME ~Dangles(t1) PROVE Ending(t1, t2, t3, t4, albumTo, artistTo)
    BY <1>4, <1>5, <1>6, <1>7, <1>8, <1>9, <1>10 DEF Ending
  <1>. QED
    BY <1>7, <1>8, <1>10

\* The folders after a commit are those the scan has loaded.
LEMMA FoldersCommitted ==
    ASSUME AccessInv, Consistent, scan.pc = "run", NEW t1, NEW t4, Committed(t1, t4)
    PROVE  folders'.ids = scan.load.ids /\ db' = t4
           /\ scan'.pc = "idle" /\ scan'.last = "ok"
  <1>1. folders' = FoldersAfter(scan.load) /\ db' = t4
        /\ scan' = [scan EXCEPT !.pc = "idle", !.load = <<>>, !.last = "ok"]
    BY DEF Committed, CommitFolders
  <1>2. scan'.pc = "idle" /\ scan'.last = "ok"
    BY <1>1 DEF AccessInv, FolderTypes
  <1>3. CASE scan.load.rewrites
    BY <1>1, <1>2, <1>3 DEF FoldersAfter
  <1>4. CASE ~scan.load.rewrites
    BY <1>1, <1>2, <1>4 DEF FoldersAfter, Consistent, Loaded
  <1>. QED
    BY <1>3, <1>4

\* The commit of a scan.
LEMMA ConsistentCommit ==
    ASSUME AccessInv, Consistent, Commit
    PROVE  Consistent'
  <1>1. scan.pc = "run" /\ disk' = disk
    BY DEF Commit
  <1>2. CASE RolledBack
    <2>1. scan'.pc = "idle" /\ db' = db /\ folders' = folders
      BY <1>2 DEF RolledBack, folderVars, AccessInv, FolderTypes
    <2>. QED
      BY <1>1, <2>1 DEF Consistent, Closed, Justified, Numbered, Annotated, Loaded, Tagged
  <1>3. ASSUME NEW t1, NEW t2, NEW t3, NEW t4, NEW albumTo, NEW artistTo,
               Ending(t1, t2, t3, t4, albumTo, artistTo), Committed(t1, t4)
        PROVE  Consistent'
    <2>1. /\ DOMAIN t4 = TableFields /\ Closed(t4, scan.load.ids)
          /\ Numbered(t4) /\ Annotated(t4)
      BY <1>1, <1>3, Ended
    <2>2. folders'.ids = scan.load.ids /\ db' = t4 /\ scan'.pc = "idle"
      BY <1>1, <1>3, FoldersCommitted
    <2>3. Closed(db, folders.ids)'
      BY <2>1, <2>2 DEF Closed, Justified
    <2>4. Numbered(db)' /\ Annotated(db)'
      BY <2>1, <2>2 DEF Numbered, Annotated
    <2>. QED
      BY <1>1, <2>1, <2>2, <2>3, <2>4 DEF Consistent, Loaded, Tagged
  <1>. QED
    BY <1>2, <1>3, CommitEnds

\* The beginning of a scan loads the folders of the configuration.
LEMMA ConsistentScan ==
    ASSUME AccessInv, Consistent, NEW full \in BOOLEAN, Scan(full)
    PROVE  Consistent'
  <1>1. UNCHANGED <<folders, disk, db>>
    BY DEF Scan, folderVars
  <1>. DEFINE load == LoadMusicDirs(config, full \/ folders.stored = None)
  <1>2. \/ scan' = [scan EXCEPT !.last = "failed"]
        \/ scan' = [scan EXCEPT !.pc = "run", !.load = load,
               !.full = full \/ folders.stored = None \/ ConfigChanged(config)]
    BY DEF Scan
  <1>3. scan.pc = "idle" /\ DOMAIN scan = {"pc", "full", "load", "last"} /\ config \in Configs
    BY DEF Scan, AccessInv, FolderTypes
  <1>4. Loaded'
    <2>1. CASE scan' = [scan EXCEPT !.last = "failed"]
      BY <1>3, <2>1 DEF Loaded
    <2>2. CASE scan' = [scan EXCEPT !.pc = "run", !.load = load,
               !.full = full \/ folders.stored = None \/ ConfigChanged(config)]
      <3>1. /\ load.config = config
            /\ load.rewrites => load.ids = DOMAIN config
            /\ ~load.rewrites => load.ids = folders.ids
        BY DEF LoadMusicDirs
      <3>2. ASSUME ~load.rewrites PROVE folders.ids = DOMAIN config
        <4>1. /\ folders.stored = GenerateMusicDirConfigString(config)
              /\ folders.stored # None
          BY <3>2 DEF LoadMusicDirs, ConfigChanged
        <4>2. /\ folders.ids = DOMAIN loaded
              /\ folders.stored = GenerateMusicDirConfigString(loaded)
          BY <4>1 DEF AccessInv, Stored
        <4>. QED
          BY <4>1, <4>2, SameText
      <3>3. (full \/ folders.stored = None \/ ConfigChanged(config)) \in BOOLEAN
        OBVIOUS
      <3>. HIDE DEF load
      <3>4. scan'.load = load /\ scan'.full \in BOOLEAN
        BY <1>3, <2>2, <3>3
      <3>. QED
        BY <1>1, <1>3, <3>1, <3>2, <3>4 DEF Loaded
    <2>. QED
      BY <1>2, <2>1, <2>2
  <1>. QED
    BY <1>1, <1>4 DEF Consistent, Closed, Justified, Numbered, Annotated, Tagged

\* A change of the annotations that leaves them on rows there are.
LEMMA ConsistentStars ==
    ASSUME Consistent, NEW S, db' = [db EXCEPT !.stars = S], folders'.ids = folders.ids,
           disk' = disk, Loaded',
           \A s \in S : s = <<s[1], s[2]>> /\ s[2] \in DOMAIN db.albums \cup DOMAIN db.artists
    PROVE  Consistent'
  <1>1. /\ DOMAIN db' = TableFields /\ db'.links = db.links /\ db'.stars = S
        /\ db'.songs = db.songs /\ db'.albums = db.albums
        /\ db'.artists = db.artists /\ db'.genres = db.genres
    BY DEF Consistent, TableFields
  <1>2. Justified(db)' = Justified(db)
    BY <1>1 DEF Justified
  <1>3. Closed(db, folders.ids)'
    BY <1>1, <1>2 DEF Consistent, Closed
  <1>4. Numbered(db)' /\ Annotated(db)'
    BY <1>1 DEF Consistent, Numbered, Annotated
  <1>. QED
    BY <1>1, <1>3, <1>4 DEF Consistent, Tagged

\* A deleted user's annotations go.
LEMMA ConsistentUsersDelete ==
    ASSUME AccessInv, Consistent, NEW u, UsersDelete(u)
    PROVE  Consistent'
  <1>1. /\ folders' = [folders EXCEPT !.access = {r \in @ : r[2] # u}]
        /\ db' = [db EXCEPT !.stars = {s \in @ : s[1] # u}] /\ disk' = disk
    BY DEF UsersDelete, DeleteUser
  <1>2. folders'.ids = folders.ids
    BY <1>1 DEF AccessInv, FolderTypes
  <1>3. \/ scan.pc = "idle" /\ scan' = scan
        \/ scan.pc = "run" /\ scan' = [scan EXCEPT !.load.seen = @ \ {u}]
    BY DEF UsersDelete, AccessInv, FolderTypes
  <1>4. Loaded'
    <2>1. CASE scan.pc = "idle" /\ scan' = scan
      BY <2>1 DEF Loaded
    <2>2. CASE scan.pc = "run" /\ scan' = [scan EXCEPT !.load.seen = @ \ {u}]
      <3>1. /\ scan'.full = scan.full
            /\ scan'.load = [scan.load EXCEPT !.seen = @ \ {u}]
        BY <2>2 DEF AccessInv, FolderTypes
      <3>2. DOMAIN scan.load = {"rewrites", "config", "deleted", "ids", "access", "seen"}
        BY <2>2 DEF AccessInv, Pending
      <3>3. /\ scan'.load.rewrites = scan.load.rewrites
            /\ scan'.load.config = scan.load.config
            /\ scan'.load.ids = scan.load.ids
        BY <3>1, <3>2
      <3>. QED
        BY <1>2, <2>2, <3>1, <3>3 DEF Consistent, Loaded
    <2>. QED
      BY <1>3, <2>1, <2>2
  <1>5. PICK S : S = {s \in db.stars : s[1] # u}
    OBVIOUS
  <1>6. db' = [db EXCEPT !.stars = S]
    BY <1>1, <1>5
  <1>7. \A s \in S : s = <<s[1], s[2]>> /\ s[2] \in DOMAIN db.albums \cup DOMAIN db.artists
    BY <1>5 DEF Consistent, Annotated
  <1>. QED
    BY <1>1, <1>2, <1>4, <1>6, <1>7, ConsistentStars

\* Annotations are put on the albums or the artists of the tables, and taken off.
LEMMA ConsistentAnnotate ==
    ASSUME Consistent, NEW u,
           \/ \E ids \in {DOMAIN db.albums, DOMAIN db.artists} : Star(u, ids)
           \/ \E ids : UnStar(u, ids)
    PROVE  Consistent'
  <1>1. disk' = disk /\ folders' = folders /\ scan' = scan
    BY DEF Star, UnStar, folderVars
  <1>2. Loaded'
    BY <1>1 DEF Consistent, Loaded
  <1>3. ASSUME NEW ids \in {DOMAIN db.albums, DOMAIN db.artists}, Star(u, ids)
        PROVE  Consistent'
    <2>1. PICK S : S = db.stars \cup ({u} \X ids)
      OBVIOUS
    <2>2. db' = [db EXCEPT !.stars = S]
      BY <1>3, <2>1 DEF Star
    <2>3. \A s \in S : s = <<s[1], s[2]>> /\ s[2] \in DOMAIN db.albums \cup DOMAIN db.artists
      BY <2>1 DEF Consistent, Annotated
    <2>. QED
      BY <1>1, <1>2, <2>2, <2>3, ConsistentStars
  <1>4. ASSUME NEW ids, UnStar(u, ids)
        PROVE  Consistent'
    <2>1. PICK S : S = db.stars \ ({u} \X ids)
      OBVIOUS
    <2>2. db' = [db EXCEPT !.stars = S]
      BY <1>4, <2>1 DEF UnStar
    <2>3. \A s \in S : s = <<s[1], s[2]>> /\ s[2] \in DOMAIN db.albums \cup DOMAIN db.artists
      BY <2>1 DEF Consistent, Annotated
    <2>. QED
      BY <1>1, <1>2, <2>2, <2>3, ConsistentStars
  <1>. QED
    BY <1>3, <1>4

\* Steps that leave the tables and the scan alone.
LEMMA ConsistentOther ==
    ASSUME Consistent, UNCHANGED <<db, scan>>, folders'.ids = folders.ids, Tagged'
    PROVE  Consistent'
  BY DEF Consistent, Closed, Justified, Numbered, Annotated, Loaded

(* The committed tables are consistent: songs, albums and artists refer to   *)
(* rows there are, in music folders there are, artists are linked to the     *)
(* folders of all their songs and albums, ids are those of one row, and      *)
(* annotations are on rows there are, for any files and tags, read in any    *)
(* order, whatever a scan creates, matches, migrates and deletes             *)
(* (createOrUpdateSongs, updateMusicFolderAssociations, deleteOrphaned,      *)
(* cleanAlbums, cleanArtists).                                               *)
THEOREM ConsistentInvariant ==
    Spec => []Consistent
  <1>1. Init => Consistent
    <2>. SUFFICES ASSUME Init PROVE Consistent
      OBVIOUS
    <2>1. db = [songs |-> <<>>, albums |-> <<>>, artists |-> <<>>, genres |-> {},
                links |-> {}, stars |-> {}]
      BY DEF Init
    <2>2. /\ DOMAIN db = TableFields /\ DOMAIN db.songs = {} /\ DOMAIN db.albums = {}
          /\ DOMAIN db.artists = {} /\ db.stars = {}
      BY <2>1 DEF TableFields
    <2>3. Closed(db, folders.ids)
      BY <2>2 DEF Closed, Justified
    <2>4. Numbered(db) /\ Annotated(db)
      BY <2>2, FS_EmptySet DEF Numbered, Annotated
    <2>5. Loaded /\ Tagged
      BY DEF Init, Loaded, Tagged
    <2>. QED
      BY <2>2, <2>3, <2>4, <2>5 DEF Consistent
  <1>2. AccessInv /\ Consistent /\ [Next]_vars => Consistent'
    <2>. SUFFICES ASSUME AccessInv, Consistent, [Next]_vars PROVE Consistent'
      OBVIOUS
    <2>1. CASE \E full \in BOOLEAN : Scan(full)
      BY <2>1, ConsistentScan
    <2>2. CASE Commit
      BY <2>2, ConsistentCommit
    <2>3. ASSUME NEW fs, NEW t \in Tags, Retag(fs, t) PROVE Consistent'
      <3>1. disk' = [f \in Files |-> IF f \in fs THEN t ELSE disk[f]]
            /\ UNCHANGED <<db, scan, folders>>
        BY <2>3 DEF Retag, folderVars
      <3>2. Tagged'
        BY <3>1 DEF Tagged, Consistent
      <3>. QED
        BY <3>1, <3>2, ConsistentOther
    <2>4. ASSUME NEW f \in Files, Delete(f) PROVE Consistent'
      <3>1. disk' = [disk EXCEPT ![f] = None] /\ UNCHANGED <<db, scan, folders>>
        BY <2>4 DEF Delete, folderVars
      <3>2. Tagged'
        BY <3>1 DEF Tagged, Consistent
      <3>. QED
        BY <3>1, <3>2, ConsistentOther
    <2>5. CASE \E u \in users, ids \in {DOMAIN db.albums, DOMAIN db.artists} : Star(u, ids)
      BY <2>5, ConsistentAnnotate
    <2>6. CASE \E s \in db.stars : UnStar(s[1], {s[2]})
      BY <2>6, ConsistentAnnotate
    <2>7. CASE UNCHANGED <<db, scan, disk>> /\ folders'.ids = folders.ids
      BY <2>7, ConsistentOther DEF Tagged, Consistent
    <2>8. CASE \E c \in Configs : EditConfig(c)
      BY <2>7, <2>8 DEF EditConfig, Configure
    <2>9. CASE \E u \in Names : UsersCreate(u)
      <3>1. \/ folders' = folders
            \/ \E S : folders' = [folders EXCEPT !.access = S]
        BY <2>9 DEF UsersCreate, CreateUser
      <3>2. folders'.ids = folders.ids
        BY <3>1 DEF AccessInv, FolderTypes
      <3>. QED
        BY <2>7, <2>9, <3>2 DEF UsersCreate
    <2>10. CASE \E u \in Names : UsersDelete(u)
      BY <2>10, ConsistentUsersDelete
    <2>11. CASE UNCHANGED vars
      BY <2>7, <2>11 DEF vars, folderVars
    <2>. QED
      BY <2>1, <2>2, <2>3, <2>4, <2>5, <2>6, <2>8, <2>9, <2>10, <2>11 DEF Next
  <1>. QED
    BY <1>1, <1>2, AccessInvInvariant, PTL DEF Spec

(* NoDeadLinks: whatever a user is shown they can open, save what a song     *)
(* leads to whose album a scan has taken to another folder, for any files,   *)
(* tags, configurations and users.                                           *)
THEOREM NoDeadLinksInvariant ==
    Spec => []NoDeadLinks
  <1>1. Consistent => NoDeadLinks
    <2>. SUFFICES ASSUME Consistent, NEW u \in users, NEW r \in Responses(u)
                  PROVE  LET crossed == Response(CrossedSongs, {}, {})
                         IN  /\ r.songs \subseteq SongFindByID(u) \cup crossed.songs
                             /\ r.albums \subseteq AlbumFindByID(u) \cup crossed.albums
                             /\ r.artists \subseteq ArtistFindByID(u) \cup crossed.artists
      BY DEF NoDeadLinks
    <2>1. Opens(u, r)
      BY ResponsesOpen
    <2>. QED
      BY <2>1 DEF Opens
  <1>. QED
    BY <1>1, ConsistentInvariant, PTL

(* SongsAreFound: whatever a user may play they can find by each of the ways *)
(* there are, in every folder they ask for.                                  *)
THEOREM SongsAreFoundInvariant ==
    Spec => []SongsAreFound
  <1>1. Consistent => SongsAreFound
    <2>. SUFFICES ASSUME Consistent, NEW u \in users,
                         NEW f \in SongFindByID(u) \ CrossedSongs, NEW req \in Requested,
                         NEW fs, fs = MusicFolderIDs(u, req), db.songs[f].folder \in fs
                  PROVE  LET s == db.songs[f]
                         IN /\ \A i \in {s.album} \ {None} :
                                  /\ f \in HandleGetAlbum(u, i).songs
                                  /\ i \in HandleGetAlbumList(fs, s.genres).albums
                                  /\ \A a \in db.albums[i].artists :
                                        /\ a \in HandleGetArtistsIndex(fs).artists
                                        /\ i \in HandleGetArtist(u, a, fs).albums
                                  /\ \A a \in s.artists \ db.albums[i].artists :
                                        db.albums[i].artists # {} =>
                                            i \in HandleGetAppearsOn(a, fs).albums
                            /\ s.genres \subseteq FindAllWithCounts(fs)
                            /\ \A g \in s.genres : f \in HandleGetSongsByGenre(fs, g).songs
                            /\ f \in HandleGetRandomSongs(fs, s.genres).songs
                            /\ f \in HandleGetSongs(fs, s.genres, s.artists,
                                                    {s.album} \ {None}).songs
                            /\ ~HandleGetAlbumInfoPanics(u, f)
                            /\ ArtistInfoOf(f) \subseteq ArtistFindByID(u)
      BY ZenonT(30) DEF SongsAreFound
    <2>1. fs \subseteq Accessible(u)
      BY FoldersOfUser
    <2>. QED
      BY <2>1, SongFound
  <1>. QED
    BY <1>1, ConsistentInvariant, PTL

-----------------------------------------------------------------------------
(* What a commit does.  *)

\* No other step commits.
LEMMA OnlyCommits ==
    ASSUME AccessInv, Consistent, [Next]_vars, Commits
    PROVE  \E t1, t2, t3, t4, albumTo, artistTo :
              /\ Ending(t1, t2, t3, t4, albumTo, artistTo)
              /\ Committed(t1, t4)
  <1>1. scan.pc = "run" /\ scan'.pc = "idle" /\ scan'.last = "ok"
    BY DEF Commits
  <1>2. CASE UNCHANGED scan
    BY <1>1, <1>2
  <1>3. CASE Commit
    <2>1. ~RolledBack
      <3>1. RolledBack => scan'.last = "failed"
        BY DEF RolledBack, AccessInv, FolderTypes
      <3>. QED
        BY <1>1, <3>1
    <2>. QED
      BY <1>3, <2>1, CommitEnds
  <1>4. CASE \E full \in BOOLEAN : Scan(full)
    BY <1>1, <1>4 DEF Scan
  <1>5. ASSUME NEW u, UsersDelete(u) PROVE FALSE
    <2>1. scan' = [scan EXCEPT !.load.seen = @ \ {u}]
      BY <1>1, <1>5 DEF UsersDelete
    <2>2. scan'.pc = scan.pc
      BY <2>1 DEF AccessInv, FolderTypes
    <2>. QED
      BY <1>1, <2>2
  <1>. QED
    BY <1>2, <1>3, <1>4, <1>5
       DEF Next, Retag, Delete, Star, UnStar, EditConfig, UsersCreate, vars

(* ReadIntoOwnFolder: every file a scan has read is in an album of its own   *)
(* music folder, for any files and tags and any order they are read in       *)
(* (albumMap.findOrCreate).                                                  *)
THEOREM ReadIntoOwnFolderHolds ==
    Spec => ReadIntoOwnFolder
  <1>. DEFINE A == Commits => \A f \in ToRead \cap DOMAIN db'.songs : ~Crossed(db', f)
  <1>1. AccessInv /\ Consistent /\ [Next]_vars => A
    <2>. SUFFICES ASSUME AccessInv, Consistent, [Next]_vars, Commits,
                         NEW f \in ToRead \cap DOMAIN db'.songs
                  PROVE  ~Crossed(db', f)
      OBVIOUS
    <2>1. PICK t1, t2, t3, t4, albumTo, artistTo :
              /\ Ending(t1, t2, t3, t4, albumTo, artistTo)
              /\ Committed(t1, t4)
      BY OnlyCommits
    <2>2. scan.pc = "run"
      BY DEF Commits
    <2>3. db' = t4
      BY <2>1, <2>2, FoldersCommitted
    <2>4. Remains(t2, t4) /\ Closed(t4, scan.load.ids)
      BY <2>1, <2>2, Ended
    <2>5. /\ ReadTables(t1, ToRead) /\ ~Dangles(t1)
          /\ t2 = DeleteOrphanedSongs(t1, scan.full, ToRead)
      BY <2>1 DEF Ending
    <2>6. /\ f \in DOMAIN t2.songs /\ t2.songs[f] = t1.songs[f]
          /\ \A i \in DOMAIN t2.albums : t2.albums[i] = t1.albums[i]
      BY <2>2, <2>5, OrphansGone
    <2>7. PICK s : s = t1.songs[f]
      OBVIOUS
    <2>8. s.album # None => t1.albums[s.album].folder = s.folder
      BY <2>5, <2>7 DEF ReadTables, Filed
    <2>9. t4.songs[f] = s
      BY <2>4, <2>6, <2>7 DEF Remains
    <2>10. s.album = None \/ s.album \in DOMAIN t4.albums
      BY <2>4, <2>6, <2>7, <2>9 DEF Closed, Remains
    <2>11. s.album # None => t4.albums[s.album].folder = s.folder
      BY <2>4, <2>6, <2>8, <2>10 DEF Remains
    <2>. QED
      BY <2>3, <2>9, <2>11 DEF Crossed
  <1>2. AccessInv /\ Consistent /\ [Next]_vars => [A]_vars
    BY <1>1
  <1>. QED
    BY <1>2, AccessInvInvariant, ConsistentInvariant, PTL DEF Spec, ReadIntoOwnFolder

-----------------------------------------------------------------------------
(* The annotations.  *)

\* The rows of a new table, not of the old one, with the MusicBrainz id of old[i].
Successors(old, new, i) ==
    {j \in DOMAIN new \ DOMAIN old : new[j].mbid # None /\ new[j].mbid = old[i].mbid}

\* Where one annotation goes.
LEMMA MovedStar ==
    ASSUME NEW stars, NEW to, NEW s \in stars, s = <<s[1], s[2]>>
    PROVE  /\ s[2] \notin DOMAIN to => s \in Moved(stars, to)
           /\ s[2] \in DOMAIN to /\ s \notin missed => <<s[1], to[s[2]]>> \in Moved(stars, to)
  <1>1. <<s[1], IF s[2] \in DOMAIN to /\ s \notin missed THEN to[s[2]] ELSE s[2]>>
          \in Moved(stars, to)
    BY DEF Moved
  <1>. QED
    BY <1>1

\* An annotation of an album with songs outlives both cleanings.
LEMMA AlbumStarStays ==
    ASSUME Consistent, scan.pc = "run", NEW t1, NEW t2, NEW t3, NEW t4, NEW albumTo,
           NEW artistTo, Ending(t1, t2, t3, t4, albumTo, artistTo),
           NEW u, NEW x \in DOMAIN t2.albums, HasTracks(t2, x),
           <<u, x>> \in Moved(t2.stars, albumTo)
    PROVE  <<u, x>> \in t4.stars
  <1>1. /\ t2 = DeleteOrphanedSongs(t1, scan.full, ToRead) /\ ReadTables(t1, ToRead)
        /\ ~Dangles(t1) /\ t3 = CleanAlbums(t2, albumTo) /\ t4 = CleanArtists(t3, artistTo)
        /\ albumTo \in Heirs(AlbumsToMigrate(t2)) /\ artistTo \in Heirs(ArtistsToMigrate(t3))
    BY DEF Ending
  <1>2. DOMAIN t2 = TableFields /\ Numbered(t2)
    BY <1>1, OrphansGone
  <1>3. PICK s : s = <<u, x>>
    OBVIOUS
  <1>4. s[1] = u /\ s[2] = x /\ s = <<s[1], s[2]>>
    BY <1>3
  <1>5. /\ DOMAIN t3 = TableFields /\ t3.artists = t2.artists
        /\ t3.stars = {r \in Moved(t2.stars, albumTo) :
                          ~(r[2] \in DOMAIN t2.albums /\ ~HasTracks(t2, r[2]))}
    BY <1>1, <1>2, AlbumsCleaned
  <1>6. s \in t3.stars
    BY <1>3, <1>4, <1>5
  <1>7. x \notin DOMAIN t3.artists
    BY <1>2, <1>5 DEF Numbered
  <1>8. x \notin DOMAIN artistTo
    BY <1>1, <1>7, ArtistMigrations
  <1>9. s \in Moved(t3.stars, artistTo)
    BY <1>4, <1>6, <1>8, MovedStar
  <1>10. t4.stars = {r \in Moved(t3.stars, artistTo) :
                        ~(r[2] \in DOMAIN t3.artists /\ ~HasWork(t3, r[2]))}
    <2>1. t4 = CleanArtists(t3, artistTo) /\ DOMAIN t3 = TableFields
      BY <1>1, <1>5
    <2>. QED
      BY <2>1, ArtistsCleaned
  <1>. QED
    BY <1>3, <1>4, <1>7, <1>9, <1>10

\* An album with annotations is in the tables, or has its successor in them.
LEMMA AlbumAnnotations ==
    ASSUME Consistent, scan.pc = "run", NEW t1, NEW t2, NEW t3, NEW t4, NEW albumTo,
           NEW artistTo, Ending(t1, t2, t3, t4, albumTo, artistTo),
           NEW s \in db.stars, s[2] \in DOMAIN db.albums
    PROVE  LET heirs == Successors(db.albums, t4.albums, s[2])
           IN  \/ s \in t4.stars
               \/ \E j \in heirs : <<s[1], j>> \in t4.stars
               \/ /\ s[2] \notin DOMAIN t4.albums
                  /\ \/ s \in missed
                     \/ Cardinality(heirs) # 1
                     \/ db.albums[s[2]].folder \notin scan.load.ids
  <1>. DEFINE ids == scan.load.ids
  <1>1. PICK u, i : u = s[1] /\ i = s[2]
    OBVIOUS
  <1>2. PICK old : old = db.albums[i]
    OBVIOUS
  <1>3. PICK heirs : heirs = Successors(db.albums, t4.albums, i)
    OBVIOUS
  <1>4. /\ s = <<u, i>> /\ i \in DOMAIN db.albums /\ i # None /\ None \notin ids
    <2>1. s = <<s[1], s[2]>> /\ DOMAIN db.albums \subseteq Int
      BY DEF Consistent, Annotated, Numbered
    <2>2. ids \subseteq Nat
      BY FoldersAssumption DEF Consistent, Loaded
    <2>. QED
      BY <1>1, <2>1, <2>2, FoldersAssumption
  <1>5. /\ t2 = DeleteOrphanedSongs(t1, scan.full, ToRead) /\ ReadTables(t1, ToRead)
        /\ ~Dangles(t1) /\ albumTo \in Heirs(AlbumsToMigrate(t2))
    BY DEF Ending
  <1>6. /\ DOMAIN t1 = TableFields /\ t1.stars = db.stars
        /\ DOMAIN db.albums \subseteq DOMAIN t1.albums
        /\ OldAlbums(t1, ToRead) /\ \A f \in ToRead : Filed(t1, f)
    BY <1>5 DEF ReadTables
  <1>7. /\ Remains(t2, t4) /\ Numbered(t4)
    BY Ended
  <1>8. /\ DOMAIN t2.albums = {k \in DOMAIN t1.albums : t1.albums[k].folder # None}
        /\ t2.stars = {r \in t1.stars : r[2] \in DOMAIN t1.albums => t1.albums[r[2]].folder # None}
    BY <1>5, <1>6, OrphansDeleted
  <1>9. /\ \A f \in DOMAIN t2.songs : t2.songs[f] = t1.songs[f]
        /\ ToRead \subseteq DOMAIN t2.songs
        /\ \A k \in DOMAIN t2.albums : k \in DOMAIN t1.albums /\ t2.albums[k] = t1.albums[k]
    BY <1>5, OrphansGone
  <1>10. ASSUME NEW f \in ToRead, NEW k, t1.songs[f].album = k PROVE HasTracks(t2, k)
    BY <1>9, <1>10 DEF HasTracks
  <1>11. /\ "folder" \in DOMAIN old
         /\ LET r == OrNull(old, ids)
            IN  r.mbid = old.mbid /\ (old.folder \in ids => r.folder = old.folder)
    <2>1. Closed(db, folders.ids)
      BY DEF Consistent
    <2>2. DOMAIN old = AlbumFields
      BY <1>2, <1>4, <2>1 DEF Closed
    <2>. QED
      BY <2>2 DEF AlbumFields, OrNull
  <1>12. CASE t1.albums[i].folder = None
    <2>1. ~\E f \in ToRead : t1.songs[f].album = i
      BY <1>4, <1>6, <1>12 DEF Filed
    <2>2. t1.albums[i] = OrNull(old, ids)
      BY <1>2, <1>4, <1>6, <2>1 DEF OldAlbums
    <2>3. old.folder \notin ids
      BY <1>4, <1>11, <1>12, <2>2
    <2>4. i \notin DOMAIN t4.albums
      BY <1>7, <1>8, <1>12 DEF Remains
    <2>. QED
      BY <1>1, <1>2, <2>3, <2>4
  <1>13. ASSUME t1.albums[i].folder # None
         PROVE  s \in t2.stars /\ i \in DOMAIN t2.albums
    BY <1>1, <1>4, <1>6, <1>8, <1>13
  <1>14. CASE t1.albums[i].folder # None /\ HasTracks(t2, i)
    <2>1. i \notin DOMAIN albumTo
      <3>1. i \in DOMAIN albumTo => <<i, albumTo[i]>> \in AlbumsToMigrate(t2)
        BY <1>5, AlbumMigrations
      <3>2. <<i, albumTo[i]>> \in AlbumsToMigrate(t2) => ~HasTracks(t2, i)
        BY DEF AlbumsToMigrate
      <3>. QED
        BY <1>14, <3>1, <3>2
    <2>2. s \in Moved(t2.stars, albumTo)
      BY <1>1, <1>4, <1>13, <1>14, <2>1, MovedStar
    <2>3. s \in t4.stars
      BY <1>4, <1>13, <1>14, <2>2, AlbumStarStays
    <2>. QED
      BY <2>3
  <1>15. ASSUME ~HasTracks(t2, i), t1.albums[i].folder # None
         PROVE  t2.albums[i].mbid = old.mbid
    <2>1. ~\E f \in ToRead : t1.songs[f].album = i
      BY <1>10, <1>15
    <2>2. t1.albums[i] = OrNull(old, ids)
      BY <1>2, <1>4, <1>6, <2>1 DEF OldAlbums
    <2>. QED
      BY <1>9, <1>11, <1>13, <1>15, <2>2
  <1>16. ASSUME NEW j \in DOMAIN t2.albums \ DOMAIN db.albums, ~HasTracks(t2, i),
                t1.albums[i].folder # None,
                t2.albums[j].mbid = t2.albums[i].mbid, t2.albums[i].mbid # None
         PROVE  HasTracks(t2, j) /\ j \in heirs
    <2>1. PICK f \in ToRead : t1.songs[f].album = j
      BY <1>6, <1>9 DEF OldAlbums
    <2>2. HasTracks(t2, j)
      BY <1>10, <2>1
    <2>3. j \in DOMAIN t4.albums /\ t4.albums[j] = t2.albums[j]
      BY <1>7, <2>2 DEF Remains
    <2>4. j \in Successors(db.albums, t4.albums, i)
      BY <1>2, <1>15, <1>16, <2>3 DEF Successors
    <2>. QED
      BY <1>3, <2>2, <2>4
  <1>17. CASE /\ t1.albums[i].folder # None /\ ~HasTracks(t2, i)
              /\ i \in DOMAIN albumTo /\ s \notin missed
    <2>1. PICK j : j = albumTo[i]
      OBVIOUS
    <2>2. <<i, j>> \in AlbumsToMigrate(t2) /\ j \in DOMAIN t2.albums \ DOMAIN db.albums
      BY <1>5, <1>17, <2>1, AlbumMigrations
    <2>3. t2.albums[j].mbid = t2.albums[i].mbid /\ t2.albums[i].mbid # None
      BY <2>2 DEF AlbumsToMigrate
    <2>4. HasTracks(t2, j) /\ j \in heirs
      BY <1>16, <1>17, <2>2, <2>3
    <2>5. <<u, j>> \in Moved(t2.stars, albumTo)
      BY <1>1, <1>4, <1>13, <1>17, <2>1, MovedStar
    <2>6. <<u, j>> \in t4.stars
      BY <2>2, <2>4, <2>5, AlbumStarStays
    <2>. QED
      BY <1>1, <1>3, <2>4, <2>6
  <1>18. CASE t1.albums[i].folder # None /\ ~HasTracks(t2, i) /\ i \notin DOMAIN albumTo
    <2>1. i \notin DOMAIN t4.albums
      BY <1>7, <1>18 DEF Remains
    <2>2. ASSUME Cardinality(heirs) = 1 PROVE FALSE
      <3>1. IsFiniteSet(heirs)
        <4>1. heirs \in SUBSET DOMAIN t4.albums
          BY <1>3 DEF Successors
        <4>. QED
          BY <1>7, <4>1, FS_Subset DEF Numbered
      <3>2. PICK j : heirs = {j}
        BY <2>2, <3>1, FS_Singleton
      <3>3. /\ j \in DOMAIN t4.albums \ DOMAIN db.albums
            /\ t4.albums[j].mbid # None /\ t4.albums[j].mbid = old.mbid
        BY <1>2, <1>3, <3>2 DEF Successors
      <3>4. j \in DOMAIN t2.albums /\ t4.albums[j] = t2.albums[j]
        BY <1>7, <3>3 DEF Remains
      <3>5. t2.albums[i].mbid = old.mbid
        BY <1>15, <1>18
      <3>6. ~\E x \in (DOMAIN t2.albums \ DOMAIN db.albums) \ {j} :
               t2.albums[x].mbid = t2.albums[i].mbid /\ x # i
        BY <1>16, <1>18, <3>2, <3>3, <3>5
      <3>7. <<i, j>> \in AlbumsToMigrate(t2)
        BY <1>4, <1>13, <1>18, <3>3, <3>4, <3>5, <3>6 DEF AlbumsToMigrate
      <3>8. PICK pairs : pairs = AlbumsToMigrate(t2)
        OBVIOUS
      <3>9. DOMAIN albumTo = {p[1] : p \in pairs}
        BY <1>5, <3>8 DEF Heirs
      <3>. QED
        BY <1>18, <3>7, <3>8, <3>9
    <2>. QED
      BY <1>1, <1>3, <2>1, <2>2
  <1>19. CASE t1.albums[i].folder # None /\ ~HasTracks(t2, i) /\ s \in missed
    <2>1. i \notin DOMAIN t4.albums
      BY <1>7, <1>19 DEF Remains
    <2>. QED
      BY <1>1, <1>19, <2>1
  <1>. QED
    BY <1>12, <1>14, <1>17, <1>18, <1>19

\* The values of a function on a finite set.
LEMMA ImageFinite ==
    ASSUME NEW S, IsFiniteSet(S), NEW f
    PROVE  IsFiniteSet({f[x] : x \in S})
  <1>. DEFINE T == {f[x] : x \in S}
              g == [x \in S |-> f[x]]
  <1>1. g \in Surjection(S, T)
    BY DEF Surjection
  <1>. HIDE DEF g, T
  <1>2. IsFiniteSet(T)
    BY <1>1, FS_Surjection
  <1>. QED
    BY <1>2 DEF T

\* A finite set with two elements has more than one.
LEMMA TwoElements ==
    ASSUME NEW S, IsFiniteSet(S), NEW a \in S, NEW b \in S, a # b
    PROVE  Cardinality(S) > 1
  <1>1. IsFiniteSet({a}) /\ Cardinality({a}) = 1
    BY FS_Singleton
  <1>2. PICK P : P = {a} \cup {b}
    OBVIOUS
  <1>3. IsFiniteSet(P) /\ Cardinality(P) = 2
    BY <1>1, <1>2, FS_AddElement
  <1>4. P \in SUBSET S
    BY <1>2
  <1>5. Cardinality(P) <= Cardinality(S) /\ Cardinality(S) \in Nat
    BY <1>4, FS_Subset, FS_CardinalityType
  <1>. QED
    BY <1>3, <1>5

\* The artists a file names are finitely many.
LEMMA FileTagsFinite ==
    ASSUME Consistent, scan.pc = "run", NEW f \in ToRead
    PROVE  IsFiniteSet(ToSet(disk[f].artists \o disk[f].albumArtists))
  <1>1. PICK as, bs : as = disk[f].artists /\ bs = disk[f].albumArtists
    OBVIOUS
  <1>2. disk[f] \in Tags
    BY FileToRead
  <1>3. as \in Seq(ToSet(as)) /\ bs \in Seq(ToSet(bs))
    BY <1>1, <1>2, CatalogAssumption
  <1>4. PICK U : U = ToSet(as) \cup ToSet(bs)
    OBVIOUS
  <1>5. as \in Seq(U) /\ bs \in Seq(U)
    <2>1. ASSUME NEW A, NEW B, A \subseteq B, NEW q \in Seq(A) PROVE q \in Seq(B)
      BY <2>1
    <2>2. PICK A, B : A = ToSet(as) /\ B = ToSet(bs)
      OBVIOUS
    <2>. QED
      BY <1>3, <1>4, <2>1, <2>2
  <1>6. PICK l : l = as \o bs
    OBVIOUS
  <1>7. l \in Seq(U)
    <2>1. ASSUME NEW p \in Seq(U), NEW q \in Seq(U) PROVE p \o q \in Seq(U)
      OBVIOUS
    <2>. QED
      BY <1>5, <1>6, <2>1
  <1>8. PICK n \in Nat : DOMAIN l = 1 .. n
    BY <1>7
  <1>9. IsFiniteSet(1 .. n)
    BY <1>8, FS_Interval
  <1>10. IsFiniteSet({l[k] : k \in 1 .. n})
    BY <1>9, ImageFinite
  <1>11. ToSet(l) = {l[k] : k \in 1 .. n}
    BY <1>8 DEF ToSet
  <1>. QED
    BY <1>1, <1>6, <1>10, <1>11

\* And so are the names the files read give to an artist.
LEMMA NamesFinite ==
    ASSUME Consistent, scan.pc = "run", NEW mbid
    PROVE  /\ IsFiniteSet(NamesRead(mbid))
           /\ \A a \in TagsOf(ToRead) : a.mbid = mbid => a.name \in NamesRead(mbid)
  <1>1. IsFiniteSet(ToRead)
    <2>1. ToRead \in SUBSET Files
      BY DEF ToRead
    <2>. QED
      BY <2>1, CatalogAssumption, FS_Subset
  <1>. DEFINE tags == [f \in ToRead |-> ToSet(disk[f].artists \o disk[f].albumArtists)]
  <1>2. \A f \in ToRead : tags[f] = ToSet(disk[f].artists \o disk[f].albumArtists)
                          /\ IsFiniteSet(tags[f])
    BY FileTagsFinite
  <1>3. PICK tg : tg = tags
    OBVIOUS
  <1>. HIDE DEF tags
  <1>4. PICK all : all = {tg[f] : f \in ToRead}
    OBVIOUS
  <1>5. IsFiniteSet(all)
    BY <1>1, <1>4, ImageFinite
  <1>6. IsFiniteSet(UNION all)
    BY <1>2, <1>3, <1>4, <1>5, FS_UNION
  <1>7. TagsOf(ToRead) = UNION all
    BY <1>2, <1>3, <1>4 DEF TagsOf
  <1>8. PICK T : T = {b \in TagsOf(ToRead) : b.mbid = mbid}
    OBVIOUS
  <1>9. IsFiniteSet(T)
    BY <1>6, <1>7, <1>8, FS_Subset
  <1>10. PICK nm : nm = [a \in T |-> a.name]
    OBVIOUS
  <1>11. IsFiniteSet({nm[a] : a \in T})
    BY <1>9, ImageFinite
  <1>12. {nm[a] : a \in T} = {a.name : a \in T}
    BY <1>10
  <1>13. NamesRead(mbid) = {a.name : a \in T}
    BY <1>8 DEF NamesRead, TagsOf
  <1>. QED
    BY <1>8, <1>11, <1>12, <1>13

\* An artist with annotations is in the tables, or has its successor in them, or
\* there are several names for them.
LEMMA ArtistAnnotations ==
    ASSUME Consistent, scan.pc = "run", NEW t1, NEW t2, NEW t3, NEW t4, NEW albumTo,
           NEW artistTo, Ending(t1, t2, t3, t4, albumTo, artistTo),
           NEW s \in db.stars, s[2] \notin DOMAIN db.albums
    PROVE  LET heirs == Successors(db.artists, t4.artists, s[2])
           IN  \/ s \in t4.stars
               \/ \E j \in heirs : <<s[1], j>> \in t4.stars
               \/ /\ s[2] \notin DOMAIN t4.artists
                  /\ \/ s \in missed
                     \/ heirs = {}
                     \/ Cardinality(NamesRead(db.artists[s[2]].mbid)) > 1
  <1>1. PICK u, i : u = s[1] /\ i = s[2]
    OBVIOUS
  <1>2. PICK old : old = db.artists[i]
    OBVIOUS
  <1>3. PICK heirs : heirs = Successors(db.artists, t4.artists, i)
    OBVIOUS
  <1>4. s = <<u, i>> /\ s = <<s[1], s[2]>> /\ i \in DOMAIN db.artists
    BY <1>1 DEF Consistent, Annotated
  <1>5. /\ t2 = DeleteOrphanedSongs(t1, scan.full, ToRead) /\ ReadTables(t1, ToRead)
        /\ ~Dangles(t1) /\ albumTo \in Heirs(AlbumsToMigrate(t2))
        /\ t3 = CleanAlbums(t2, albumTo)
        /\ artistTo \in Heirs(ArtistsToMigrate(t3)) /\ t4 = CleanArtists(t3, artistTo)
    BY DEF Ending
  <1>6. /\ DOMAIN t1 = TableFields /\ t1.stars = db.stars /\ Numbered(t1)
        /\ DOMAIN db.artists \subseteq DOMAIN t1.artists
        /\ NewArtists(t1, ToRead)
    BY <1>5 DEF ReadTables
  <1>7. i \in DOMAIN t1.artists /\ i \notin DOMAIN t1.albums /\ t1.artists[i] = old
    BY <1>2, <1>4, <1>6 DEF NewArtists, Numbered
  <1>8. /\ DOMAIN t2 = TableFields /\ t2.artists = t1.artists
        /\ DOMAIN t2.albums = {k \in DOMAIN t1.albums : t1.albums[k].folder # None}
        /\ t2.stars = {r \in t1.stars : r[2] \in DOMAIN t1.albums => t1.albums[r[2]].folder # None}
    BY <1>5, <1>6, OrphansDeleted
  <1>9. s \in t2.stars /\ i \notin DOMAIN t2.albums
    BY <1>1, <1>6, <1>7, <1>8
  <1>10. i \notin DOMAIN albumTo
    BY <1>5, <1>9, AlbumMigrations
  <1>11. s \in Moved(t2.stars, albumTo)
    BY <1>1, <1>4, <1>9, <1>10, MovedStar
  <1>12. /\ DOMAIN t3 = TableFields /\ t3.artists = t1.artists
         /\ t3.stars = {r \in Moved(t2.stars, albumTo) :
                           ~(r[2] \in DOMAIN t2.albums /\ ~HasTracks(t2, r[2]))}
    <2>1. t3 = CleanAlbums(t2, albumTo) /\ DOMAIN t2 = TableFields
      BY <1>5, <1>8
    <2>2. /\ DOMAIN t3 = TableFields /\ t3.artists = t2.artists
          /\ t3.stars = {r \in Moved(t2.stars, albumTo) :
                            ~(r[2] \in DOMAIN t2.albums /\ ~HasTracks(t2, r[2]))}
      BY <2>1, AlbumsCleaned
    <2>. QED
      BY <1>8, <2>2
  <1>13. s \in t3.stars
    BY <1>1, <1>9, <1>11, <1>12
  <1>14. /\ DOMAIN t4.artists = {a \in DOMAIN t3.artists : HasWork(t3, a)}
         /\ \A a \in DOMAIN t4.artists : t4.artists[a] = t3.artists[a]
         /\ t4.stars = {r \in Moved(t3.stars, artistTo) :
                           ~(r[2] \in DOMAIN t3.artists /\ ~HasWork(t3, r[2]))}
    <2>1. t4 = CleanArtists(t3, artistTo) /\ DOMAIN t3 = TableFields
      BY <1>5, <1>12
    <2>. QED
      BY <2>1, ArtistsCleaned
  <1>15. CASE HasWork(t3, i)
    <2>1. i \notin DOMAIN artistTo
      <3>1. i \in DOMAIN artistTo => <<i, artistTo[i]>> \in ArtistsToMigrate(t3)
        BY <1>5, ArtistMigrations
      <3>2. <<i, artistTo[i]>> \in ArtistsToMigrate(t3) => ~HasWork(t3, i)
        BY DEF ArtistsToMigrate
      <3>. QED
        BY <1>15, <3>1, <3>2
    <2>2. s \in Moved(t3.stars, artistTo)
      BY <1>1, <1>4, <1>13, <2>1, MovedStar
    <2>. QED
      BY <1>1, <1>14, <1>15, <2>2
  <1>16. CASE ~HasWork(t3, i) /\ i \in DOMAIN artistTo /\ s \notin missed
    <2>1. PICK b : b = artistTo[i]
      OBVIOUS
    <2>2. <<i, b>> \in ArtistsToMigrate(t3) /\ b \in DOMAIN t3.artists \ DOMAIN db.artists
      BY <1>5, <1>16, <2>1, ArtistMigrations
    <2>3. t1.artists[b].mbid = old.mbid /\ old.mbid # None
      BY <1>7, <1>12, <2>2 DEF ArtistsToMigrate
    <2>4. <<u, b>> \in Moved(t3.stars, artistTo)
      BY <1>1, <1>4, <1>13, <1>16, <2>1, MovedStar
    <2>5. CASE HasWork(t3, b)
      <3>1. b \in DOMAIN t4.artists /\ t4.artists[b] = t1.artists[b]
        BY <1>12, <1>14, <2>2, <2>5
      <3>2. b \in heirs
        BY <1>2, <1>3, <2>2, <2>3, <3>1 DEF Successors
      <3>3. PICK r : r = <<u, b>>
        OBVIOUS
      <3>4. r \in t4.stars
        BY <1>14, <2>4, <2>5, <3>3
      <3>. QED
        BY <1>1, <1>3, <3>2, <3>3, <3>4
    <2>6. CASE ~HasWork(t3, b)
      <3>1. i \notin DOMAIN t4.artists
        BY <1>14, <1>16
      <3>2. ASSUME NEW c \in heirs PROVE Cardinality(NamesRead(old.mbid)) > 1
        <4>1. c \in DOMAIN t4.artists \ DOMAIN db.artists /\ t4.artists[c].mbid = old.mbid
          BY <1>2, <1>3 DEF Successors
        <4>2. /\ c \in DOMAIN t1.artists \ DOMAIN db.artists /\ c # b
              /\ t1.artists[c].mbid = old.mbid
          BY <1>12, <1>14, <2>6, <4>1
        <4>3. b \in DOMAIN t1.artists \ DOMAIN db.artists
          BY <1>12, <2>2
        <4>4. /\ t1.artists[b] \in TagsOf(ToRead) /\ t1.artists[c] \in TagsOf(ToRead)
              /\ t1.artists[b].name # t1.artists[c].name
          BY <1>6, <2>3, <4>2, <4>3 DEF NewArtists
        <4>5. PICK N : N = NamesRead(old.mbid)
          OBVIOUS
        <4>6. IsFiniteSet(N) /\ t1.artists[b].name \in N /\ t1.artists[c].name \in N
          BY <2>3, <4>2, <4>4, <4>5, NamesFinite
        <4>7. Cardinality(N) > 1
          BY <4>4, <4>6, TwoElements
        <4>. QED
          BY <4>5, <4>7
      <3>. QED
        BY <1>1, <1>2, <1>3, <3>1, <3>2
    <2>. QED
      BY <2>5, <2>6
  <1>17. CASE ~HasWork(t3, i) /\ i \notin DOMAIN artistTo
    <2>1. i \notin DOMAIN t4.artists
      BY <1>14, <1>17
    <2>2. ASSUME NEW c \in heirs PROVE FALSE
      <3>1. /\ c \in DOMAIN t4.artists \ DOMAIN db.artists
            /\ t4.artists[c].mbid # None /\ t4.artists[c].mbid = old.mbid
        BY <1>2, <1>3 DEF Successors
      <3>2. c \in DOMAIN t3.artists /\ t4.artists[c] = t3.artists[c]
        BY <1>14, <3>1
      <3>3. i \in DOMAIN t3.artists /\ t3.artists[i] = old
        BY <1>7, <1>12
      <3>4. <<i, c>> \in ArtistsToMigrate(t3)
        BY <1>4, <1>17, <3>1, <3>2, <3>3 DEF ArtistsToMigrate
      <3>5. PICK pairs : pairs = ArtistsToMigrate(t3)
        OBVIOUS
      <3>6. DOMAIN artistTo = {p[1] : p \in pairs}
        BY <1>5, <3>5 DEF Heirs
      <3>. QED
        BY <1>17, <3>4, <3>5, <3>6
    <2>. QED
      BY <1>1, <1>3, <2>1, <2>2
  <1>18. CASE ~HasWork(t3, i) /\ s \in missed
    <2>1. i \notin DOMAIN t4.artists
      BY <1>14, <1>18
    <2>. QED
      BY <1>1, <1>18, <2>1
  <1>. QED
    BY <1>15, <1>16, <1>17, <1>18

(* KeepsAnnotations: the annotations of an album or artist survive a scan,   *)
(* on the row or on the only successor the scan has created, those set while *)
(* it runs included unless they came after its migration, for any files,     *)
(* tags, configurations and users and any order the files are read in        *)
(* (cleanAlbums, cleanArtists).                                              *)
THEOREM KeepsAnnotationsHolds ==
    Spec => KeepsAnnotations
  <1>. DEFINE A == Commits => \A s \in db.stars :
        LET table == IF s[2] \in DOMAIN db.albums THEN "albums" ELSE "artists"
            old == db[table][s[2]]
            heirs == {i \in DOMAIN db'[table] \ DOMAIN db[table] :
                         db'[table][i].mbid # None /\ db'[table][i].mbid = old.mbid}
        IN  \/ s \in db'.stars
            \/ \E i \in heirs : <<s[1], i>> \in db'.stars
            \/ /\ s[2] \notin DOMAIN db'[table]
               /\ \/ s \in missed
                  \/ IF table = "albums"
                     THEN Cardinality(heirs) # 1 \/ old.folder \notin folders'.ids
                     ELSE heirs = {} \/ Cardinality(NamesRead(old.mbid)) > 1
  <1>1. AccessInv /\ Consistent /\ [Next]_vars => A
    <2>. SUFFICES ASSUME AccessInv, Consistent, [Next]_vars, Commits, NEW s \in db.stars
                  PROVE  LET table == IF s[2] \in DOMAIN db.albums THEN "albums" ELSE "artists"
                             old == db[table][s[2]]
                             heirs == {i \in DOMAIN db'[table] \ DOMAIN db[table] :
                                          db'[table][i].mbid # None /\ db'[table][i].mbid = old.mbid}
                         IN  \/ s \in db'.stars
                             \/ \E i \in heirs : <<s[1], i>> \in db'.stars
                             \/ /\ s[2] \notin DOMAIN db'[table]
                                /\ \/ s \in missed
                                   \/ IF table = "albums"
                                      THEN \/ Cardinality(heirs) # 1
                                           \/ old.folder \notin folders'.ids
                                      ELSE \/ heirs = {}
                                           \/ Cardinality(NamesRead(old.mbid)) > 1
      OBVIOUS
    <2>1. PICK t1, t2, t3, t4, albumTo, artistTo :
              /\ Ending(t1, t2, t3, t4, albumTo, artistTo)
              /\ Committed(t1, t4)
      BY OnlyCommits
    <2>2. scan.pc = "run"
      BY DEF Commits
    <2>3. db' = t4 /\ folders'.ids = scan.load.ids
      BY <2>1, <2>2, FoldersCommitted
    <2>4. CASE s[2] \in DOMAIN db.albums
      <3>1. LET heirs == Successors(db.albums, t4.albums, s[2])
            IN  \/ s \in t4.stars
                \/ \E j \in heirs : <<s[1], j>> \in t4.stars
                \/ /\ s[2] \notin DOMAIN t4.albums
                   /\ \/ s \in missed
                      \/ Cardinality(heirs) # 1
                      \/ db.albums[s[2]].folder \notin scan.load.ids
        BY <2>1, <2>2, <2>4, AlbumAnnotations
      <3>2. Successors(db.albums, t4.albums, s[2])
              = {i \in DOMAIN db'.albums \ DOMAIN db.albums :
                    db'.albums[i].mbid # None /\ db'.albums[i].mbid = db.albums[s[2]].mbid}
        BY <2>3, Zenon DEF Successors
      <3>. QED
        BY <2>3, <2>4, <3>1, <3>2, Zenon
    <2>5. CASE s[2] \notin DOMAIN db.albums
      <3>1. LET heirs == Successors(db.artists, t4.artists, s[2])
            IN  \/ s \in t4.stars
                \/ \E j \in heirs : <<s[1], j>> \in t4.stars
                \/ /\ s[2] \notin DOMAIN t4.artists
                   /\ \/ s \in missed
                      \/ heirs = {}
                      \/ Cardinality(NamesRead(db.artists[s[2]].mbid)) > 1
        BY <2>1, <2>2, <2>5, ArtistAnnotations
      <3>2. Successors(db.artists, t4.artists, s[2])
              = {i \in DOMAIN db'.artists \ DOMAIN db.artists :
                    db'.artists[i].mbid # None /\ db'.artists[i].mbid = db.artists[s[2]].mbid}
        BY <2>3, Zenon DEF Successors
      <3>. QED
        BY <2>3, <2>5, <3>1, <3>2, Zenon
    <2>. QED
      BY <2>4, <2>5
  <1>2. AccessInv /\ Consistent /\ [Next]_vars => [A]_vars
    BY <1>1
  <1>. QED
    BY <1>2, AccessInvInvariant, ConsistentInvariant, PTL DEF Spec, KeepsAnnotations
=============================================================================
