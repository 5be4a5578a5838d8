---------------------------- MODULE MusicFolders ----------------------------
(***************************************************************************)
(* Who may use which music folder: the music dirs of the configuration     *)
(* (src/config/music_dirs.go), the tables music_folders and                *)
(* music_folder_users, which a scan rewrites when it sees that the         *)
(* configuration has changed (src/scanner/music_dirs.go), and the admin    *)
(* command that creates and deletes users (src/cmd/admin/users.go) while a *)
(* scan may be running.                                                    *)
(*                                                                         *)
(* A scan is one transaction, so what it writes shows when it commits.     *)
(* This module has the part of it that is about folders; Catalog has the   *)
(* rest.  A music folder's id is its position in the configuration.        *)
(***************************************************************************)
EXTENDS Integers, FiniteSets, Sequences, SequencesExt

CONSTANTS
    Dirs,       \* directories that may be configured
    Names,      \* user names
    Configs,    \* configurations: sequences of [dir, users]
    None        \* no value: an absent users list, tag, album or folder

ASSUME FoldersAssumption ==
    /\ \A c \in Configs : \A i \in DOMAIN c :
           c[i].dir \in Dirs /\ (c[i].users = None \/ c[i].users \subseteq Names)
    /\ \A c \in Configs : \A i, j \in DOMAIN c : c[i].dir = c[j].dir => i = j
    /\ \A c \in Configs : DOMAIN c \subseteq Nat
    /\ None \notin Int

VARIABLES
    config,     \* the configuration the server and the admin command read
    users,      \* the users table
    folders,    \* [stored, ids, access]: music-dir-config of the system table,
                \* music_folders and music_folder_users
    loaded,     \* the configuration of the last scan that committed
    excused     \* what AccessFollowsConfig excepts: [blurred, late]

folderVars == <<config, users, folders, loaded, excused>>

\* The text stored as music-dir-config: paths and users, in order.  A dir
\* without a users list and one with an empty list give the same text.
GenerateMusicDirConfigString(c) ==
    [i \in DOMAIN c |-> <<c[i].dir, IF c[i].users = None THEN {} ELSE c[i].users>>]

InitFolders(configs, first) ==
    /\ config \in configs
    /\ users = first
    /\ folders = [stored |-> None, ids |-> {}, access |-> {}]
    /\ loaded = <<>>
    /\ excused = [blurred |-> FALSE, late |-> {}]

\* The users a dir is for: all there are, or the ones it lists.
UsersOf(dir, all) == IF dir.users = None THEN all ELSE dir.users

Granted(c, all) == {r \in (DOMAIN c) \X all : r[2] \in UsersOf(c[r[1]], all)}

-----------------------------------------------------------------------------
(* The part of LoadMusicDirs and of a commit.  *)

ConfigChanged(c) == folders.stored # GenerateMusicDirConfigString(c)

\* A dir lists a user that does not exist: LoadMusicDirs returns an error.
UnknownUser(c) == \E i \in DOMAIN c : c[i].users # None /\ ~(c[i].users \subseteq users)

\* Mutant: the users' old rows stay.
LoadMusicDirsKeeping(c, full) ==
    IF ConfigChanged(c) \/ full
    THEN [rewrites |-> TRUE, config |-> c, deleted |-> {},
          ids |-> DOMAIN c, access |-> Granted(c, users), seen |-> users]
    ELSE [rewrites |-> FALSE, config |-> c, deleted |-> {},
          ids |-> folders.ids, access |-> {}, seen |-> users]

\* LoadMusicDirs rewrites the tables for the configuration c, in the
\* transaction of a scan: what it will commit, the rows it has deleted, and the
\* users it has seen (less those that are deleted before it commits).
LoadMusicDirs(c, full) ==
    IF ConfigChanged(c) \/ full
    THEN [rewrites |-> TRUE, config |-> c, deleted |-> folders.access,
          ids |-> DOMAIN c, access |-> Granted(c, users), seen |-> users]
    ELSE [rewrites |-> FALSE, config |-> c, deleted |-> {},
          ids |-> folders.ids, access |-> {}, seen |-> users]

\* A row another transaction has inserted since the deletion stays.
FoldersAfter(load) ==
    IF load.rewrites
    THEN [stored |-> GenerateMusicDirConfigString(load.config),
          ids    |-> load.ids,
          access |-> (folders.access \ load.deleted) \cup load.access]
    ELSE folders

\* The folder part of a commit.  The scan has not seen the change when the text
\* is the same and the configuration is not.
CommitFolders(load) ==
    /\ folders' = FoldersAfter(load)
    /\ loaded' = load.config
    /\ excused' = [blurred |-> ~load.rewrites
                               /\ (excused.blurred \/ load.config # loaded),
                   late    |-> IF load.rewrites
                               THEN {u \in users \ load.seen :
                                        u \in excused.late \/ load.config # loaded}
                               ELSE excused.late]
    /\ UNCHANGED <<config, users>>

-----------------------------------------------------------------------------
(* The administrator.  *)

\* External: the configuration file is edited and the server restarted, or the
\* file is edited under the running server, which reads it at every scan.
Configure(c) ==
    /\ c # config
    /\ config' = c
    /\ UNCHANGED <<users, folders, loaded, excused>>

\* users create.  The folders of the new user are written only if the
\* configuration is the one of the last scan.
CreateUser(u) ==
    /\ u \notin users
    /\ users' = users \cup {u}
    /\ folders' = IF ConfigChanged(config) THEN folders
                  ELSE [folders EXCEPT !.access = @ \cup Granted(config, {u})]
    /\ excused' = [excused EXCEPT !.late = IF config # loaded THEN @ \cup {u} ELSE @]
    /\ UNCHANGED <<config, loaded>>

\* users delete: the rows of the user go with it.  It waits for a scan that
\* has written or deleted rows of this user (waiting is the set of those users).
DeleteUser(u, waiting) ==
    /\ u \in users \ waiting
    /\ users' = users \ {u}
    /\ folders' = [folders EXCEPT !.access = {r \in @ : r[2] # u}]
    /\ excused' = [excused EXCEPT !.late = @ \ {u}]
    /\ UNCHANGED <<config, loaded>>

Accessible(u) == {i \in folders.ids : <<i, u>> \in folders.access}

-----------------------------------------------------------------------------
(* Once a scan has committed, a user has access to exactly the folders that  *)
(* the configuration this scan read grants them, whatever users were created *)
(* or deleted and whatever the configuration has become since.  Excepted are *)
(* a user created under another configuration than that one (the command     *)
(* warns of it) or while a scan was storing another one, which has read the  *)
(* users before, and a change between no users list and an empty one, which  *)
(* no scan but a full one sees (src/scanner/music_dirs.go:15,                *)
(* src/cmd/admin/users.go:75).                                               *)
AccessFollowsConfig ==
    ~excused.blurred =>
        \A u \in users \ excused.late :
            Accessible(u) = {i \in DOMAIN loaded : u \in UsersOf(loaded[i], users)}
=============================================================================
