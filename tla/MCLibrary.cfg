SPECIFICATION Spec
CONSTANTS
  f1 = f1 f2 = f2 d1 = d1 d2 = d2 u1 = u1 u2 = u2
  None = None
  Files <- MCFiles
  DirOf <- MCDirOf
  Dirs = {d1, d2}
  Names = {u1, u2}
  Configs <- MCConfigs
  FirstConfigs <- MCFirstConfigs
  Tags <- MCTags
  Requested <- MCRequested
  FirstUsers = {u1}
  MaxEdits = 2
  MaxAdmin = 1
  MaxScans = 2
INVARIANTS AccessFollowsConfig NoDeadLinks OnlyOwnArtists SongsAreFound
PROPERTIES ReadIntoOwnFolder KeepsAnnotations
CHECK_DEADLOCK FALSE
