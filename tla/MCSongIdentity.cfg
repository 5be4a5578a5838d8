SPECIFICATION Spec
CONSTANTS
    p1 = p1
    p2 = p2
    p3 = p3
    d1 = d1
    d2 = d2
    Paths <- MCPaths
    DirOf <- MCDirOf
    Metas <- MCMetas
    Ids = {1, 2, 3, 4, 5}
    NoFile = NoFile
    None = None
    Batch = 2
    PageSize = 1
    MaxEdits = 2
    MaxScans = 2
SYMMETRY PathSymmetry
CHECK_DEADLOCK FALSE
PROPERTIES
    ListsOnlyFiles
    ListsEveryFile
    KeepsSong
    UpToDate
    FailsOnTakenPath
