SPECIFICATION Spec
CONSTANTS
    Workers = {w1, w2}
    Dirs = 3
    Files = 1
    Batch = 2
    CoverWorkers = 1
    TagWorkers = 1
    Failures = {"walk", "file", "save", "tag", "cover", "finish"}
CHECK_DEADLOCK FALSE
INVARIANTS
    TypeOK
    CommitsWhole
    CommitsLast
    PanicsExplained
SYMMETRY WorkerSymmetry
