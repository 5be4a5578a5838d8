SPECIFICATION FairSpec
CONSTANTS
    Workers = {w1}
    Dirs = 3
    Files = 1
    Batch = 1
    CoverWorkers = 1
    TagWorkers = 1
    Failures = {"walk", "file", "save", "tag", "cover", "finish"}
CHECK_DEADLOCK FALSE
PROPERTY ScanEnds
