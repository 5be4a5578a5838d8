SPECIFICATION Spec
CONSTANTS
    NoFile = NoFile
    NoKey = NoKey
    Keys = {k1}
    Requests = {r1, r2}
    Ids = {1, 2}
    Total = 1
    MaxMishaps = 1
    Graceful = TRUE
    Scanning = TRUE
SYMMETRY RequestSymmetry
VIEW Reachable
INVARIANTS
    TypeOK
    MappedOwnsFile
    MarkerVouches
    WaitersAccounted
