SPECIFICATION FairSpec
CONSTANTS
    NoFile = NoFile
    NoKey = NoKey
    Keys = {k1}
    Requests = {r1}
    Ids = {1, 2}
    Total = 1
    MaxMishaps = 1
    Graceful = FALSE
    Scanning = TRUE
PROPERTIES
    WritableReleased
    IncompleteResolves
