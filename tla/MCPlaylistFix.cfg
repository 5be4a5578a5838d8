SPECIFICATION Spec
CONSTANTS
    s1 = s1
    s2 = s2
    s3 = s3
    Scan = Scan
    NoRow = NoRow
    NoTx = NoTx
    Clients = {}
    Songs = {s1, s2, s3}
    MaxRows = 3
    MaxTrack = 4
    Lists <- ThreeSongs
    Removals <- FewIndices
    Adds <- NothingOrOne
    Purges <- FewPurges
    MaxEdits = 0
    MaxScans = 1
CHECK_DEADLOCK FALSE
INVARIANT FixKeepsKeys
