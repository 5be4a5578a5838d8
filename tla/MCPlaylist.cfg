SPECIFICATION Spec
CONSTANTS
    s1 = s1
    s2 = s2
    s3 = s3
    Scan = Scan
    NoRow = NoRow
    NoTx = NoTx
    Clients = {c1, c2}
    Songs = {s1, s2, s3}
    MaxRows = 4
    MaxTrack = 4
    Lists <- ThreeSongs
    Removals <- FewIndices
    Adds <- NothingOrOne
    Purges <- FewPurges
    MaxEdits = 2
    MaxScans = 2
CHECK_DEADLOCK FALSE
SYMMETRY ClientSymmetry
INVARIANTS
    TypeOK
    Contiguous
PROPERTIES
    ImplementsList
    EditsExactly
