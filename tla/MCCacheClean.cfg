SPECIFICATION CleanSpec
CONSTANTS
    NoObject = NoObject
    Objects = {o1, o2, o3}
    Sizes = {1, 5, 7}
    MaxSize = 2
    HalfHour = 1
    MaxUnused = 2
SYMMETRY ObjectSymmetry
CHECK_DEADLOCK FALSE
INVARIANTS
    TotalExact
    CleanBounded
    EvictsOldestFirst
