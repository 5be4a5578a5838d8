SPECIFICATION Spec
CONSTANTS
    NoFile = NoFile
    Created = Created
    Opened = Opened
    Readers = {r1, r2, r3}
    MaxBytes = 2
SYMMETRY ReaderSymmetry
INVARIANTS
    TypeOK
    ReaderCountExact
    NoLostWakeup
    OffsetWithinSize
    FileOutlivesReaders
