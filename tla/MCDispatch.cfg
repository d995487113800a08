SPECIFICATION Spec
CONSTANTS
    None = none
    d1 = d1
    d2 = d2
    f = f
    g = g
    DirName = {d1, d2}
    FileName = {f, g}
    Path <- MCPath
    FirstDir = d1
    MaxChanges = 3
    MaxWatches = 2
INVARIANTS
    TypeOK
    WatchesExact
    NoneLost
    HandledStays
    SafeUnlessInterrupted
PROPERTIES
    StoppedFinal
    Delivered
    Destroyed
