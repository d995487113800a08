SPECIFICATION IterationSpec
CONSTANTS
    Value = {a, b}
    Nothing = nothing
    ChunkSize = 2
    MaxChunks = 2
    MaxTenant = 1
INVARIANTS
    TypeOK
    FreeListExact
    NoneSkipped
PROPERTY
    WeakMapSpec
