SPECIFICATION Spec
CONSTANTS
    CmdBufCount = 2
    RingSize = 7
    UniformSize = 1
    MaxGenerations = 3
    MaxUpdates = 1
    MaxDraws = 2
CHECK_DEADLOCK FALSE
INVARIANTS
    TypeOK
    ReservedWhilePending
    UntornIfOwn
    NeverOverflows
