SPECIFICATION FairSpec
CONSTANTS
    Worker = {w1, w2}
    Main = main
    None = none
    root = root
    sub = sub
    file = file
    other = other
    second = second
    Node <- MCNode
    Entries <- MCEntries
    MaybeDir <- MCMaybeDir
    Inputs <- MCInputs
CHECK_DEADLOCK FALSE
INVARIANTS
    TypeOK
    BusyExact
    NoEarlyExit
    DescriptorOwned
    RefsExact
PROPERTIES
    WalkSpec
    WalkCompletes
    JoinedUnlessRace
