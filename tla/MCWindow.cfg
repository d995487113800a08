SPECIFICATION Spec
CONSTANTS
    CmdBufCount = 2
    Modes <- AllModes
    Effects <- AllEffects
    MaxEvents = 2
    MaxInputs = 2
CHECK_DEADLOCK FALSE
INVARIANTS
    RecordedIdle
    FinishedIdle
PROPERTIES
    ClosesUnlessAbandoned
    RefreshDrawn
    TimeoutHonoured
