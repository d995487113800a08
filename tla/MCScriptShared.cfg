SPECIFICATION Spec
CONSTANTS
    ProgramSize = 0
    NumStatics = 2
    Programs <- Shared
INVARIANTS
    InstancesCounted
