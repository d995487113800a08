SPECIFICATION Spec
CONSTANTS
    ProgramSize = 2
    NumStatics = 2
    Programs <- MCPrograms
INVARIANTS
    RefsExact
    MemorySafeUnlessShared
    ReturnsToCaller
    ResultCorrect
