SPECIFICATION Spec
CONSTANTS
    Keyboards <- StrayKeyboards
    Encoding <- KeyBytes
    IsOpen <- TextOpen
    IsWordChar <- WordChar
    Width <- Columns
    Prompt <- PromptText
    IsMultiline = TRUE
    SplitsSequences = FALSE
    FirstFiles <- EmptyFile
    MaxKeys = 4
    MaxPending = 2
    MaxRestarts = 1
CHECK_DEADLOCK FALSE
PROPERTIES
    CorruptedByteConsumed
