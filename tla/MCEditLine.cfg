SPECIFICATION Spec
CONSTANTS
    Keyboards <- AllKeyboards
    Encoding <- KeyBytes
    IsOpen <- TextOpen
    IsWordChar <- WordChar
    Width <- Columns
    Prompt <- PromptText
    IsMultiline = TRUE
    SplitsSequences = FALSE
    FirstFiles <- Files
    MaxKeys = 4
    MaxPending = 2
    MaxRestarts = 1
CHECK_DEADLOCK FALSE
INVARIANTS
    ShowsContent
PROPERTIES
    Implements
    KeysHandled
