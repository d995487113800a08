SPECIFICATION Spec
CONSTANTS
    Flags <- AllFlags
    Values <- AllValues
    Default = "default"
    Unset = "unset"
    Characters <- AllCharacters
    Blank = "blank"
    Wide = {}
    MaxBlanks = 255
    NewLine = "nl"
    Texts <- AllTexts
    Pens <- AllPens
    Sizes <- AllSizes
    FirstSize <- First
    FirstLines <- AllFirstLines
    MaxColumn = 2
    MaxOps = 3
CHECK_DEADLOCK FALSE
INVARIANTS
    TypeOK
    CursorOnLine
    BelowPageEmpty
PROPERTIES
    ShowsScreen
