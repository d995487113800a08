SPECIFICATION Spec
CONSTANTS
  CmdBufCount = 2
  Modes <- AllModes
  Effects <- AllEffects
  MaxEvents = 2
  MaxInputs = 1
PROPERTY Closes
CHECK_DEADLOCK FALSE
