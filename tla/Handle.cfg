SPECIFICATION CallsSpec
CONSTANTS
  Handles = {h1, h2, h3}
  ImplStops = TRUE
  Texts = {t1}
  Objects = {o1, o2}
  Levels <- AllLevels
  Custom = Custom
  NoLevel = NoLevel
  NoText = NoText
  MaxCalls = 2
SYMMETRY Symmetric
CHECK_DEADLOCK FALSE
INVARIANTS
  CallsTypeOK
  CleanDestruction
  LevelAsAsked
  TextOnce
PROPERTY
  OthersKeepRunning
