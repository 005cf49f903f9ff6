SPECIFICATION LifetimeSpec
CONSTANTS
  Clients = {c1, c2, c3}
  Workers = {w1}
  Messages = {m1, m2, m3}
  MaxEntryCount = 2
  Methods = {"start", "stop", "signalStop", "join"}
  SinkKinds = {"TRASCENDENT"}
  SinkMayBreak = FALSE
  SpawnMayFail = TRUE
  Killer = Killer
  NoThread = NoThread
  NoMessage = NoMessage
SYMMETRY Symmetric
INVARIANTS
  LifetimeTypeOK
  LinesIntact
  LinesInOrder
  NothingOutlivesLogger
  NeverTerminates
PROPERTIES
  QuietAfterStop
  DestructorsStopTheLast
