SPECIFICATION Spec
CONSTANTS
  Clients = {c1}
  Workers = {w1}
  Messages = {m1}
  MaxEntryCount = 1
  Methods = {"start", "stop", "signalStop", "join"}
  SinkKinds = {"STOPPED"}
  SinkMayBreak = FALSE
  SpawnMayFail = FALSE
  Killer = Killer
  NoThread = NoThread
  NoMessage = NoMessage
PROPERTY
  StopFlushes
