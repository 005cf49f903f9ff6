SPECIFICATION BoundedSpec
CONSTANTS
  Clients = {c1, c2}
  Workers = {w1, w2}
  Messages = {m1, m2}
  MaxEntryCount = 1
  Methods = {"start", "stop", "signalStop", "join"}
  SinkKinds = {"STOPPED"}
  SinkMayBreak = FALSE
  SpawnMayFail = FALSE
  Killer = Killer
  NoThread = NoThread
  NoMessage = NoMessage
  MaxEvents = 4
CHECK_DEADLOCK FALSE
PROPERTIES
  CallsReturn
  DrainedByLiveWorker
