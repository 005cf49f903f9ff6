SPECIFICATION Spec
CONSTANTS
  Clients = {c1, c2}
  Workers = {w1, w2}
  Messages = {m1, m2}
  MaxEntryCount = 1
  Methods = {"start", "stop", "signalStop", "join", "status"}
  SinkKinds = {"STOPPED", "TRASCENDENT"}
  SinkMayBreak = TRUE
  SpawnMayFail = TRUE
  Killer = Killer
  NoThread = NoThread
  NoMessage = NoMessage
SYMMETRY Symmetric
CHECK_DEADLOCK FALSE
INVARIANTS
  ExactlyOnce
  KillerHandshake
  NoCircularWait
  SignalledStopHolds
  NoSleepOnBacklog
