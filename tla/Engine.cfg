SPECIFICATION Spec
CONSTANTS
  Clients = {c1, c2}
  Workers = {w1, w2}
  Messages = {m1, m2, m3}
  MaxEntryCount = 2
  Methods = {"start", "stop", "signalStop", "join", "status"}
  SinkKinds = {"STOPPED"}
  SinkMayBreak = FALSE
  SpawnMayFail = FALSE
  Killer = Killer
  NoThread = NoThread
  NoMessage = NoMessage
SYMMETRY Symmetric
INVARIANTS
  TypeOK
  ExactlyOnce
  KillerHandshake
  NoCircularWait
  SignalledStopHolds
  NoSleepOnBacklog
  NeverTerminates
PROPERTIES
  NoWriteToStoppedSink
  StatusWasTrue
  ImplementsStream
