SPECIFICATION Spec
CONSTANTS
  cout = cout
  Clients = {c1, c2, c3}
  Loggers = {l1, l2}
  Streams = {l1, l2}
  StreamOf <- OwnStreams
  Messages = {m1, m2}
  SinkKinds = {"STOPPED", "TRASCENDENT"}
  SinkMayBreak = TRUE
  MaxLines = 1
  MaxTime = 1
  MaxSetBacks = 1
  NoThread = NoThread
  NoLogger = NoLogger
  NoMessage = NoMessage
SYMMETRY Symmetric
INVARIANTS
  TypeOK
  LinesIntact
  TimeStampsOrdered
  TextGoesToFirst
  LoggedIsFlushed
PROPERTIES
  StopIsFinal
  ImplementsLineLog
