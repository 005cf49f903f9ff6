SPECIFICATION Spec
CONSTANTS
  cout = cout
  Clients = {c1, c2}
  Loggers = {l1, l2}
  Streams = {cout}
  StreamOf <- BothOnCout
  Messages = {m1, m2}
  SinkKinds = {"TRASCENDENT"}
  SinkMayBreak = FALSE
  MaxLines = 1
  MaxTime = 0
  MaxSetBacks = 0
  NoThread = NoThread
  NoLogger = NoLogger
  NoMessage = NoMessage
SYMMETRY Symmetric
INVARIANT
  ConsoleLinesIntact
