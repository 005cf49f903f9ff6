------------------------------ MODULE SyncLogger ------------------------------
(***************************************************************************)
(* BasicSyncLoggerImpl (include/cpptrail/sync_logger.h) with the sink of   *)
(* BasicSyncOstreamLogger (include/cpptrail/ostream_logger.h), for any     *)
(* number of loggers: every call holds the m_oGeneralMutex of its logger   *)
(* from its first statement to its last, and log() writes its line piece   *)
(* by piece on the caller's thread.  A logger writes to the stream it was  *)
(* built on, which another logger may share, as any two SyncCoutLogger do. *)
(* A message (include/cpptrail/message.h) is a handle on a text; copies    *)
(* share the text, the first sink that asks moves it out, and nothing      *)
(* keeps two loggers from being given copies and asking at once.           *)
(*                                                                         *)
(* A stream is a sequence of pieces: a line is the time stamp, the level   *)
(* (with the blank that follows), the text and the end of line.  That is   *)
(* the build for C++20; an earlier one writes no time stamp.               *)
(***************************************************************************)
EXTENDS Naturals, Sequences, FiniteSets, SequencesExt

CONSTANTS
  Clients,       \* the application threads
  Loggers,       \* the logger implementations
  Streams,       \* the streams they write to
  StreamOf,      \* the stream of a logger, fixed by its constructor
  Messages,      \* the messages; copies of one share its text
  SinkKinds,     \* the statuses a freshly built sink may report
  SinkMayBreak,  \* whether a running sink can fail
  MaxLines,      \* bound: no new log() once the streams have so many lines
  MaxTime,       \* bound on what the clock shows
  MaxSetBacks,   \* bound: how often the clock is set back
  NoThread,      \* owner of a free mutex
  NoLogger,      \* no logger called by a thread
  NoMessage      \* no message in a thread's hands

Status == {"RUNNING", "STOPPED", "BROKEN", "TRASCENDENT"}

ASSUME ConstantsAssumption ==
  /\ StreamOf \in [Loggers -> Streams]
  /\ SinkKinds \subseteq {"STOPPED", "TRASCENDENT"}
  /\ SinkMayBreak \in BOOLEAN
  /\ MaxLines \in Nat /\ MaxTime \in Nat /\ MaxSetBacks \in Nat
  /\ NoThread \notin Clients
  /\ NoLogger \notin Loggers
  /\ NoMessage \notin Messages

VARIABLES
  m_oGeneralMutex,  \* owner of each logger's lock, between the steps of a log()
  pc,               \* where each thread is in log()
  oLogger,          \* the logger whose log() a thread is in
  oMessage,         \* the argument of that log()
  m_sString,        \* what is left of the text of a message
  sink,             \* what serviceStatus() of a logger reports
  clock,            \* what the system clock shows
  nTime,            \* the reading a thread has taken for its line
  stream,           \* the pieces each ostream has received
  unflushed,        \* the ostreams that may hold some of them in their buffer
  takenBy           \* history: the loggers whose sinks have taken a copy of a message

vars == <<m_oGeneralMutex, pc, oLogger, oMessage, m_sString, sink, clock, nTime,
          stream, unflushed, takenBy>>

callVars == <<oLogger, oMessage>>
outVars == <<stream, unflushed>>

Pieces == <<"time", "level", "text", "end">>

\* Where a thread is inside work().
WorkSteps == {"now", "flush"} \cup ToSet(Pieces)

\* The stream of the logger a thread is calling.
oOstream(c) == StreamOf[oLogger[c]]

\* A text is "torn" when two threads have moved it out at the same moment:
\* from then on any of the three may come out.
Texts == {"whole", "empty", "torn"}

\* What the clock shows; setBacks is history, it counts how often the clock has
\* been set back by then.
Readings == [setBacks : 0..MaxSetBacks, time : 0..MaxTime]
Midnight == [setBacks |-> 0, time |-> 0]

\* The reading r is no later than q, unless the clock was set back in between.
NotAfter(r, q) ==
  r.setBacks < q.setBacks \/ (r.setBacks = q.setBacks /\ r.time <= q.time)

\* A piece carries the message it belongs to and what it shows: the reading of a
\* time stamp, and of a text how it came out.
Piece ==
  [kind : {"time"}, of : Messages, shows : Readings]
    \cup [kind : {"level", "end"}, of : Messages, shows : {"whole"}]
    \cup [kind : {"text"}, of : Messages, shows : Texts]

\* The type invariant; it also says that a thread is inside work() of a logger
\* exactly while it owns its lock.
TypeOK ==
  /\ m_oGeneralMutex \in [Loggers -> Clients \cup {NoThread}]
  /\ pc \in [Clients -> {"idle", "lock"} \cup WorkSteps]
  /\ oLogger \in [Clients -> Loggers \cup {NoLogger}]
  /\ oMessage \in [Clients -> Messages \cup {NoMessage}]
  /\ \A c \in Clients :
       /\ pc[c] = "idle" <=> oMessage[c] = NoMessage
       /\ pc[c] = "idle" <=> oLogger[c] = NoLogger
  /\ \A c \in Clients, l \in Loggers :
       m_oGeneralMutex[l] = c <=> pc[c] \in WorkSteps /\ oLogger[c] = l
  /\ m_sString \in [Messages -> Texts]
  /\ sink \in [Loggers -> Status]
  /\ clock \in Readings
  /\ nTime \in [Clients -> Readings]
  /\ stream \in [Streams -> Seq(Piece)]
  /\ unflushed \subseteq Streams
  /\ takenBy \in [Messages -> SUBSET Loggers]

Init ==
  /\ m_oGeneralMutex = [l \in Loggers |-> NoThread]
  /\ pc = [c \in Clients |-> "idle"]
  /\ oLogger = [c \in Clients |-> NoLogger]
  /\ oMessage = [c \in Clients |-> NoMessage]
  /\ m_sString = [m \in Messages |-> "whole"]
  /\ sink \in [Loggers -> SinkKinds]
  /\ clock = Midnight
  /\ nTime = [c \in Clients |-> Midnight]
  /\ stream = [s \in Streams |-> <<>>]
  /\ unflushed = {}
  /\ takenBy = [m \in Messages |-> {}]

-----------------------------------------------------------------------------
(* log(), on the thread of its caller                                      *)

\* The bound on the lines.
RoomForLine ==
  MapThenSumSet(LAMBDA s : Len(stream[s]), Streams) < Len(Pieces) * MaxLines

\* The caller gives a logger a copy of a message: the level is the copy's own,
\* the text is shared with every other copy, whichever logger has it.
Log(c, l, m) ==
  /\ pc[c] = "idle"
  /\ RoomForLine
  /\ pc' = [pc EXCEPT ![c] = "lock"]
  /\ oLogger' = [oLogger EXCEPT ![c] = l]
  /\ oMessage' = [oMessage EXCEPT ![c] = m]
  /\ UNCHANGED <<m_oGeneralMutex, m_sString, sink, clock, nTime, outVars, takenBy>>

\* log() returns.
Return(c) ==
  /\ pc' = [pc EXCEPT ![c] = "idle"]
  /\ oLogger' = [oLogger EXCEPT ![c] = NoLogger]
  /\ oMessage' = [oMessage EXCEPT ![c] = NoMessage]

SinkUp(l) == sink[l] \in {"TRASCENDENT", "RUNNING"}

\* Mutant of MayLock: the status is tested and the lock is not taken.
MayLockAlways(l) == TRUE

MayLock(l) == m_oGeneralMutex[l] = NoThread

\* Under the lock the status decides between work() and dropping the message.
LogLock(c) ==
  /\ pc[c] = "lock"
  /\ MayLock(oLogger[c])
  /\ \/ /\ SinkUp(oLogger[c])
        /\ m_oGeneralMutex' = [m_oGeneralMutex EXCEPT ![oLogger[c]] = c]
        /\ pc' = [pc EXCEPT ![c] = "now"]
        /\ takenBy' = [takenBy EXCEPT ![oMessage[c]] = @ \cup {oLogger[c]}]
        /\ UNCHANGED callVars
     \/ /\ ~SinkUp(oLogger[c])
        /\ Return(c)
        /\ UNCHANGED <<m_oGeneralMutex, takenBy>>
  /\ UNCHANGED <<m_sString, sink, clock, nTime, outVars>>

\* A write to the ostream, which may keep it in its buffer.
Put(c, kind, shows) ==
  /\ stream' = [stream EXCEPT ![oOstream(c)] =
       Append(@, [kind |-> kind, of |-> oMessage[c], shows |-> shows])]
  /\ unflushed' = unflushed \cup {oOstream(c)}

\* toRfc3339() reads the clock, then formats and writes what it has read.
ReadClock(c) ==
  /\ pc[c] = "now"
  /\ nTime' = [nTime EXCEPT ![c] = clock]
  /\ pc' = [pc EXCEPT ![c] = "time"]
  /\ UNCHANGED <<m_oGeneralMutex, callVars, takenBy, m_sString, sink, clock, outVars>>

WriteTime(c) ==
  /\ pc[c] = "time"
  /\ Put(c, "time", nTime[c])
  /\ nTime' = [nTime EXCEPT ![c] = Midnight]
  /\ pc' = [pc EXCEPT ![c] = "level"]
  /\ UNCHANGED <<m_oGeneralMutex, callVars, takenBy, m_sString, sink, clock>>

WriteLevel(c) ==
  /\ pc[c] = "level"
  /\ Put(c, "level", "whole")
  /\ pc' = [pc EXCEPT ![c] = "text"]
  /\ UNCHANGED <<m_oGeneralMutex, callVars, takenBy, m_sString, sink, clock, nTime>>

\* Another thread, which has the lock of another logger, is about to move the
\* same text out, or is at it; or this has happened before.
MayTear(c) ==
  \/ m_sString[oMessage[c]] = "torn"
  \/ /\ m_sString[oMessage[c]] = "whole"
     /\ \E d \in Clients \ {c} : pc[d] = "text" /\ oMessage[d] = oMessage[c]

\* Mutant of StealString: the text is copied out and stays.
StealStringByCopy(c, text) ==
  text = m_sString[oMessage[c]] /\ UNCHANGED m_sString

\* stealString() moves the text out of the implementation the copies share, and
\* no lock covers that: of two moves at once any outcome is possible.
StealString(c, text) ==
  \/ /\ text = m_sString[oMessage[c]] /\ text # "torn"
     /\ m_sString' = [m_sString EXCEPT ![oMessage[c]] = "empty"]
  \/ /\ MayTear(c)
     /\ m_sString' = [m_sString EXCEPT ![oMessage[c]] = "torn"]

WriteText(c) ==
  /\ pc[c] = "text"
  /\ \E text \in Texts : StealString(c, text) /\ Put(c, "text", text)
  /\ pc' = [pc EXCEPT ![c] = "end"]
  /\ UNCHANGED <<m_oGeneralMutex, callVars, takenBy, sink, clock, nTime>>

WriteEnd(c) ==
  /\ pc[c] = "end"
  /\ Put(c, "end", "whole")
  /\ pc' = [pc EXCEPT ![c] = "flush"]
  /\ UNCHANGED <<m_oGeneralMutex, callVars, takenBy, m_sString, sink, clock, nTime>>

\* Mutant of FlushStream: the line stays in the buffer.
FlushNothing(s) == UNCHANGED unflushed

FlushStream(s) == unflushed' = unflushed \ {s}

\* The flush; log() returns and the lock goes.
Flush(c) ==
  /\ pc[c] = "flush"
  /\ FlushStream(oOstream(c))
  /\ Return(c)
  /\ m_oGeneralMutex' = [m_oGeneralMutex EXCEPT ![oLogger[c]] = NoThread]
  /\ UNCHANGED <<takenBy, m_sString, sink, clock, nTime, stream>>

-----------------------------------------------------------------------------
(* The life cycle.  Each call is one step: it takes the lock, calls the    *)
(* service, and lets the lock go, also when the service throws.            *)

lifeUnchanged ==
  UNCHANGED <<m_oGeneralMutex, pc, callVars, takenBy, m_sString, clock, nTime, outVars>>

\* serviceStart() or serviceStop() brings a sink to a status, or throws and
\* leaves it as it is; a sink that is always on stays on.
Service(l, status) ==
  \E new \in {status, sink[l]} :
    sink' = [sink EXCEPT ![l] = IF @ = "TRASCENDENT" THEN @ ELSE new]

\* start(): whatever the status.
Start(c, l) ==
  /\ pc[c] = "idle"
  /\ MayLock(l)
  /\ Service(l, "RUNNING")
  /\ lifeUnchanged

\* stop() and signalStop(), which differ in name only.
Stop(c, l) ==
  /\ pc[c] = "idle"
  /\ MayLock(l)
  /\ Service(l, "STOPPED")
  /\ lifeUnchanged

SinkBreaks(l) ==
  /\ SinkMayBreak
  /\ sink[l] = "RUNNING"
  /\ sink' = [sink EXCEPT ![l] = "BROKEN"]
  /\ lifeUnchanged

\* Time goes on, by however much.
Tick ==
  /\ \E t \in (clock.time + 1)..MaxTime : clock' = [clock EXCEPT !.time = t]
  /\ UNCHANGED <<m_oGeneralMutex, pc, callVars, takenBy, m_sString, sink, nTime, outVars>>

\* Somebody sets the clock of the system back, which a system_clock shows.
SetBack ==
  /\ clock.setBacks < MaxSetBacks
  /\ \E t \in 0..MaxTime :
       /\ t < clock.time
       /\ clock' = [setBacks |-> clock.setBacks + 1, time |-> t]
  /\ UNCHANGED <<m_oGeneralMutex, pc, callVars, takenBy, m_sString, sink, nTime, outVars>>

WorkStep(c) ==
  \/ ReadClock(c) \/ WriteTime(c) \/ WriteLevel(c) \/ WriteText(c)
  \/ WriteEnd(c) \/ Flush(c)

Next ==
  \/ \E c \in Clients : LogLock(c) \/ WorkStep(c)
  \/ \E c \in Clients, l \in Loggers, m \in Messages : Log(c, l, m)
  \/ \E c \in Clients, l \in Loggers : Start(c, l) \/ Stop(c, l)
  \/ \E l \in Loggers : SinkBreaks(l)
  \/ Tick \/ SetBack

Spec == Init /\ [][Next]_vars

-----------------------------------------------------------------------------
(* What the synchronous logger guarantees, to the streams that one logger *)
(* has for itself and to the messages                                      *)

\* The streams that at most one logger writes to.
Unshared ==
  {s \in Streams : \A k, l \in Loggers : StreamOf[k] = s /\ StreamOf[l] = s => k = l}

\* The pieces of a line stand next to each other, in order, and belong to one
\* message.
Intact(pieces) ==
  \A i \in DOMAIN pieces :
    /\ pieces[i].kind = Pieces[((i - 1) % Len(Pieces)) + 1]
    /\ pieces[i].kind # "time" => pieces[i].of = pieces[i - 1].of

\* Lines of different threads never mix.
LinesIntact == \A s \in Unshared : Intact(stream[s])

\* The lines stand in the order in which the clock was read, because it is read
\* under the lock that orders the lines: a line shows an earlier time than one
\* before it only if the clock was set back between the two.
TimeStampsOrdered ==
  \A s \in Unshared : \A i, j \in DOMAIN stream[s] :
    i < j /\ stream[s][i].kind = "time" /\ stream[s][j].kind = "time" =>
      NotAfter(stream[s][i].shows, stream[s][j].shows)

\* The sinks of two loggers have taken copies of the message.
Shared(m) == \E k, l \in takenBy[m] : k # l

ShowsText(s, i, m) == stream[s][i].kind = "text" /\ stream[s][i].of = m

\* While the copies of a message go to one logger, its text comes out whole in the
\* first line of the message and in no other; the later lines print an empty
\* text, never part of one.  When they go to two loggers, the text still comes
\* out whole at most once over all streams, unless the two have moved it out at
\* the same moment.
TextGoesToFirst ==
  \A m \in Messages :
    /\ ~Shared(m) => \A s \in Streams : \A j \in DOMAIN stream[s] :
         ShowsText(s, j, m) =>
           stream[s][j].shows =
             IF \E i \in 1..(j - 1) : ShowsText(s, i, m) THEN "empty" ELSE "whole"
    /\ m_sString[m] # "torn" => \A s, r \in Streams :
         \A i \in DOMAIN stream[s], j \in DOMAIN stream[r] :
           /\ ShowsText(s, i, m) /\ stream[s][i].shows = "whole"
           /\ ShowsText(r, j, m) /\ stream[r][j].shows = "whole"
           => s = r /\ i = j

\* What log() has written survives the process: whenever no thread is inside
\* work(), everything the stream has received has left its buffer.
LoggedIsFlushed ==
  \A l \in Loggers : MayLock(l) /\ StreamOf[l] \in Unshared =>
    StreamOf[l] \notin unflushed

\* A stop() that has returned is final: not a piece of a line is written to a
\* stream whose logger is stopped, whatever log() calls were waiting for the
\* lock.
StopIsFinal ==
  [][\A l \in Loggers :
       StreamOf[l] \in Unshared /\ stream'[StreamOf[l]] # stream[StreamOf[l]] =>
         sink[l] # "STOPPED"]_vars

\* The whole lines of a stream.
Lines(s) ==
  [i \in 1..(Len(stream[s]) \div Len(Pieces)) |->
     [of   |-> stream[s][4 * i].of,
      time |-> stream[s][4 * i - 3].shows,
      text |-> stream[s][4 * i - 1].shows]]

LineLog == INSTANCE LineLog WITH
  Streams <- Unshared,
  Times   <- 0..MaxTime,
  lines   <- [s \in Unshared |-> Lines(s)],
  open    <- [s \in Unshared |->
                \E l \in Loggers : StreamOf[l] = s /\ sink[l] # "STOPPED"],
  now     <- clock,
  shared  <- {m \in Messages : Shared(m)}

\* On those streams locks, pieces and buffers are invisible: the loggers behave
\* as a log that receives whole lines, in the order in which the clock was read
\* for them, and none while the sink is stopped.
ImplementsLineLog == LineLog!LogSpec

-----------------------------------------------------------------------------
(* What the repository says of the console loggers and the code does not do *)

\* "Interleaved logs from multiple threads do not corrupt the stream output":
\* the lines of a stream are whole, whichever loggers write to it.
ConsoleLinesIntact == \A s \in Streams : Intact(stream[s])
=============================================================================
