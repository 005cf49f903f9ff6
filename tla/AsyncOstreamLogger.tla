-------------------------- MODULE AsyncOstreamLogger --------------------------
(***************************************************************************)
(* BasicAsyncOstreamLogger (include/cpptrail/ostream_logger.h): the engine *)
(* of AsyncLogger with a pool of one and a sink that is always on.  The    *)
(* work(message) the engine calls as one step is refined into the writes   *)
(* it makes to the stream, with no lock held: the time stamp, the level,   *)
(* the text and the end of the line, between which every other thread runs.*)
(***************************************************************************)
EXTENDS AsyncLogger

\* Both constructors fix the pool to one worker, as a std::ostream may not be
\* used by two threads at once; serviceStatus() is a constant.
ASSUME OstreamAssumption ==
  /\ \E w \in Workers : Workers = {w}
  /\ SinkKinds = {"TRASCENDENT"} /\ ~SinkMayBreak

VARIABLES
  piece,   \* the piece each worker writes next
  stream   \* the pieces the stream has received

ostreamVars == <<piece, stream>>

allVars == <<vars, ostreamVars>>

Pieces == <<"time", "level", "text", "end">>

Following == [time |-> "level", level |-> "text", text |-> "end"]

OstreamTypeOK ==
  /\ TypeOK
  /\ piece \in [Workers -> ToSet(Pieces)]
  /\ stream \in Seq([kind : ToSet(Pieces), of : Messages])

OstreamInit ==
  /\ Init
  /\ piece = [w \in Workers |-> "time"]
  /\ stream = <<>>

-----------------------------------------------------------------------------
(* work(message)                                                           *)

Put(w) == stream' = Append(stream, [kind |-> piece[w], of |-> oEntry[w]])

\* Everything before the end of the line.
WritePiece(w) ==
  /\ WorkerAt(w, "work")
  /\ piece[w] # "end"
  /\ Put(w)
  /\ piece' = [piece EXCEPT ![w] = Following[piece[w]]]
  /\ UNCHANGED vars

\* The end of the line and the flush; work(message) returns.
WriteEnd(w) ==
  /\ piece[w] = "end"
  /\ Put(w)
  /\ piece' = [piece EXCEPT ![w] = "time"]
  /\ WorkerWrite(w)

\* The engine does all else as before.
EngineStep == Next /\ written' = written /\ UNCHANGED ostreamVars

OstreamNext ==
  \/ \E w \in Workers : WritePiece(w) \/ WriteEnd(w)
  \/ EngineStep

OstreamSpec == OstreamInit /\ [][OstreamNext]_allVars

-----------------------------------------------------------------------------
(* What a reader of the stream may rely on                                 *)

\* The line that piece number i of the stream belongs to.
LineOf(i) == ((i - 1) \div Len(Pieces)) + 1

\* No lock protects the writes of work(message): lines stay whole because the
\* pool has one worker and a start() never begins before the worker of the
\* pool before it has ended.
LinesIntact ==
  \A i \in DOMAIN stream :
    /\ stream[i].kind = Pieces[((i - 1) % Len(Pieces)) + 1]
    /\ stream[i].kind # "time" => stream[i].of = stream[i - 1].of

\* "Logs are processed in the order they were submitted to the queue" (doc of
\* AsyncCerrLogger), over restarts too: the lines are the first accepted
\* messages, none left out.
LinesInOrder ==
  \A i \in DOMAIN stream :
    /\ LineOf(i) <= Len(accepted)
    /\ stream[i].of = accepted[LineOf(i)]

\* What the destructor of Impl is for: between the end of the join in a stop()
\* and the next start() nobody touches the stream, so after stop() and join()
\* it may be destroyed.
QuietAfterStop == [][stream' # stream => m_vWorkers # {}]_allVars
=============================================================================
