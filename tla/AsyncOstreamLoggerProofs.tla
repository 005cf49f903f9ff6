----------------------- MODULE AsyncOstreamLoggerProofs -----------------------
(***************************************************************************)
(* Theorems about the asynchronous ostream logger, for every number of     *)
(* application threads and messages and every capacity of the queue.  They *)
(* rest on those about the engine, which it implements.                    *)
(***************************************************************************)
EXTENDS AsyncOstreamLogger, AsyncLoggerDelivery

-----------------------------------------------------------------------------
(* The engine underneath                                                   *)

LEMMA StepOfEngine == [OstreamNext]_allVars => [Next]_vars
<1>1. ASSUME NEW w \in Workers, WritePiece(w) PROVE [Next]_vars
  BY <1>1 DEF WritePiece
<1>2. ASSUME NEW w \in Workers, WriteEnd(w) PROVE [Next]_vars
  BY <1>2 DEF WriteEnd, Next, System, WorkerStep
<1>3. CASE EngineStep
  BY <1>3 DEF EngineStep
<1>4. CASE UNCHANGED allVars
  BY <1>4 DEF allVars
<1> QED
  BY <1>1, <1>2, <1>3, <1>4 DEF OstreamNext

\* Splitting work(message) into its writes takes nothing from the engine: what
\* is proved of Spec holds of the logger with its stream.
THEOREM EngineImplemented == OstreamSpec => Spec
<1>1. OstreamInit => Init
  BY DEF OstreamInit
<1> QED
  BY <1>1, StepOfEngine, PTL DEF OstreamSpec, Spec

\* A stopped and joined logger leaves the stream alone.
THEOREM QuietAfterStopHolds == OstreamSpec => QuietAfterStop
<1>1. LiveInv /\ [OstreamNext]_allVars
        => [stream' # stream => m_vWorkers # {}]_allVars
  <2> SUFFICES ASSUME LiveInv, [OstreamNext]_allVars, stream' # stream
               PROVE  m_vWorkers # {}
    OBVIOUS
  <2>1. PICK w \in Workers : WritePiece(w) \/ WriteEnd(w)
    BY DEF OstreamNext, EngineStep, ostreamVars, allVars
  <2>2. wpc[w] = "work"
    BY <2>1 DEF WritePiece, WriteEnd, WorkerWrite, WorkerAt
  <2> QED
    BY <2>2 DEF LiveInv
<1> QED
  BY <1>1, EngineImplemented, DeliverySafe, PTL DEF OstreamSpec, QuietAfterStop

-----------------------------------------------------------------------------
(* One worker makes the engine a first-in first-out pipe                   *)

\* What the worker has taken and not yet written is the entry after the last
\* one written.
FifoInv ==
  \A w \in Workers :
    /\ oEntry[w] = NoMessage => Popped = Len(written)
    /\ oEntry[w] # NoMessage =>
         Popped = Len(written) + 1 /\ accepted[Popped] = oEntry[w]

LEMMA OneWorker == \A v, w \in Workers : v = w
  BY OstreamAssumption

LEMMA FifoInit == Init => FifoInv
  BY DEF Init, FifoInv, Popped

LEMMA FifoStep ==
  TypeInv /\ DeliveryInv /\ FifoInv /\ [Next]_vars => FifoInv'
<1> SUFFICES ASSUME TypeInv, DeliveryInv, FifoInv, [Next]_vars PROVE FifoInv'
  OBVIOUS
<1> USE DEF TypeInv, TypeOK, EntriesTypeOK, PoolTypeOK, DeliveryInv
<1>1. CASE UNCHANGED <<m_qEntryQueue, accepted, written, oEntry>>
  BY <1>1 DEF FifoInv, Popped
<1>2. ASSUME NEW c \in Clients, NEW m \in Messages, Log(c, m) PROVE FifoInv'
  BY <1>1, <1>2 DEF Log, workerVars
<1>3. ASSUME NEW c \in Clients, LogPush(c) PROVE FifoInv'
  <2>1. UNCHANGED <<written, oEntry>>
    BY <1>3 DEF LogPush
  <2>2. CASE UNCHANGED <<m_qEntryQueue, accepted>>
    BY <1>1, <2>1, <2>2
  <2>3. CASE /\ m_qEntryQueue' = Append(m_qEntryQueue, oMessage[c])
             /\ accepted' = Append(accepted, oMessage[c])
    <3>1. oMessage[c] \in Messages
      BY <1>3 DEF LogPush, At, HandsFull
    <3>2. Popped' = Popped
      BY <2>3, <3>1 DEF Popped
    <3>3. \A i \in 1..Len(accepted) : accepted'[i] = accepted[i]
      BY <2>3, <3>1
    <3>4. Popped \in 0..Len(accepted)
      BY DEF Popped, QueueInv
    <3> QED
      BY <2>1, <3>2, <3>3, <3>4 DEF FifoInv
  <2> QED
    BY <1>3, <2>2, <2>3 DEF LogPush
<1>4. ASSUME NEW w \in Workers, WorkerAcquire(w) PROVE FifoInv'
  <2>1. oEntry[w] = NoMessage
    BY <1>4 DEF WorkerAcquire, WorkerAt, HandsInv
  <2>2. UNCHANGED <<written, accepted>>
    BY <1>4 DEF WorkerAcquire, logVars
  <2>3. CASE m_qEntryQueue = <<>>
    BY <1>1, <1>4, <2>2, <2>3 DEF WorkerAcquire
  <2>4. CASE m_qEntryQueue # <<>>
    <3>1. /\ m_qEntryQueue' = Tail(m_qEntryQueue)
          /\ oEntry'[w] = m_qEntryQueue[1]
      BY <1>4, <2>4 DEF WorkerAcquire, TakeEntry
    <3>2. 1 \in 1..Len(m_qEntryQueue)
      BY <2>4
    <3>3. Popped' = Popped + 1
      BY <2>2, <2>4, <3>1 DEF Popped
    <3>4. m_qEntryQueue[1] = accepted[Popped + 1]
      BY <3>2 DEF QueueInv
    <3>5. m_qEntryQueue[1] # NoMessage
      BY <3>2, ConstantsAssumption
    <3>6. Popped = Len(written)
      BY <2>1 DEF FifoInv
    <3> QED
      BY <2>2, <3>1, <3>3, <3>4, <3>5, <3>6, OneWorker DEF FifoInv
  <2> QED
    BY <2>3, <2>4
<1>5. ASSUME NEW w \in Workers, WorkerWrite(w) PROVE FifoInv'
  <2>1. oEntry[w] \in Messages /\ oEntry[w] # NoMessage
    BY <1>5, ConstantsAssumption DEF WorkerWrite, WorkerAt, HandsFull
  <2>2. Len(written') = Len(written) + 1 /\ oEntry'[w] = NoMessage
    BY <1>5, <2>1 DEF WorkerWrite
  <2>3. Popped' = Popped
    BY <1>5 DEF WorkerWrite, Popped, logVars
  <2> QED
    BY <2>1, <2>2, <2>3, OneWorker DEF FifoInv
<1> QED
  BY <1>1, <1>2, <1>3, <1>4, <1>5, EntrySteps

-----------------------------------------------------------------------------
(* The stream                                                              *)

\* How many pieces of a line stand before the one of this kind.
Before(kind) ==
  CASE kind = "time" -> 0 [] kind = "level" -> 1
    [] kind = "text" -> 2 [] OTHER -> 3

\* Where the worker is in its line says how long the stream is.
PieceInv ==
  /\ piece \in [Workers -> {"time", "level", "text", "end"}]
  /\ \A w \in Workers :
       /\ piece[w] # "time" => oEntry[w] # NoMessage
       /\ Len(stream) = 4 * Len(written) + Before(piece[w])

StreamInv ==
  /\ stream \in Seq([kind : {"time", "level", "text", "end"}, of : Messages])
  /\ \A i \in 1..Len(stream) : stream[i].kind = Pieces[((i - 1) % 4) + 1]
  /\ LinesInOrder

LineInv == PieceInv /\ StreamInv

LEMMA FourToALine ==
  ASSUME NEW n \in Nat, NEW b \in 0..3
  PROVE  (4 * n + b) % 4 = b /\ (4 * n + b) \div 4 = n
<1>1. CASE b = 0
  BY <1>1
<1>2. CASE b = 1
  BY <1>2
<1>3. CASE b = 2
  BY <1>3
<1>4. CASE b = 3
  BY <1>4
<1> QED
  BY <1>1, <1>2, <1>3, <1>4

LEMMA LineInit == OstreamInit => LineInv
  BY DEF OstreamInit, Init, LineInv, PieceInv, StreamInv, Before, LinesInOrder

\* The next state's LinesInOrder, piece by piece.
LEMMA OrderedPieces ==
  ASSUME DOMAIN stream' = 1..Len(stream'),
         \A i \in 1..Len(stream') :
           /\ LineOf(i) <= Len(accepted')
           /\ stream'[i].of = accepted'[LineOf(i)]
  PROVE  LinesInOrder'
  BY DEF LinesInOrder, LineOf

\* The piece the worker adds is the next of its line, and its line is that of
\* the first accepted message not yet written.
LEMMA PutStep ==
  ASSUME TypeInv, DeliveryInv, FifoInv, LineInv, NEW w \in Workers,
         wpc[w] = "work", Put(w), UNCHANGED accepted
  PROVE  StreamInv' /\ Len(stream') = Len(stream) + 1
<1> USE DEF TypeInv, TypeOK, EntriesTypeOK, LineInv, PieceInv, StreamInv
<1> DEFINE last == Len(stream) + 1
<1>1. oEntry[w] \in Messages /\ oEntry[w] # NoMessage
  BY ConstantsAssumption DEF HandsFull
<1>2. [kind |-> piece[w], of |-> oEntry[w]]
        \in [kind : {"time", "level", "text", "end"}, of : Messages]
  BY <1>1
<1>3. /\ stream' \in Seq([kind : {"time", "level", "text", "end"}, of : Messages])
      /\ Len(stream') = last
      /\ \A i \in 1..Len(stream) : stream'[i] = stream[i]
      /\ stream'[last] = [kind |-> piece[w], of |-> oEntry[w]]
  BY <1>2 DEF Put
<1>4. last - 1 = 4 * Len(written) + Before(piece[w])
  OBVIOUS
<1>5. (last - 1) % 4 = Before(piece[w]) /\ (last - 1) \div 4 = Len(written)
  <2>1. Len(written) \in Nat /\ Before(piece[w]) \in 0..3
    BY DEF Before
  <2> QED
    BY <1>4, <2>1, FourToALine
<1>6. Pieces[Before(piece[w]) + 1] = piece[w]
  BY DEF Before, Pieces
<1>7. Popped = Len(written) + 1 /\ accepted[Popped] = oEntry[w]
  BY <1>1 DEF FifoInv
<1>8. Popped <= Len(accepted)
  BY DEF Popped
<1>9. LineOf(last) = Popped
  BY <1>5, <1>7 DEF LineOf, Pieces
<1>10. \A i \in 1..Len(stream') :
         stream'[i].kind = Pieces[((i - 1) % 4) + 1]
  <2> TAKE i \in 1..Len(stream')
  <2>1. CASE i = last
    BY <1>3, <1>5, <1>6, <2>1
  <2>2. CASE i \in 1..Len(stream)
    BY <1>3, <2>2
  <2> QED
    BY <1>3, <2>1, <2>2
<1>11. LinesInOrder'
  <2>1. ASSUME NEW i \in 1..Len(stream')
        PROVE  /\ LineOf(i) <= Len(accepted')
               /\ stream'[i].of = accepted'[LineOf(i)]
    <3>1. CASE i = last
      BY <1>3, <1>7, <1>8, <1>9, <3>1
    <3>2. CASE i \in 1..Len(stream)
      <4>1. LineOf(i) <= Len(accepted) /\ stream[i].of = accepted[LineOf(i)]
        BY <3>2 DEF LinesInOrder
      <4> QED
        BY <1>3, <3>2, <4>1
    <3> QED
      BY <1>3, <3>1, <3>2
  <2>2. DOMAIN stream' = 1..Len(stream')
    BY <1>3
  <2> QED
    BY <2>1, <2>2, OrderedPieces
<1> QED
  BY <1>3, <1>10, <1>11

LEMMA LineStep ==
  TypeInv /\ DeliveryInv /\ FifoInv /\ LineInv /\ [OstreamNext]_allVars
    => LineInv'
<1> SUFFICES ASSUME TypeInv, DeliveryInv, FifoInv, LineInv,
                    [OstreamNext]_allVars
             PROVE  LineInv'
  OBVIOUS
<1> USE DEF TypeInv, TypeOK, EntriesTypeOK, PoolTypeOK, LineInv
<1>1. ASSUME NEW w \in Workers, WritePiece(w) PROVE LineInv'
  <2>1. UNCHANGED <<accepted, written, oEntry>>
    BY <1>1 DEF WritePiece, vars, logVars, workerVars
  <2>2. wpc[w] = "work" /\ Put(w)
    BY <1>1 DEF WritePiece, WorkerAt
  <2>3. StreamInv' /\ Len(stream') = Len(stream) + 1
    BY <2>1, <2>2, PutStep
  <2>4. oEntry[w] # NoMessage
    BY <2>2, ConstantsAssumption DEF HandsFull
  <2>5. /\ piece' = [piece EXCEPT ![w] = Following[piece[w]]]
        /\ piece[w] \in {"time", "level", "text"}
    BY <1>1 DEF WritePiece, PieceInv
  <2>6. /\ Following[piece[w]] \in {"level", "text", "end"}
        /\ Before(Following[piece[w]]) = Before(piece[w]) + 1
    BY <2>5 DEF Following, Before
  <2>7. PieceInv'
    <3>1. piece' \in [Workers -> {"time", "level", "text", "end"}]
      BY <2>5, <2>6 DEF PieceInv
    <3>2. ASSUME NEW v \in Workers
          PROVE  /\ piece'[v] # "time" => oEntry'[v] # NoMessage
                 /\ Len(stream') = 4 * Len(written') + Before(piece'[v])
      <4>1. v = w /\ piece'[w] = Following[piece[w]]
        BY <2>5, OneWorker DEF PieceInv
      <4>2. Len(stream) = 4 * Len(written) + Before(piece[w])
        BY DEF PieceInv
      <4>3. Before(piece[w]) \in Nat
        BY DEF Before
      <4> QED
        BY <2>1, <2>3, <2>4, <2>6, <4>1, <4>2, <4>3
    <3> QED
      BY <3>1, <3>2 DEF PieceInv
  <2> QED
    BY <2>3, <2>7
<1>2. ASSUME NEW w \in Workers, WriteEnd(w) PROVE LineInv'
  <2>1. UNCHANGED accepted /\ written' = Append(written, oEntry[w])
    BY <1>2 DEF WriteEnd, WorkerWrite, logVars
  <2>2. wpc[w] = "work" /\ Put(w) /\ piece[w] = "end"
    BY <1>2 DEF WriteEnd, WorkerWrite, WorkerAt
  <2>3. StreamInv' /\ Len(stream') = Len(stream) + 1
    BY <2>1, <2>2, PutStep
  <2>4. Len(written') = Len(written) + 1
    BY <2>1, <2>2 DEF HandsFull
  <2>5. piece' = [piece EXCEPT ![w] = "time"]
    BY <1>2 DEF WriteEnd
  <2>6. PieceInv'
    <3>1. piece' \in [Workers -> {"time", "level", "text", "end"}]
      BY <2>5 DEF PieceInv
    <3>2. Len(stream) = 4 * Len(written) + 3
      BY <2>2 DEF PieceInv, Before
    <3>3. \A v \in Workers : piece'[v] = "time" /\ Before(piece'[v]) = 0
      BY <2>5, OneWorker DEF PieceInv, Before
    <3> QED
      BY <2>3, <2>4, <3>1, <3>2, <3>3 DEF PieceInv
  <2> QED
    BY <2>3, <2>6
<1>3. ASSUME UNCHANGED <<written, piece, stream>>, [Next]_vars PROVE LineInv'
  <2>1. ASSUME NEW w \in Workers PROVE ~WorkerWrite(w)
    <3> SUFFICES ASSUME WorkerWrite(w) PROVE FALSE
      OBVIOUS
    <3>1. oEntry[w] \in Messages /\ written' = Append(written, oEntry[w])
      BY DEF WorkerWrite, WorkerAt, HandsFull
    <3> QED
      BY <1>3, <3>1
  <2>2. ASSUME NEW w \in Workers, oEntry[w] # NoMessage
        PROVE  oEntry'[w] # NoMessage
    <3>1. ASSUME NEW v \in Workers PROVE ~WorkerAcquire(v)
      BY <2>2, OneWorker DEF WorkerAcquire, WorkerAt, HandsInv, DeliveryInv
    <3> QED
      BY <1>3, <2>1, <2>2, <3>1, EntrySteps DEF Log, LogPush, workerVars
  <2>3. PieceInv'
    BY <1>3, <2>2 DEF PieceInv
  <2>4. /\ Len(accepted) <= Len(accepted')
        /\ \A i \in 1..Len(accepted) : accepted'[i] = accepted[i]
    <3>1. ASSUME NEW c \in Clients, LogPush(c),
                 accepted' = Append(accepted, oMessage[c])
          PROVE  <2>4
      BY <3>1 DEF LogPush, At, HandsFull
    <3>2. CASE UNCHANGED accepted
      BY <3>2
    <3> QED
      BY <1>3, <2>1, <3>1, <3>2, EntrySteps DEF Log, LogPush, WorkerAcquire, logVars
  <2>5. LinesInOrder'
    <3>1. ASSUME NEW i \in 1..Len(stream)
          PROVE  /\ LineOf(i) <= Len(accepted')
                 /\ stream[i].of = accepted'[LineOf(i)]
      <4>1. LineOf(i) <= Len(accepted) /\ stream[i].of = accepted[LineOf(i)]
        BY DEF LinesInOrder, StreamInv
      <4>2. LineOf(i) \in Nat /\ 1 <= LineOf(i)
        BY DEF LineOf, Pieces
      <4> QED
        BY <2>4, <4>1, <4>2
    <3>2. stream' = stream /\ DOMAIN stream = 1..Len(stream)
      BY <1>3 DEF StreamInv
    <3> QED
      BY <3>1, <3>2, OrderedPieces
  <2> QED
    BY <1>3, <2>3, <2>5 DEF StreamInv
<1> QED
  BY <1>1, <1>2, <1>3, StepOfEngine
     DEF OstreamNext, EngineStep, ostreamVars, allVars, vars

LEMMA LineSafe == OstreamSpec => [](TypeInv /\ LineInv)
<1> DEFINE IInv == TypeInv /\ LiveInv /\ DeliveryInv /\ FifoInv /\ LineInv
<1>1. OstreamInit => IInv
  BY TypeInit, LiveInit, DeliveryInit, FifoInit, LineInit DEF OstreamInit
<1>2. IInv /\ [OstreamNext]_allVars => IInv'
  BY StepOfEngine, TypeStep, LiveStep, DeliveryStep, FifoStep, LineStep
<1> QED
  BY <1>1, <1>2, PTL DEF OstreamSpec

\* Types of the stream and of the position a worker has in its line.
THEOREM OstreamTypeCorrect == OstreamSpec => []OstreamTypeOK
<1>1. TypeInv /\ LineInv => OstreamTypeOK
  <2>1. ToSet(Pieces) = {"time", "level", "text", "end"}
    BY DEF ToSet, Pieces
  <2> QED
    BY <2>1 DEF TypeInv, LineInv, PieceInv, StreamInv, OstreamTypeOK
<1> QED
  BY <1>1, LineSafe, PTL

\* The lines of the stream are the first accepted messages, in the order of
\* acceptance, whatever is stopped and started meanwhile.
THEOREM LinesInOrderHolds == OstreamSpec => []LinesInOrder
<1>1. LineInv => LinesInOrder
  BY DEF LineInv, StreamInv
<1> QED
  BY <1>1, LineSafe, PTL

\* No line is cut, although its writes are made with no lock held.
THEOREM LinesIntactHolds == OstreamSpec => []LinesIntact
<1>1. TypeInv /\ LineInv => LinesIntact
  <2> SUFFICES ASSUME LineInv, NEW i \in 1..Len(stream)
               PROVE  /\ stream[i].kind = Pieces[((i - 1) % 4) + 1]
                      /\ stream[i].kind # "time" =>
                            stream[i].of = stream[i - 1].of
    BY DEF LinesIntact, LineInv, StreamInv, Pieces
  <2>1. stream[i].kind = Pieces[((i - 1) % 4) + 1]
    BY DEF LineInv, StreamInv
  <2>2. ASSUME stream[i].kind # "time"
        PROVE  stream[i].of = stream[i - 1].of
    <3>1. (i - 1) % 4 # 0
      BY <2>1, <2>2 DEF Pieces
    <3>2. i - 1 \in 1..Len(stream) /\ LineOf(i - 1) = LineOf(i)
      BY <3>1 DEF LineOf, Pieces
    <3> QED
      BY <3>2 DEF LineInv, StreamInv, LinesInOrder
  <2> QED
    BY <2>1, <2>2
<1> QED
  BY <1>1, LineSafe, PTL
=============================================================================
