-------------------------- MODULE SyncLoggerProofs --------------------------
(***************************************************************************)
(* Theorems about the synchronous loggers, for any threads, loggers,       *)
(* streams and messages: what one lock per logger gives to a stream that   *)
(* one logger has for itself.                                              *)
(***************************************************************************)
EXTENDS SyncLogger, TLAPS

-----------------------------------------------------------------------------
(* Types, and who owns which lock                                          *)

LEMMA WorkStepNames ==
  WorkSteps = {"now", "time", "level", "text", "end", "flush"}
<1>1. DOMAIN Pieces = 1..4 /\ 1..4 = {1, 2, 3, 4}
  BY DEF Pieces
<1>2. ToSet(Pieces) = {Pieces[i] : i \in {1, 2, 3, 4}}
  BY <1>1 DEF ToSet
<1>3. /\ Pieces[1] = "time" /\ Pieces[2] = "level"
      /\ Pieces[3] = "text" /\ Pieces[4] = "end"
  BY DEF Pieces
<1>4. ToSet(Pieces) = {"time", "level", "text", "end"}
  BY <1>2, <1>3
<1> QED
  BY <1>4 DEF WorkSteps

\* What a write does to its stream.
LEMMA PutStep ==
  ASSUME TypeOK, NEW c \in Clients, pc[c] \in WorkSteps, NEW kind, NEW shows,
         [kind |-> kind, of |-> oMessage[c], shows |-> shows] \in Piece,
         Put(c, kind, shows)
  PROVE  /\ oMessage[c] \in Messages /\ oLogger[c] \in Loggers
         /\ oOstream(c) \in Streams
         /\ stream' \in [Streams -> Seq(Piece)]
         /\ stream'[oOstream(c)] =
              Append(stream[oOstream(c)],
                     [kind |-> kind, of |-> oMessage[c], shows |-> shows])
         /\ \A s \in Streams \ {oOstream(c)} : stream'[s] = stream[s]
         /\ unflushed' = unflushed \cup {oOstream(c)}
         /\ unflushed' \subseteq Streams
<1>1. oMessage[c] \in Messages /\ oLogger[c] \in Loggers
  BY WorkStepNames DEF TypeOK
<1>2. oOstream(c) \in Streams
  BY <1>1, ConstantsAssumption DEF oOstream
<1> QED
  BY <1>1, <1>2 DEF Put, TypeOK

\* What each step of work() writes.
LEMMA WorkWrites ==
  ASSUME TypeOK, NEW c \in Clients
  PROVE  /\ pc[c] \in {"time", "level", "text", "end", "flush", "now"} =>
              oMessage[c] \in Messages /\ pc[c] \in WorkSteps
         /\ pc[c] = "time" =>
              [kind |-> "time", of |-> oMessage[c], shows |-> nTime[c]] \in Piece
         /\ pc[c] \in WorkSteps => \A kind \in {"level", "end"} :
              [kind |-> kind, of |-> oMessage[c], shows |-> "whole"] \in Piece
         /\ pc[c] = "text" => \A text \in Texts :
              [kind |-> "text", of |-> oMessage[c], shows |-> text] \in Piece
<1>1. pc[c] \in WorkSteps => oMessage[c] \in Messages
  BY WorkStepNames DEF TypeOK
<1>2. nTime[c] \in Readings
  BY DEF TypeOK
<1> QED
  BY <1>1, <1>2, WorkStepNames DEF TypeOK, Piece

LEMMA TypeInit == Init => TypeOK
<1> SUFFICES ASSUME Init PROVE TypeOK
  OBVIOUS
<1>1. sink \in [Loggers -> Status]
  <2>1. SinkKinds \subseteq Status
    BY ConstantsAssumption DEF Status
  <2>2. sink \in [Loggers -> SinkKinds]
    BY DEF Init
  <2> QED
    BY <2>1, <2>2
<1>2. Midnight \in Readings
  BY ConstantsAssumption DEF Midnight, Readings
<1>3. /\ clock \in Readings /\ nTime \in [Clients -> Readings]
      /\ m_sString \in [Messages -> Texts]
      /\ stream \in [Streams -> Seq(Piece)] /\ unflushed \subseteq Streams
      /\ takenBy \in [Messages -> SUBSET Loggers]
  BY <1>2 DEF Init, Texts
<1>4. \A c \in Clients, l \in Loggers :
        m_oGeneralMutex[l] = c <=> pc[c] \in WorkSteps /\ oLogger[c] = l
  BY ConstantsAssumption, WorkStepNames DEF Init
<1>5. /\ pc \in [Clients -> {"idle", "lock"} \cup WorkSteps]
      /\ m_oGeneralMutex \in [Loggers -> Clients \cup {NoThread}]
      /\ oLogger \in [Clients -> Loggers \cup {NoLogger}]
      /\ oMessage \in [Clients -> Messages \cup {NoMessage}]
      /\ \A c \in Clients : pc[c] = "idle" /\ oMessage[c] = NoMessage /\ oLogger[c] = NoLogger
  BY DEF Init
<1> QED
  BY <1>1, <1>3, <1>4, <1>5 DEF TypeOK

\* A reading of the clock that moves on, or is set back.
LEMMA ClockStep ==
  ASSUME TypeOK, Tick \/ SetBack
  PROVE  /\ clock' \in Readings /\ NotAfter(clock, clock') /\ clock' # clock
         /\ \E t \in 0..MaxTime :
              clock' = [setBacks |-> IF t < clock.time THEN clock.setBacks + 1
                                     ELSE clock.setBacks,
                        time |-> t]
<1>1. /\ clock \in Readings /\ clock.time \in 0..MaxTime
      /\ clock.setBacks \in 0..MaxSetBacks /\ MaxTime \in Nat /\ MaxSetBacks \in Nat
      /\ clock = [setBacks |-> clock.setBacks, time |-> clock.time]
  BY ConstantsAssumption DEF TypeOK, Readings
<1>2. CASE Tick
  <2>1. PICK t \in (clock.time + 1)..MaxTime : clock' = [clock EXCEPT !.time = t]
    BY <1>2 DEF Tick
  <2>2. t \in 0..MaxTime /\ clock.time < t
    BY <1>1, <2>1
  <2>3. clock' = [setBacks |-> clock.setBacks, time |-> t]
    BY <1>1, <2>1
  <2>4. clock'.time = t /\ clock'.setBacks = clock.setBacks /\ ~(t < clock.time)
    BY <1>1, <2>2, <2>3
  <2> QED
    BY <1>1, <2>2, <2>3, <2>4 DEF Readings, NotAfter
<1>3. CASE SetBack
  <2>1. PICK t \in 0..MaxTime :
          t < clock.time /\ clock' = [setBacks |-> clock.setBacks + 1, time |-> t]
    BY <1>3 DEF SetBack
  <2>2. clock.setBacks + 1 \in 0..MaxSetBacks
    BY <1>1, <1>3 DEF SetBack
  <2>3. clock'.time = t /\ clock'.setBacks = clock.setBacks + 1
    BY <2>1
  <2> QED
    BY <1>1, <2>1, <2>2, <2>3 DEF Readings, NotAfter
<1> QED
  BY <1>2, <1>3

\* What the move of a text leaves.
LEMMA StealStep ==
  ASSUME TypeOK, NEW c \in Clients, oMessage[c] \in Messages, NEW text \in Texts,
         StealString(c, text)
  PROVE  /\ m_sString' \in [Messages -> Texts]
         /\ \A n \in Messages : n # oMessage[c] => m_sString'[n] = m_sString[n]
         /\ \/ /\ m_sString'[oMessage[c]] = "empty" /\ text # "torn"
               /\ text = m_sString[oMessage[c]]
            \/ m_sString'[oMessage[c]] = "torn" /\ MayTear(c)
<1>1. m_sString \in [Messages -> Texts] /\ "empty" \in Texts /\ "torn" \in Texts
  BY DEF TypeOK, Texts
<1>2. CASE /\ text = m_sString[oMessage[c]] /\ text # "torn"
           /\ m_sString' = [m_sString EXCEPT ![oMessage[c]] = "empty"]
  BY <1>1, <1>2
<1>3. CASE /\ MayTear(c)
           /\ m_sString' = [m_sString EXCEPT ![oMessage[c]] = "torn"]
  <2>1. /\ m_sString' \in [Messages -> Texts] /\ m_sString'[oMessage[c]] = "torn"
        /\ \A n \in Messages : n # oMessage[c] => m_sString'[n] = m_sString[n]
    BY <1>1, <1>3
  <2> QED
    BY <1>3, <2>1
<1> QED
  BY <1>2, <1>3 DEF StealString

LEMMA TypeStep == TypeOK /\ [Next]_vars => TypeOK'
<1> SUFFICES ASSUME TypeOK, [Next]_vars PROVE TypeOK'
  OBVIOUS
<1> USE ConstantsAssumption, WorkStepNames DEF outVars, callVars
<1>1. ASSUME NEW c \in Clients, NEW l \in Loggers, NEW m \in Messages, Log(c, l, m)
      PROVE  TypeOK'
  BY <1>1 DEF Log, TypeOK
<1>2. ASSUME NEW c \in Clients, LogLock(c) PROVE TypeOK'
  <2>1. oMessage[c] \in Messages /\ oLogger[c] \in Loggers
    BY <1>2 DEF LogLock, TypeOK
  <2>2. \A d \in Clients : ~(pc[d] \in WorkSteps /\ oLogger[d] = oLogger[c])
    BY <1>2, <2>1 DEF LogLock, MayLock, TypeOK
  <2>3. CASE /\ SinkUp(oLogger[c]) /\ pc' = [pc EXCEPT ![c] = "now"]
             /\ m_oGeneralMutex' = [m_oGeneralMutex EXCEPT ![oLogger[c]] = c]
             /\ takenBy' = [takenBy EXCEPT ![oMessage[c]] = @ \cup {oLogger[c]}]
             /\ UNCHANGED callVars
    <3>1. pc[c] = "lock"
      BY <1>2 DEF LogLock
    <3>2. \A d \in Clients, l \in Loggers :
            m_oGeneralMutex'[l] = d <=> pc'[d] \in WorkSteps /\ oLogger'[d] = l
      BY <2>1, <2>2, <2>3, <3>1 DEF TypeOK
    <3>3. takenBy' \in [Messages -> SUBSET Loggers]
      BY <2>1, <2>3 DEF TypeOK
    <3> QED
      BY <1>2, <2>1, <2>3, <3>1, <3>2, <3>3 DEF LogLock, TypeOK
  <2>4. CASE ~SinkUp(oLogger[c])
    <3>1. /\ pc' = [pc EXCEPT ![c] = "idle"] /\ pc[c] = "lock"
          /\ oMessage' = [oMessage EXCEPT ![c] = NoMessage]
          /\ oLogger' = [oLogger EXCEPT ![c] = NoLogger]
          /\ UNCHANGED <<m_oGeneralMutex, takenBy>>
      BY <1>2, <2>4 DEF LogLock, Return
    <3>2. \A d \in Clients, l \in Loggers :
            m_oGeneralMutex'[l] = d <=> pc'[d] \in WorkSteps /\ oLogger'[d] = l
      BY <3>1 DEF TypeOK
    <3> QED
      BY <1>2, <3>1, <3>2 DEF LogLock, TypeOK
  <2> QED
    BY <1>2, <2>3, <2>4 DEF LogLock
<1>3. ASSUME NEW c \in Clients, ReadClock(c) PROVE TypeOK'
  BY <1>3 DEF ReadClock, TypeOK
<1>4. ASSUME NEW c \in Clients, WriteTime(c) PROVE TypeOK'
  <2>1. stream' \in [Streams -> Seq(Piece)] /\ unflushed' \subseteq Streams
    BY <1>4, PutStep, WorkWrites DEF WriteTime
  <2>2. Midnight \in Readings
    BY DEF Midnight, Readings
  <2>3. nTime' \in [Clients -> Readings]
    BY <1>4, <2>2 DEF WriteTime, TypeOK
  <2> QED
    BY <1>4, <2>1, <2>3 DEF WriteTime, TypeOK
<1>5. ASSUME NEW c \in Clients, WriteLevel(c) PROVE TypeOK'
  <2>1. stream' \in [Streams -> Seq(Piece)] /\ unflushed' \subseteq Streams
    BY <1>5, PutStep, WorkWrites DEF WriteLevel
  <2> QED
    BY <1>5, <2>1 DEF WriteLevel, TypeOK
<1>6. ASSUME NEW c \in Clients, WriteText(c) PROVE TypeOK'
  <2>1. PICK text \in Texts : StealString(c, text) /\ Put(c, "text", text)
    BY <1>6 DEF WriteText
  <2>2. stream' \in [Streams -> Seq(Piece)] /\ unflushed' \subseteq Streams
    BY <1>6, <2>1, PutStep, WorkWrites DEF WriteText
  <2>3. oMessage[c] \in Messages
    BY <1>6, WorkWrites DEF WriteText
  <2>4. m_sString' \in [Messages -> Texts]
    BY <2>1, <2>3, StealStep
  <2> QED
    BY <1>6, <2>2, <2>4 DEF WriteText, TypeOK
<1>7. ASSUME NEW c \in Clients, WriteEnd(c) PROVE TypeOK'
  <2>1. stream' \in [Streams -> Seq(Piece)] /\ unflushed' \subseteq Streams
    BY <1>7, PutStep, WorkWrites DEF WriteEnd
  <2> QED
    BY <1>7, <2>1 DEF WriteEnd, TypeOK
<1>8. ASSUME NEW c \in Clients, Flush(c) PROVE TypeOK'
  <2>1. oMessage[c] \in Messages /\ oLogger[c] \in Loggers
    BY <1>8 DEF Flush, TypeOK
  <2>2. m_oGeneralMutex[oLogger[c]] = c
    BY <1>8, <2>1 DEF Flush, TypeOK
  <2> QED
    BY <1>8, <2>1, <2>2 DEF Flush, Return, FlushStream, TypeOK
<1>9. ASSUME NEW c \in Clients, NEW l \in Loggers, Start(c, l) \/ Stop(c, l)
      PROVE  TypeOK'
  <2>1. PICK status \in {"RUNNING", "STOPPED"} : Service(l, status) /\ lifeUnchanged
    BY <1>9 DEF Start, Stop
  <2>2. PICK new \in {status, sink[l]} :
          sink' = [sink EXCEPT ![l] = IF @ = "TRASCENDENT" THEN @ ELSE new]
    BY <2>1 DEF Service
  <2>3. new \in Status /\ sink \in [Loggers -> Status]
    BY <2>1, <2>2 DEF TypeOK, Status
  <2>4. sink' \in [Loggers -> Status]
    BY <2>2, <2>3
  <2> QED
    BY <2>1, <2>4 DEF lifeUnchanged, TypeOK
<1>10. ASSUME NEW l \in Loggers, SinkBreaks(l) PROVE TypeOK'
  BY <1>10 DEF SinkBreaks, lifeUnchanged, TypeOK, Status
<1>11. ASSUME Tick \/ SetBack PROVE TypeOK'
  <2>1. UNCHANGED <<m_oGeneralMutex, pc, callVars, takenBy, m_sString, sink, nTime, outVars>>
    BY <1>11 DEF Tick, SetBack
  <2>2. clock' \in Readings
    BY <1>11, ClockStep
  <2> QED
    BY <2>1, <2>2 DEF TypeOK
<1>12. ASSUME UNCHANGED vars PROVE TypeOK'
  BY <1>12 DEF vars, TypeOK
<1> QED
  BY <1>1, <1>2, <1>3, <1>4, <1>5, <1>6, <1>7, <1>8, <1>9, <1>10, <1>11, <1>12
     DEF Next, WorkStep

\* Types, and that a thread is inside work() exactly while it owns the lock.
THEOREM TypeCorrect == Spec => []TypeOK
  BY TypeInit, TypeStep, PTL DEF Spec

-----------------------------------------------------------------------------
(* Who writes to a stream                                                  *)

Following == [time |-> "level", level |-> "text", text |-> "end", end |-> "flush"]

\* The write of any piece, which shows what it shows and leads to the next.
Write(c, shows) ==
  /\ pc[c] \in {"time", "level", "text", "end"}
  /\ Put(c, pc[c], shows)
  /\ pc' = [pc EXCEPT ![c] = Following[pc[c]]]
  /\ pc[c] = "time" => shows = nTime[c]
  /\ pc[c] \in {"level", "end"} => shows = "whole"
  /\ IF pc[c] = "text" THEN shows \in Texts /\ StealString(c, shows)
                       ELSE UNCHANGED m_sString
  /\ nTime' = IF pc[c] = "time" THEN [nTime EXCEPT ![c] = Midnight] ELSE nTime
  /\ UNCHANGED <<m_oGeneralMutex, callVars, takenBy, sink, clock>>

LEMMA WorkShapes ==
  ASSUME NEW c \in Clients, WorkStep(c)
  PROVE  (\E shows : Write(c, shows)) \/ Flush(c) \/ ReadClock(c)
<1>1. CASE WriteTime(c)
  <2>1. Write(c, nTime[c])
    BY <1>1 DEF WriteTime, Write, Following
  <2> QED
    BY <2>1
<1>2. CASE WriteLevel(c)
  <2>1. Write(c, "whole")
    BY <1>2 DEF WriteLevel, Write, Following
  <2> QED
    BY <2>1
<1>3. CASE WriteText(c)
  <2>1. PICK text \in Texts : StealString(c, text) /\ Put(c, "text", text)
    BY <1>3 DEF WriteText
  <2>2. Write(c, text)
    BY <1>3, <2>1 DEF WriteText, Write, Following
  <2> QED
    BY <2>2
<1>4. CASE WriteEnd(c)
  <2>1. Write(c, "whole")
    BY <1>4 DEF WriteEnd, Write, Following
  <2> QED
    BY <2>1
<1> QED
  BY <1>1, <1>2, <1>3, <1>4 DEF WorkStep

\* Only a thread inside work() touches a stream or a text.
LEMMA Shapes ==
  ASSUME TypeOK, [Next]_vars
  PROVE  \/ \E c \in Clients : (\E shows : Write(c, shows)) \/ Flush(c)
         \/ UNCHANGED <<outVars, m_sString>>
<1>1. ASSUME NEW c \in Clients, ReadClock(c) \/ LogLock(c)
      PROVE  UNCHANGED <<outVars, m_sString>>
  BY <1>1 DEF ReadClock, LogLock
<1>2. ASSUME NEW c \in Clients, NEW l \in Loggers, Start(c, l) \/ Stop(c, l)
      PROVE  UNCHANGED <<outVars, m_sString>>
  BY <1>2 DEF Start, Stop, lifeUnchanged
<1>3. ASSUME Tick \/ SetBack PROVE UNCHANGED <<outVars, m_sString>>
  BY <1>3 DEF Tick, SetBack
<1> QED
  BY <1>1, <1>2, <1>3, WorkShapes
     DEF Next, Log, SinkBreaks, lifeUnchanged, vars, outVars

LEMMA WriteStep ==
  ASSUME TypeOK, NEW c \in Clients, NEW shows, Write(c, shows)
  PROVE  /\ pc[c] \in WorkSteps /\ pc'[c] \in WorkSteps
         /\ oMessage[c] \in Messages /\ oLogger[c] \in Loggers /\ oOstream(c) \in Streams
         /\ stream' \in [Streams -> Seq(Piece)]
         /\ stream'[oOstream(c)] =
              Append(stream[oOstream(c)],
                     [kind |-> pc[c], of |-> oMessage[c], shows |-> shows])
         /\ \A s \in Streams \ {oOstream(c)} : stream'[s] = stream[s]
         /\ unflushed' = unflushed \cup {oOstream(c)}
         /\ [kind |-> pc[c], of |-> oMessage[c], shows |-> shows] \in Piece
         /\ \A d \in Clients : d # c => pc'[d] = pc[d]
         /\ oLogger' = oLogger /\ oMessage' = oMessage
<1>1. pc[c] \in WorkSteps /\ pc'[c] \in WorkSteps
  BY WorkStepNames DEF Write, Following, TypeOK
<1>2. [kind |-> pc[c], of |-> oMessage[c], shows |-> shows] \in Piece
  <2>1. CASE pc[c] = "time"
    BY <2>1, WorkWrites DEF Write
  <2>2. CASE pc[c] = "text"
    BY <2>2, WorkWrites DEF Write
  <2>3. CASE pc[c] \in {"level", "end"}
    BY <1>1, <2>3, WorkWrites DEF Write
  <2> QED
    BY <2>1, <2>2, <2>3 DEF Write
<1>3. Put(c, pc[c], shows) /\ UNCHANGED callVars
  BY DEF Write
<1> QED
  BY <1>1, <1>2, <1>3, PutStep DEF Write, TypeOK, callVars

\* Two threads are never inside work() of one logger, nor of one stream that a
\* logger has for itself.
LEMMA OneWriter ==
  ASSUME TypeOK, NEW c \in Clients, pc[c] \in WorkSteps, oOstream(c) \in Unshared
  PROVE  /\ \A l \in Loggers : StreamOf[l] = oOstream(c) => l = oLogger[c]
         /\ \A d \in Clients :
              pc[d] \in WorkSteps /\ oOstream(d) = oOstream(c) => d = c
         /\ m_oGeneralMutex[oLogger[c]] = c /\ ~MayLock(oLogger[c])
<1>1. \A d \in Clients : pc[d] \in WorkSteps =>
        oLogger[d] \in Loggers /\ m_oGeneralMutex[oLogger[d]] = d
  BY WorkStepNames, ConstantsAssumption DEF TypeOK
<1>2. \A l \in Loggers : StreamOf[l] = oOstream(c) => l = oLogger[c]
  BY <1>1 DEF Unshared, oOstream
<1> QED
  BY <1>1, <1>2, ConstantsAssumption DEF oOstream, MayLock

-----------------------------------------------------------------------------
(* The sink and the buffer                                                 *)

\* Whoever is inside work() found the sink up, and holds the lock a stop()
\* would need; whoever leaves it has flushed.
SinkInv ==
  /\ \A c \in Clients : pc[c] \in WorkSteps => sink[oLogger[c]] # "STOPPED"
  /\ LoggedIsFlushed

LEMMA SinkInit == Init => SinkInv
  BY WorkStepNames DEF Init, SinkInv, LoggedIsFlushed

LEMMA SinkStep == TypeOK /\ SinkInv /\ [Next]_vars => SinkInv'
<1> SUFFICES ASSUME TypeOK, SinkInv, [Next]_vars PROVE SinkInv'
  OBVIOUS
<1> USE WorkStepNames, ConstantsAssumption DEF SinkInv
<1>1. ASSUME NEW c \in Clients, NEW shows, Write(c, shows) PROVE SinkInv'
  <2>1. \A d \in Clients : oLogger'[d] = oLogger[d] /\
                             (pc'[d] \in WorkSteps => pc[d] \in WorkSteps)
    BY <1>1, WriteStep DEF Write
  <2>2. \A d \in Clients : pc'[d] \in WorkSteps => (sink[oLogger[d]] # "STOPPED")'
    BY <1>1, <2>1 DEF Write
  <2>3. ASSUME NEW l \in Loggers, MayLock(l)', StreamOf[l] \in Unshared
        PROVE  StreamOf[l] \notin unflushed'
    <3>1. MayLock(l) /\ StreamOf[l] # oOstream(c)
      BY <1>1, <2>3, WriteStep, OneWriter DEF Write, MayLock
    <3>2. unflushed' = unflushed \cup {oOstream(c)}
      BY <1>1, WriteStep
    <3>3. StreamOf[l] \notin unflushed
      BY <2>3, <3>1 DEF LoggedIsFlushed
    <3> QED
      BY <3>1, <3>2, <3>3
  <2> QED
    BY <2>2, <2>3 DEF LoggedIsFlushed
<1>2. ASSUME NEW c \in Clients, Flush(c) PROVE SinkInv'
  <2>1. \A d \in Clients : pc'[d] \in WorkSteps =>
          pc[d] \in WorkSteps /\ oLogger'[d] = oLogger[d]
    BY <1>2 DEF Flush, Return, TypeOK
  <2>2. oLogger[c] \in Loggers
    BY <1>2 DEF Flush, TypeOK
  <2>3. ASSUME NEW l \in Loggers, MayLock(l)', StreamOf[l] \in Unshared
        PROVE  StreamOf[l] \notin unflushed'
    <3>1. CASE l = oLogger[c]
      BY <1>2, <3>1 DEF Flush, FlushStream, oOstream
    <3>2. CASE l # oLogger[c]
      <4>1. MayLock(l)
        BY <1>2, <2>2, <2>3, <3>2 DEF Flush, MayLock, TypeOK
      <4> QED
        BY <1>2, <2>3, <4>1 DEF Flush, FlushStream, LoggedIsFlushed
    <3> QED
      BY <3>1, <3>2
  <2>4. \A d \in Clients : pc'[d] \in WorkSteps => (sink[oLogger[d]] # "STOPPED")'
    BY <1>2, <2>1 DEF Flush
  <2> QED
    BY <2>3, <2>4 DEF LoggedIsFlushed
<1>3. ASSUME UNCHANGED outVars, NEW c \in Clients, LogLock(c) PROVE SinkInv'
  <2>1. \A d \in Clients : d # c => pc'[d] = pc[d] /\ oLogger'[d] = oLogger[d]
    BY <1>3 DEF LogLock, Return, callVars, TypeOK
  <2>2. pc'[c] \in WorkSteps => oLogger'[c] = oLogger[c] /\ SinkUp(oLogger[c])
    BY <1>3 DEF LogLock, Return, callVars, TypeOK
  <2>3. \A l \in Loggers : MayLock(l)' => MayLock(l)
    <3>1. CASE UNCHANGED m_oGeneralMutex
      BY <3>1 DEF MayLock
    <3>2. CASE m_oGeneralMutex' = [m_oGeneralMutex EXCEPT ![oLogger[c]] = c]
      BY <3>2 DEF MayLock, TypeOK
    <3> QED
      BY <1>3, <3>1, <3>2 DEF LogLock
  <2>4. LoggedIsFlushed'
    BY <1>3, <2>3 DEF LoggedIsFlushed, outVars
  <2>5. \A d \in Clients : pc'[d] \in WorkSteps => (sink[oLogger[d]] # "STOPPED")'
    BY <1>3, <2>1, <2>2 DEF LogLock, SinkUp
  <2> QED
    BY <2>4, <2>5
<1>4. ASSUME UNCHANGED outVars, UNCHANGED m_oGeneralMutex,
             \A d \in Clients : pc'[d] \in WorkSteps =>
               pc[d] \in WorkSteps /\ oLogger'[d] = oLogger[d],
             \A d \in Clients :
               pc[d] \in WorkSteps /\ sink'[oLogger[d]] = "STOPPED" =>
                 sink[oLogger[d]] = "STOPPED"
      PROVE  SinkInv'
  <2>1. \A d \in Clients : pc'[d] \in WorkSteps => (sink[oLogger[d]] # "STOPPED")'
    BY <1>4
  <2>2. LoggedIsFlushed'
    BY <1>4 DEF LoggedIsFlushed, outVars, MayLock
  <2> QED
    BY <2>1, <2>2
<1>5. ASSUME NEW c \in Clients, NEW l \in Loggers, NEW m \in Messages, Log(c, l, m) PROVE SinkInv'
  <2>1. \A d \in Clients : pc'[d] \in WorkSteps =>
          pc[d] \in WorkSteps /\ oLogger'[d] = oLogger[d]
    BY <1>5 DEF Log, TypeOK
  <2> QED
    BY <1>4, <1>5, <2>1 DEF Log
<1>6. ASSUME NEW c \in Clients, ReadClock(c) PROVE SinkInv'
  BY <1>4, <1>6 DEF ReadClock, callVars, TypeOK
<1>7. ASSUME NEW c \in Clients, NEW l \in Loggers, Start(c, l) \/ Stop(c, l)
      PROVE  SinkInv'
  <2>1. lifeUnchanged /\ m_oGeneralMutex[l] = NoThread
        /\ \A k \in Loggers : k # l => sink'[k] = sink[k]
    BY <1>7 DEF Start, Stop, Service, MayLock, TypeOK
  <2>2. \A d \in Clients : pc[d] \in WorkSteps => oLogger[d] \in Loggers \ {l}
    BY <2>1 DEF TypeOK
  <2> QED
    BY <1>4, <2>1, <2>2 DEF lifeUnchanged, outVars, callVars
<1>8. ASSUME NEW l \in Loggers, SinkBreaks(l) PROVE SinkInv'
  <2>1. \A k \in Loggers : sink'[k] = "STOPPED" => sink[k] = "STOPPED"
    BY <1>8 DEF SinkBreaks, TypeOK
  <2>2. \A d \in Clients : pc[d] \in WorkSteps => oLogger[d] \in Loggers
    BY DEF TypeOK
  <2> QED
    BY <1>4, <1>8, <2>1, <2>2 DEF SinkBreaks, lifeUnchanged, outVars, callVars
<1>9. ASSUME Tick \/ SetBack \/ UNCHANGED vars PROVE SinkInv'
  BY <1>4, <1>9 DEF Tick, SetBack, vars, outVars, callVars
<1>10. ASSUME NEW c \in Clients, WorkStep(c)
      PROVE  (\E shows : Write(c, shows)) \/ Flush(c) \/ ReadClock(c)
  BY <1>10, WorkShapes
<1> QED
  BY <1>1, <1>2, <1>3, <1>5, <1>6, <1>7, <1>8, <1>9, <1>10 DEF Next, LogLock, outVars

\* Nothing that log() has written is left in a buffer when it has returned.
THEOREM LoggedIsFlushedHolds == Spec => []LoggedIsFlushed
<1>1. SinkInv => LoggedIsFlushed
  BY DEF SinkInv
<1> QED
  BY <1>1, TypeInit, TypeStep, SinkInit, SinkStep, PTL DEF Spec

\* No piece of a line is written once a stop() has returned.
THEOREM StopIsFinalHolds == Spec => StopIsFinal
<1> DEFINE Final == \A l \in Loggers :
             StreamOf[l] \in Unshared /\ stream'[StreamOf[l]] # stream[StreamOf[l]] =>
               sink[l] # "STOPPED"
<1>1. ASSUME TypeOK, SinkInv, [Next]_vars PROVE Final
  <2> SUFFICES ASSUME NEW l \in Loggers, StreamOf[l] \in Unshared,
                      stream'[StreamOf[l]] # stream[StreamOf[l]]
               PROVE  sink[l] # "STOPPED"
    OBVIOUS
  <2>0. PICK c \in Clients : \E shows : Write(c, shows)
    BY <1>1, Shapes DEF outVars, Flush
  <2>1. PICK shows : Write(c, shows)
    BY <2>0
  <2>2. oOstream(c) = StreamOf[l]
    BY <1>1, <2>1, WriteStep, ConstantsAssumption
  <2>3. pc[c] \in WorkSteps
    BY <1>1, <2>1, WriteStep
  <2>4. oLogger[c] = l
    BY <1>1, <2>2, <2>3, OneWriter
  <2> QED
    BY <1>1, <2>3, <2>4 DEF SinkInv
<1> QED
  BY <1>1, TypeInit, TypeStep, SinkInit, SinkStep, PTL DEF Spec, StopIsFinal

-----------------------------------------------------------------------------
(* The texts                                                               *)

\* The piece a thread is about to write, and its stream before and after.
LEMMA Written ==
  ASSUME TypeOK, NEW c \in Clients, NEW shows, Write(c, shows)
  PROVE  LET s == oOstream(c)
             old == stream[s]
             new == stream'[s]
         IN  /\ Len(old) \in Nat /\ Len(new) = Len(old) + 1
             /\ DOMAIN old = 1..Len(old) /\ DOMAIN new = 1..(Len(old) + 1)
             /\ \A i \in DOMAIN old : new[i] = old[i] /\ new[i] \in Piece
             /\ new[Len(old) + 1].kind = pc[c]
             /\ new[Len(old) + 1].of = oMessage[c]
             /\ new[Len(old) + 1].shows = shows
<1> DEFINE s == oOstream(c)
           p == [kind |-> pc[c], of |-> oMessage[c], shows |-> shows]
<1>1. /\ p \in Piece /\ s \in Streams /\ stream[s] \in Seq(Piece)
      /\ stream'[s] = Append(stream[s], p)
  BY WriteStep DEF TypeOK
<1>2. p.kind = pc[c] /\ p.of = oMessage[c] /\ p.shows = shows
  OBVIOUS
<1> HIDE DEF s, p
<1> QED
  BY <1>1, <1>2 DEF s

\* Whoever is inside work() has had its logger noted.
TakenInv ==
  \A c \in Clients : pc[c] \in WorkSteps => oLogger[c] \in takenBy[oMessage[c]]

LEMMA TakenInit == Init => TakenInv
  BY WorkStepNames DEF Init, TakenInv

LEMMA TakenStep == TypeOK /\ TakenInv /\ [Next]_vars => TakenInv'
<1> SUFFICES ASSUME TypeOK, TakenInv, [Next]_vars PROVE TakenInv'
  OBVIOUS
<1> USE WorkStepNames DEF TakenInv, callVars
<1>1. ASSUME NEW c \in Clients, LogLock(c) PROVE TakenInv'
  <2>1. oMessage[c] \in Messages
    BY <1>1 DEF LogLock, TypeOK
  <2>2. CASE UNCHANGED callVars /\ pc' = [pc EXCEPT ![c] = "now"]
    <3>1. takenBy' = [takenBy EXCEPT ![oMessage[c]] = @ \cup {oLogger[c]}]
      BY <1>1, <2>2 DEF LogLock, Return, TypeOK
    <3>2. \A d \in Clients \ {c} : pc'[d] = pc[d] /\ (pc[d] \in WorkSteps =>
            oMessage[d] \in Messages)
      BY <2>2 DEF TypeOK
    <3> QED
      BY <2>1, <2>2, <3>1, <3>2 DEF TypeOK
  <2>3. CASE Return(c) /\ UNCHANGED takenBy
    BY <2>3 DEF Return, TypeOK
  <2> QED
    BY <1>1, <2>2, <2>3 DEF LogLock
<1>2. ASSUME UNCHANGED takenBy,
             \A d \in Clients : pc'[d] \in WorkSteps =>
               pc[d] \in WorkSteps /\ oMessage'[d] = oMessage[d] /\ oLogger'[d] = oLogger[d]
      PROVE  TakenInv'
  BY <1>2
<1>3. ASSUME NEW c \in Clients, NEW shows, Write(c, shows) PROVE TakenInv'
  BY <1>2, <1>3, WriteStep DEF Write
<1>4. ASSUME NEW c \in Clients, Flush(c) PROVE TakenInv'
  BY <1>2, <1>4 DEF Flush, Return, TypeOK
<1>5. ASSUME NEW c \in Clients, ReadClock(c) PROVE TakenInv'
  BY <1>2, <1>5 DEF ReadClock, TypeOK
<1>6. ASSUME NEW c \in Clients, NEW l \in Loggers, NEW m \in Messages, Log(c, l, m)
      PROVE  TakenInv'
  BY <1>2, <1>6 DEF Log, TypeOK
<1>7. ASSUME NEW c \in Clients, NEW l \in Loggers, Start(c, l) \/ Stop(c, l)
      PROVE  TakenInv'
  BY <1>2, <1>7 DEF Start, Stop, lifeUnchanged
<1>8. ASSUME NEW l \in Loggers, SinkBreaks(l) PROVE TakenInv'
  BY <1>2, <1>8 DEF SinkBreaks, lifeUnchanged
<1>9. ASSUME Tick \/ SetBack \/ UNCHANGED vars PROVE TakenInv'
  BY <1>2, <1>9 DEF Tick, SetBack, vars
<1> QED
  BY <1>1, <1>3, <1>4, <1>5, <1>6, <1>7, <1>8, <1>9, WorkShapes DEF Next

\* A message two loggers have taken stays one.
LEMMA SharedStays ==
  ASSUME NEW m \in Messages, takenBy[m] \subseteq takenBy'[m]
  PROVE  Shared(m) => Shared(m)'
  BY DEF Shared

\* A text that some line shows has been moved out.  While one logger has taken
\* all copies, nobody can have moved it at the same moment, and a text that is
\* gone has been shown on the stream of that logger.
TextInv ==
  /\ \A m \in Messages, s \in Streams : \A i \in DOMAIN stream[s] :
       ShowsText(s, i, m) => m_sString[m] # "whole"
  /\ \A m \in Messages : ~Shared(m) =>
       /\ m_sString[m] # "torn"
       /\ m_sString[m] = "empty" =>
            \E l \in takenBy[m] : \E i \in DOMAIN stream[StreamOf[l]] :
              ShowsText(StreamOf[l], i, m)
  /\ TextGoesToFirst

LEMMA TextInit == Init => TextInv
  BY ConstantsAssumption DEF Init, TextInv, TextGoesToFirst, ShowsText

\* While one logger has taken all copies of its message, no other thread can
\* move the text that a thread is moving.
LEMMA AloneWithText ==
  ASSUME TypeOK, TakenInv, TextInv, NEW c \in Clients, pc[c] = "text",
         ~Shared(oMessage[c])
  PROVE  ~MayTear(c)
<1>1. oMessage[c] \in Messages /\ oLogger[c] \in takenBy[oMessage[c]]
  BY WorkStepNames DEF TypeOK, TakenInv
<1>2. ASSUME NEW d \in Clients, pc[d] = "text", oMessage[d] = oMessage[c]
      PROVE  d = c
  <2>1. oLogger[d] = oLogger[c] /\ oLogger[c] \in Loggers
    BY <1>1, <1>2, WorkStepNames DEF TypeOK, TakenInv, Shared
  <2> QED
    BY <1>2, <2>1, WorkStepNames DEF TypeOK
<1>3. m_sString[oMessage[c]] # "torn"
  BY <1>1 DEF TextInv
<1> QED
  BY <1>2, <1>3 DEF MayTear

LEMMA TextWrite ==
  ASSUME TypeOK, TakenInv, TextInv, NEW c \in Clients, NEW shows, Write(c, shows)
  PROVE  TextInv'
<1>0. PICK s \in Streams, m \in Messages, size \in Nat :
        s = oOstream(c) /\ m = oMessage[c] /\ size = Len(stream[s])
  <2>1. oOstream(c) \in Streams /\ oMessage[c] \in Messages
    BY WriteStep
  <2>2. Len(stream[oOstream(c)]) \in Nat
    BY Written
  <2> QED
    BY <2>1, <2>2
<1>1. /\ size \in Nat /\ m \in Messages /\ s \in Streams
      /\ s = StreamOf[oLogger[c]] /\ oLogger[c] \in takenBy[m]
      /\ DOMAIN stream[s] = 1..size /\ DOMAIN stream'[s] = 1..(size + 1)
      /\ \A i \in 1..size : stream'[s][i] = stream[s][i]
      /\ stream'[s][size + 1].kind = pc[c] /\ stream'[s][size + 1].of = m
      /\ stream'[s][size + 1].shows = shows
      /\ \A r \in Streams : r # s => stream'[r] = stream[r]
  <2>1. /\ m \in Messages /\ s \in Streams /\ pc[c] \in WorkSteps
        /\ \A r \in Streams : r # s => stream'[r] = stream[r]
    BY <1>0, WriteStep
  <2>2. s = StreamOf[oLogger[c]] /\ oLogger[c] \in takenBy[m]
    BY <1>0, <2>1 DEF oOstream, TakenInv
  <2>3. /\ DOMAIN stream[s] = 1..size /\ DOMAIN stream'[s] = 1..(size + 1)
        /\ \A i \in DOMAIN stream[s] : stream'[s][i] = stream[s][i]
        /\ stream'[s][size + 1].kind = pc[c] /\ stream'[s][size + 1].of = m
        /\ stream'[s][size + 1].shows = shows
    BY <1>0, Written
  <2> QED
    BY <2>1, <2>2, <2>3
<1>2. takenBy' = takenBy
  BY DEF Write
<1>3. /\ \A n \in Messages : n # m \/ pc[c] # "text" => m_sString'[n] = m_sString[n]
      /\ pc[c] = "text" =>
           /\ shows \in Texts
           /\ \/ m_sString'[m] = "empty" /\ shows # "torn" /\ shows = m_sString[m]
              \/ m_sString'[m] = "torn" /\ MayTear(c)
  <2>1. pc[c] = "text" => shows \in Texts /\ StealString(c, shows)
    BY DEF Write
  <2>2. pc[c] # "text" => m_sString' = m_sString
    BY DEF Write
  <2> QED
    BY <1>0, <2>1, <2>2, StealStep
<1>4. pc[c] = "text" /\ ~Shared(m) => ~MayTear(c)
  BY <1>0, AloneWithText
<1>5. m_sString[m] \in Texts /\ ~(m_sString[m] = "whole" /\ m_sString[m] = "empty")
  BY <1>1 DEF TypeOK
<1>6. ASSUME NEW r \in Streams, NEW i \in DOMAIN stream'[r], NEW n, ShowsText(r, i, n)'
      PROVE  \/ /\ i \in DOMAIN stream[r] /\ ShowsText(r, i, n)
                /\ stream'[r][i] = stream[r][i]
             \/ r = s /\ i = size + 1 /\ pc[c] = "text" /\ n = m
  <2>1. CASE r # s
    BY <1>1, <1>6, <2>1 DEF ShowsText
  <2>2. CASE r = s /\ i \in 1..size
    BY <1>1, <1>6, <2>2 DEF ShowsText
  <2>3. CASE r = s /\ i = size + 1
    BY <1>1, <1>6, <2>3 DEF ShowsText
  <2> QED
    BY <1>1, <1>6, <2>1, <2>2, <2>3
<1>7. ASSUME NEW r \in Streams, NEW i \in DOMAIN stream[r]
      PROVE  /\ i \in DOMAIN stream'[r] /\ stream'[r][i] = stream[r][i]
             /\ \A n : ShowsText(r, i, n)' <=> ShowsText(r, i, n)
  <2>1. i \in DOMAIN stream'[r] /\ stream'[r][i] = stream[r][i]
    <3>1. CASE r # s
      BY <1>1, <3>1
    <3>2. CASE r = s
      BY <1>1, <3>2
    <3> QED
      BY <3>1, <3>2
  <2> QED
    BY <2>1 DEF ShowsText
<1>8. ASSUME NEW n \in Messages, NEW r \in Streams, NEW i \in DOMAIN stream'[r],
             ShowsText(r, i, n)'
      PROVE  m_sString'[n] # "whole"
  BY <1>3, <1>6, <1>8 DEF TextInv
<1>9. \A n : Shared(n)' <=> Shared(n)
  BY <1>2 DEF Shared
<1>10. ASSUME NEW n \in Messages, ~Shared(n)
       PROVE  /\ m_sString'[n] # "torn"
              /\ m_sString'[n] = "empty" =>
                   \E l \in takenBy[n] : \E i \in DOMAIN stream'[StreamOf[l]] :
                     ShowsText(StreamOf[l], i, n)'
  <2>1. CASE n = m /\ pc[c] = "text"
    <3>1. m_sString'[n] = "empty"
      BY <1>3, <1>4, <1>10, <2>1
    <3>2. size + 1 \in DOMAIN stream'[s] /\ ShowsText(s, size + 1, n)'
      BY <1>1, <2>1 DEF ShowsText
    <3> QED
      BY <1>1, <2>1, <3>1, <3>2
  <2>2. CASE n # m \/ pc[c] # "text"
    <3>1. m_sString'[n] = m_sString[n] /\ m_sString[n] # "torn"
      BY <1>3, <1>10, <2>2 DEF TextInv
    <3>2. ASSUME m_sString[n] = "empty"
          PROVE  \E l \in takenBy[n] : \E i \in DOMAIN stream'[StreamOf[l]] :
                   ShowsText(StreamOf[l], i, n)'
      <4>1. PICK l \in takenBy[n] : \E i \in DOMAIN stream[StreamOf[l]] :
              ShowsText(StreamOf[l], i, n)
        BY <1>10, <3>2 DEF TextInv
      <4>2. StreamOf[l] \in Streams
        BY <4>1, ConstantsAssumption DEF TypeOK
      <4> QED
        BY <1>7, <4>1, <4>2
    <3> QED
      BY <3>1, <3>2
  <2> QED
    BY <2>1, <2>2
<1>11. ASSUME NEW n \in Messages, ~Shared(n), NEW r \in Streams,
              NEW j \in DOMAIN stream'[r], ShowsText(r, j, n)'
       PROVE  stream'[r][j].shows =
                IF \E i \in 1..(j - 1) : ShowsText(r, i, n)' THEN "empty" ELSE "whole"
  <2>1. CASE j \in DOMAIN stream[r]
    <3>1. ShowsText(r, j, n) /\ stream'[r][j] = stream[r][j]
      BY <1>7, <1>11, <2>1
    <3>2. stream[r][j].shows =
            IF \E i \in 1..(j - 1) : ShowsText(r, i, n) THEN "empty" ELSE "whole"
      BY <1>11, <2>1, <3>1 DEF TextInv, TextGoesToFirst
    <3>3. \A i \in 1..(j - 1) : i \in DOMAIN stream[r]
      <4>1. Len(stream[r]) \in Nat /\ DOMAIN stream[r] = 1..Len(stream[r])
        BY DEF TypeOK
      <4> QED
        BY <2>1, <4>1
    <3> QED
      BY <1>7, <3>1, <3>2, <3>3
  <2>2. CASE r = s /\ j = size + 1 /\ pc[c] = "text" /\ n = m
    <3>1. stream'[s][j].shows = m_sString[m] /\ m_sString[m] # "torn"
      BY <1>1, <1>3, <1>4, <1>11, <2>2
    <3>2. ASSUME m_sString[m] = "whole", NEW i \in 1..size, ShowsText(s, i, m)'
          PROVE  FALSE
      BY <1>1, <1>7, <3>2 DEF TextInv
    <3>3. ASSUME m_sString[m] = "empty" PROVE \E i \in 1..size : ShowsText(s, i, m)'
      <4>1. PICK l \in takenBy[m] : \E i \in DOMAIN stream[StreamOf[l]] :
              ShowsText(StreamOf[l], i, m)
        BY <1>1, <1>11, <2>2, <3>3 DEF TextInv
      <4>2. l = oLogger[c]
        BY <1>1, <1>11, <2>2, <4>1 DEF Shared
      <4>3. PICK i \in DOMAIN stream[s] : ShowsText(s, i, m)
        BY <1>1, <4>1, <4>2
      <4> QED
        BY <1>1, <1>7, <4>3
    <3>4. m_sString[m] \in {"whole", "empty"} /\ (m_sString[m] = "whole" => m_sString[m] # "empty")
      BY <1>5, <3>1 DEF Texts
    <3>5. 1..(j - 1) = 1..size
      BY <1>1, <2>2
    <3> QED
      BY <2>2, <3>1, <3>2, <3>3, <3>4, <3>5
  <2> QED
    BY <1>6, <1>11, <2>1, <2>2
<1>12. ASSUME NEW n \in Messages, m_sString'[n] # "torn", NEW q \in Streams,
              NEW r \in Streams, NEW i \in DOMAIN stream'[q], NEW j \in DOMAIN stream'[r],
              ShowsText(q, i, n)', stream'[q][i].shows = "whole",
              ShowsText(r, j, n)', stream'[r][j].shows = "whole"
       PROVE  q = r /\ i = j
  <2>1. m_sString[n] # "torn"
    BY <1>3, <1>12
  <2>2. ASSUME NEW t \in Streams, NEW k \in DOMAIN stream[t], ShowsText(t, k, n),
               pc[c] = "text", n = m, shows = "whole"
        PROVE  FALSE
    <3>1. m_sString[m] = "whole"
      BY <1>3, <1>12, <2>2
    <3> QED
      BY <1>1, <2>2, <3>1 DEF TextInv
  <2>3. CASE i \in DOMAIN stream[q] /\ j \in DOMAIN stream[r]
    BY <1>7, <1>12, <2>1, <2>3 DEF TextInv, TextGoesToFirst
  <2>4. CASE i \in DOMAIN stream[q] /\ ~(j \in DOMAIN stream[r])
    <3>1. r = s /\ j = size + 1 /\ pc[c] = "text" /\ n = m
      BY <1>6, <1>12, <2>4
    <3>2. ShowsText(q, i, n) /\ shows = "whole"
      BY <1>1, <1>7, <1>12, <2>4, <3>1
    <3> QED
      BY <2>2, <2>4, <3>1, <3>2
  <2>5. CASE ~(i \in DOMAIN stream[q]) /\ j \in DOMAIN stream[r]
    <3>1. q = s /\ i = size + 1 /\ pc[c] = "text" /\ n = m
      BY <1>6, <1>12, <2>5
    <3>2. ShowsText(r, j, n) /\ shows = "whole"
      BY <1>1, <1>7, <1>12, <2>5, <3>1
    <3> QED
      BY <2>2, <2>5, <3>1, <3>2
  <2>6. CASE ~(i \in DOMAIN stream[q]) /\ ~(j \in DOMAIN stream[r])
    BY <1>6, <1>12, <2>6
  <2> QED
    BY <2>3, <2>4, <2>5, <2>6
<1>13. TextGoesToFirst'
  BY <1>9, <1>11, <1>12 DEF TextGoesToFirst
<1> QED
  BY <1>2, <1>8, <1>9, <1>10, <1>13 DEF TextInv

LEMMA TextStep == TypeOK /\ TakenInv /\ TextInv /\ [Next]_vars => TextInv'
<1> SUFFICES ASSUME TypeOK, TakenInv, TextInv, [Next]_vars PROVE TextInv'
  OBVIOUS
<1>1. ASSUME UNCHANGED <<stream, m_sString>>,
             \A m \in Messages : takenBy[m] \subseteq takenBy'[m]
      PROVE  TextInv'
  <2>1. \A m \in Messages : ~Shared(m)' => ~Shared(m)
    BY <1>1, SharedStays
  <2>2. \A s, i, m : ShowsText(s, i, m)' <=> ShowsText(s, i, m)
    BY <1>1 DEF ShowsText
  <2>3. TextGoesToFirst'
    BY <1>1, <2>1, <2>2 DEF TextInv, TextGoesToFirst
  <2>4. ASSUME NEW m \in Messages, ~Shared(m)', m_sString[m] = "empty"
        PROVE  \E l \in takenBy'[m] : \E i \in DOMAIN stream[StreamOf[l]] :
                 ShowsText(StreamOf[l], i, m)
    BY <1>1, <2>1, <2>4 DEF TextInv
  <2> QED
    BY <1>1, <2>1, <2>2, <2>3, <2>4 DEF TextInv
<1>2. ASSUME NEW c \in Clients, LogLock(c) \/ Flush(c) \/ ReadClock(c)
      PROVE  TextInv'
  <2>1. UNCHANGED <<stream, m_sString>>
    BY <1>2 DEF LogLock, Flush, ReadClock, outVars
  <2>2. \A m \in Messages : takenBy[m] \subseteq takenBy'[m]
    BY <1>2 DEF LogLock, Flush, ReadClock, TypeOK
  <2> QED
    BY <1>1, <2>1, <2>2
<1>3. ASSUME NEW c \in Clients, NEW shows, Write(c, shows) PROVE TextInv'
  BY <1>3, TextWrite
<1>4. ASSUME NEW c \in Clients, NEW l \in Loggers, NEW m \in Messages, Log(c, l, m)
      PROVE  TextInv'
  BY <1>1, <1>4 DEF Log, outVars
<1>5. ASSUME NEW c \in Clients, NEW l \in Loggers, Start(c, l) \/ Stop(c, l)
      PROVE  TextInv'
  BY <1>1, <1>5 DEF Start, Stop, lifeUnchanged, outVars
<1>6. ASSUME NEW l \in Loggers, SinkBreaks(l) PROVE TextInv'
  BY <1>1, <1>6 DEF SinkBreaks, lifeUnchanged, outVars
<1>7. ASSUME Tick \/ SetBack \/ UNCHANGED vars PROVE TextInv'
  BY <1>1, <1>7 DEF Tick, SetBack, vars, outVars
<1> QED
  BY <1>2, <1>3, <1>4, <1>5, <1>6, <1>7, WorkShapes DEF Next

\* However many copies of a message are logged, and by whichever threads, its
\* text comes out whole in the first line and in no other, as long as one logger
\* takes them all; and at most once over all loggers, unless two of them move it
\* out at the same moment.
THEOREM TextGoesToFirstHolds == Spec => []TextGoesToFirst
<1>1. TextInv => TextGoesToFirst
  BY DEF TextInv
<1> QED
  BY <1>1, TypeInit, TypeStep, TakenInit, TakenStep, TextInit, TextStep, PTL DEF Spec

-----------------------------------------------------------------------------
(* The time stamps                                                         *)

\* The reading a thread has taken is no earlier than any its stream shows: nobody
\* else can have written since it took the lock.
TimeInv ==
  /\ \A c \in Clients : NotAfter(nTime[c], clock)
  /\ \A s \in Unshared : \A i \in DOMAIN stream[s] :
       stream[s][i].kind = "time" => NotAfter(stream[s][i].shows, clock)
  /\ \A c \in Clients : pc[c] = "time" /\ oOstream(c) \in Unshared =>
       \A i \in DOMAIN stream[oOstream(c)] :
         stream[oOstream(c)][i].kind = "time" =>
           NotAfter(stream[oOstream(c)][i].shows, nTime[c])
  /\ TimeStampsOrdered

\* The order of readings.
LEMMA NotAfterIsOrder ==
  /\ \A r \in Readings : NotAfter(r, r) /\ NotAfter(Midnight, r)
  /\ \A r, q, t \in Readings : NotAfter(r, q) /\ NotAfter(q, t) => NotAfter(r, t)
<1>1. \A r \in Readings : r.setBacks \in Nat /\ r.time \in Nat
  BY ConstantsAssumption DEF Readings
<1> QED
  BY <1>1 DEF NotAfter, Midnight

LEMMA Times ==
  ASSUME TypeOK
  PROVE  /\ clock \in Readings /\ \A c \in Clients : nTime[c] \in Readings
         /\ \A s \in Streams : \A i \in DOMAIN stream[s] :
              stream[s][i].kind = "time" => stream[s][i].shows \in Readings
<1>1. clock \in Readings /\ \A c \in Clients : nTime[c] \in Readings
  BY DEF TypeOK
<1>2. \A p \in Piece : p.kind = "time" => p.shows \in Readings
  BY DEF Piece
<1> QED
  BY <1>1, <1>2 DEF TypeOK

LEMMA TimeInit == Init => TimeInv
<1>1. Init => TypeOK
  BY TypeInit
<1> QED
  BY <1>1, Times, NotAfterIsOrder DEF Init, TimeInv, TimeStampsOrdered, Unshared

LEMMA TimeStep == TypeOK /\ TimeInv /\ [Next]_vars => TimeInv'
<1> SUFFICES ASSUME TypeOK, TimeInv, [Next]_vars PROVE TimeInv'
  OBVIOUS
<1>1. TypeOK'
  BY TypeStep
<1>2. ASSUME NEW c \in Clients, NEW shows, Write(c, shows) PROVE TimeInv'
  <2> DEFINE s == oOstream(c)
             size == Len(stream[s])
  <2>1. /\ size \in Nat /\ s \in Streams
        /\ DOMAIN stream[s] = 1..size /\ DOMAIN stream'[s] = 1..(size + 1)
        /\ \A i \in 1..size : stream'[s][i] = stream[s][i]
        /\ stream'[s][size + 1].kind = pc[c]
        /\ stream'[s][size + 1].shows = shows
    BY <1>2, Written, WriteStep
  <2>2. /\ \A r \in Streams : r # s => stream'[r] = stream[r]
        /\ pc[c] \in WorkSteps
        /\ \A d \in Clients : d # c => pc'[d] = pc[d]
    BY <1>2, WriteStep
  <2>3. /\ nTime' = IF pc[c] = "time" THEN [nTime EXCEPT ![c] = Midnight] ELSE nTime
        /\ clock' = clock /\ oLogger' = oLogger /\ pc'[c] # "time"
    BY <1>2 DEF Write, Following, TypeOK, callVars
  <2>4. \A d \in Clients : oOstream(d)' = oOstream(d)
    BY <2>3 DEF oOstream
  <2>5. shows = nTime[c] \/ pc[c] # "time"
    BY <1>2 DEF Write
  <2>6. s \in Unshared => \A d \in Clients :
          pc[d] \in WorkSteps /\ oOstream(d) = s => d = c
    BY <2>2, OneWriter
  <2> HIDE DEF s, size
  <2>7. \A d \in Clients : NotAfter(nTime'[d], clock)
    BY <2>3, Times, NotAfterIsOrder DEF TimeInv, TypeOK
  <2>8. ASSUME NEW r \in Unshared, NEW i \in DOMAIN stream'[r],
               stream'[r][i].kind = "time"
        PROVE  NotAfter(stream'[r][i].shows, clock)
    <3>1. CASE r # s
      BY <2>2, <2>8, <3>1 DEF TimeInv, Unshared
    <3>2. CASE r = s /\ i \in 1..size
      BY <2>1, <2>8, <3>2 DEF TimeInv
    <3>3. CASE r = s /\ i = size + 1
      BY <2>1, <2>5, <2>8, <3>3 DEF TimeInv
    <3> QED
      BY <2>1, <2>8, <3>1, <3>2, <3>3
  <2>9. ASSUME NEW d \in Clients, pc'[d] = "time", oOstream(d) \in Unshared,
               NEW i \in DOMAIN stream'[oOstream(d)],
               stream'[oOstream(d)][i].kind = "time"
        PROVE  NotAfter(stream'[oOstream(d)][i].shows, nTime'[d])
    <3>1. d # c /\ pc[d] = "time" /\ nTime'[d] = nTime[d]
      BY <2>2, <2>3, <2>9 DEF TypeOK
    <3>2. oOstream(d) # s
      BY <2>6, <2>9, <3>1, WorkStepNames
    <3>3. stream'[oOstream(d)] = stream[oOstream(d)]
      BY <2>2, <2>9, <3>2 DEF Unshared
    <3> QED
      BY <2>9, <3>1, <3>3 DEF TimeInv
  <2>10. ASSUME NEW r \in Unshared, NEW i \in DOMAIN stream'[r], NEW j \in DOMAIN stream'[r],
                i < j, stream'[r][i].kind = "time", stream'[r][j].kind = "time"
         PROVE  NotAfter(stream'[r][i].shows, stream'[r][j].shows)
    <3>1. CASE r # s
      <4>1. stream'[r] = stream[r]
        BY <2>2, <3>1 DEF Unshared
      <4> QED
        BY <2>10, <4>1 DEF TimeInv, TimeStampsOrdered
    <3>2. CASE r = s /\ j \in 1..size
      <4>1. i \in 1..size
        BY <2>1, <2>10, <3>2
      <4> QED
        BY <2>1, <2>10, <3>2, <4>1 DEF TimeInv, TimeStampsOrdered
    <3>3. CASE r = s /\ j = size + 1
      <4>1. i \in 1..size /\ pc[c] = "time" /\ stream'[s][j].shows = nTime[c]
        BY <2>1, <2>5, <2>10, <3>3
      <4>2. stream[s][i].kind = "time" /\ stream'[s][i].shows = stream[s][i].shows
        BY <2>1, <2>10, <3>3, <4>1
      <4>3. NotAfter(stream[s][i].shows, nTime[c])
        BY <2>1, <2>10, <3>3, <4>1, <4>2 DEF TimeInv, s
      <4> QED
        BY <3>3, <4>1, <4>2, <4>3
    <3> QED
      BY <2>1, <2>10, <3>1, <3>2, <3>3
  <2>11. TimeStampsOrdered'
    BY <2>10 DEF TimeStampsOrdered
  <2> QED
    BY <2>3, <2>4, <2>7, <2>8, <2>9, <2>11 DEF TimeInv
<1>3. ASSUME UNCHANGED stream, NotAfter(clock, clock'),
             \A d \in Clients : NotAfter(nTime'[d], clock'),
             \A d \in Clients : pc'[d] = "time" =>
               /\ oLogger'[d] = oLogger[d]
               /\ (pc[d] = "time" /\ nTime'[d] = nTime[d]) \/ nTime'[d] = clock
      PROVE  TimeInv'
  <2>1. TimeStampsOrdered'
    BY <1>3 DEF TimeInv, TimeStampsOrdered
  <2>2. ASSUME NEW r \in Unshared, NEW i \in DOMAIN stream[r], stream[r][i].kind = "time"
        PROVE  NotAfter(stream[r][i].shows, clock) /\ NotAfter(stream[r][i].shows, clock')
    <3>1. stream[r][i].shows \in Readings /\ clock \in Readings
      BY <2>2, Times DEF Unshared
    <3>2. clock' \in Readings
      BY <1>1 DEF TypeOK
    <3>3. NotAfter(stream[r][i].shows, clock)
      BY <2>2 DEF TimeInv
    <3> QED
      BY <1>3, <3>1, <3>2, <3>3, NotAfterIsOrder
  <2>3. ASSUME NEW d \in Clients, pc'[d] = "time", oOstream(d) \in Unshared,
               NEW i \in DOMAIN stream[oOstream(d)],
               stream[oOstream(d)][i].kind = "time"
        PROVE  NotAfter(stream[oOstream(d)][i].shows, nTime'[d])
    BY <1>3, <2>2, <2>3 DEF TimeInv
  <2>4. \A d \in Clients : pc'[d] = "time" => oOstream(d)' = oOstream(d)
    BY <1>3 DEF oOstream
  <2> QED
    BY <1>3, <2>1, <2>2, <2>3, <2>4 DEF TimeInv
<1>4. /\ clock \in Readings /\ NotAfter(clock, clock)
      /\ \A d \in Clients : nTime[d] \in Readings /\ NotAfter(nTime[d], clock)
  BY Times, NotAfterIsOrder DEF TimeInv
<1>5. ASSUME NEW c \in Clients, ReadClock(c) PROVE TimeInv'
  <2>1. UNCHANGED <<stream, clock, oLogger>>
    BY <1>5 DEF ReadClock, outVars, callVars
  <2>2. \A d \in Clients : NotAfter(nTime'[d], clock')
    BY <1>4, <1>5, <2>1 DEF ReadClock, TypeOK
  <2>3. \A d \in Clients : pc'[d] = "time" =>
          (pc[d] = "time" /\ nTime'[d] = nTime[d]) \/ nTime'[d] = clock
    BY <1>5 DEF ReadClock, TypeOK
  <2> QED
    BY <1>3, <1>4, <2>1, <2>2, <2>3
<1>6. ASSUME NEW c \in Clients, Flush(c) PROVE TimeInv'
  BY <1>3, <1>4, <1>6 DEF Flush, Return, TypeOK
<1>7. ASSUME NEW c \in Clients, LogLock(c) PROVE TimeInv'
  <2>1. UNCHANGED <<stream, clock, nTime>>
    BY <1>7 DEF LogLock, outVars
  <2>2. \A d \in Clients : pc'[d] = "time" => pc[d] = "time" /\ oLogger'[d] = oLogger[d]
    BY <1>7 DEF LogLock, Return, callVars, TypeOK
  <2> QED
    BY <1>3, <1>4, <2>1, <2>2
<1>8. ASSUME NEW c \in Clients, NEW l \in Loggers, NEW m \in Messages, Log(c, l, m) PROVE TimeInv'
  BY <1>3, <1>4, <1>8 DEF Log, TypeOK, outVars
<1>9. ASSUME NEW c \in Clients, NEW l \in Loggers, Start(c, l) \/ Stop(c, l)
      PROVE  TimeInv'
  BY <1>3, <1>4, <1>9 DEF Start, Stop, lifeUnchanged, outVars, callVars
<1>10. ASSUME NEW l \in Loggers, SinkBreaks(l) PROVE TimeInv'
  BY <1>3, <1>4, <1>10 DEF SinkBreaks, lifeUnchanged, outVars, callVars
<1>11. ASSUME Tick \/ SetBack PROVE TimeInv'
  <2>1. UNCHANGED <<stream, nTime, pc, oLogger>>
    BY <1>11 DEF Tick, SetBack, outVars, callVars
  <2>2. clock' \in Readings /\ NotAfter(clock, clock')
    BY <1>11, ClockStep
  <2>3. \A d \in Clients : NotAfter(nTime'[d], clock')
    BY <1>4, <2>1, <2>2, NotAfterIsOrder
  <2> QED
    BY <1>3, <2>1, <2>2, <2>3
<1>12. ASSUME UNCHANGED vars PROVE TimeInv'
  BY <1>3, <1>4, <1>12 DEF vars
<1>13. ASSUME NEW c \in Clients, WorkStep(c)
      PROVE  (\E shows : Write(c, shows)) \/ Flush(c) \/ ReadClock(c)
  BY <1>13, WorkShapes
<1> QED
  BY <1>2, <1>5, <1>6, <1>7, <1>8, <1>9, <1>10, <1>11, <1>12, <1>13 DEF Next

\* The lines of a stream stand in the order in which the clock was read for them,
\* however the threads race for the lock and whoever sets the clock.
THEOREM TimeStampsOrderedHolds == Spec => []TimeStampsOrdered
<1>1. TimeInv => TimeStampsOrdered
  BY DEF TimeInv
<1> QED
  BY <1>1, TypeInit, TypeStep, TimeInit, TimeStep, PTL DEF Spec

-----------------------------------------------------------------------------
(* The lines                                                               *)

LEMMA FourToALine ==
  ASSUME NEW n \in Nat, NEW b \in 0..3
  PROVE  (4 * n + b) % 4 = b /\ (4 * n + b) \div 4 = n
<1>1. CASE b = 0
  BY <1>1
<1>2. CASE b = 1
  BY <1>2
<1>3. CASE b = 2
  BY <1>3
<1>4. CASE b = 3
  BY <1>4
<1> QED
  BY <1>1, <1>2, <1>3, <1>4

\* How many pieces of its line a thread has written.
Phase ==
  [now |-> 0, time |-> 0, level |-> 1, text |-> 2, end |-> 3, flush |-> 0]

\* A stream of n whole lines and b pieces.
Measures(pieces, n, b) == n \in Nat /\ Len(pieces) = 4 * n + b

\* The last line of a stream is as far as the thread that has its lock, which
\* wrote every piece of it; with nobody inside work() all lines are whole.
LineInv ==
  /\ \A s \in Unshared : Intact(stream[s])
  /\ \A c \in Clients : pc[c] \in WorkSteps /\ oOstream(c) \in Unshared =>
       /\ \E n : Measures(stream[oOstream(c)], n, Phase[pc[c]])
       /\ Phase[pc[c]] # 0 =>
            stream[oOstream(c)][Len(stream[oOstream(c)])].of = oMessage[c]
  /\ \A l \in Loggers : MayLock(l) /\ StreamOf[l] \in Unshared =>
       \E n : Measures(stream[StreamOf[l]], n, 0)

LEMMA LineInit == Init => LineInv
<1> SUFFICES ASSUME Init PROVE LineInv
  OBVIOUS
<1>1. \A s \in Streams : stream[s] = <<>> /\ Measures(stream[s], 0, 0)
  BY DEF Init, Measures
<1>2. \A c \in Clients : pc[c] \notin WorkSteps
  BY WorkStepNames DEF Init
<1> QED
  BY <1>1, <1>2 DEF LineInv, Intact, Unshared

\* The next piece of a line keeps a stream intact.
LEMMA IntactStep ==
  ASSUME NEW old, NEW new, Intact(old), NEW n, NEW b \in 0..3, Measures(old, n, b),
         DOMAIN old = 1..Len(old), DOMAIN new = 1..(Len(old) + 1),
         \A i \in DOMAIN old : new[i] = old[i],
         new[Len(old) + 1].kind = Pieces[b + 1],
         b # 0 => new[Len(old) + 1].of = old[Len(old)].of
  PROVE  Intact(new)
<1> SUFFICES ASSUME NEW i \in DOMAIN new
             PROVE  /\ new[i].kind = Pieces[((i - 1) % 4) + 1]
                    /\ new[i].kind # "time" => new[i].of = new[i - 1].of
  BY DEF Intact, Pieces
<1>1. Len(old) \in Nat /\ Len(old) = 4 * n + b /\ n \in Nat
  BY DEF Measures
<1>2. Pieces[1] = "time" /\ Len(Pieces) = 4
  BY DEF Pieces
<1>3. CASE i \in DOMAIN old
  <2>1. /\ old[i].kind = Pieces[((i - 1) % 4) + 1]
        /\ old[i].kind # "time" => old[i].of = old[i - 1].of
    BY <1>2, <1>3 DEF Intact
  <2>2. old[i].kind # "time" => i - 1 \in DOMAIN old
    <3>1. CASE i = 1
      BY <1>2, <2>1, <3>1
    <3>2. CASE i # 1
      BY <1>1, <1>3, <3>2
    <3> QED
      BY <3>1, <3>2
  <2> QED
    BY <1>3, <2>1, <2>2
<1>4. CASE i = Len(old) + 1
  <2>1. (i - 1) % 4 = b
    BY <1>1, <1>4, FourToALine
  <2>2. new[i].kind # "time" => b # 0
    BY <1>2, <1>4
  <2>3. b # 0 => Len(old) \in DOMAIN old
    BY <1>1
  <2> QED
    BY <1>1, <1>4, <2>1, <2>2, <2>3
<1> QED
  BY <1>1, <1>3, <1>4

LEMMA LineStep == TypeOK /\ LineInv /\ [Next]_vars => LineInv'
<1> SUFFICES ASSUME TypeOK, LineInv, [Next]_vars PROVE LineInv'
  OBVIOUS
<1> USE ConstantsAssumption
<1>1. ASSUME NEW c \in Clients, NEW shows, Write(c, shows) PROVE LineInv'
  <2> DEFINE s == oOstream(c)
             size == Len(stream[s])
             b == Phase[pc[c]]
  <2>1. /\ size \in Nat /\ s \in Streams
        /\ DOMAIN stream[s] = 1..size /\ DOMAIN stream'[s] = 1..(size + 1)
        /\ \A i \in 1..size : stream'[s][i] = stream[s][i]
        /\ stream'[s][size + 1].kind = pc[c]
        /\ stream'[s][size + 1].of = oMessage[c]
        /\ Len(stream'[s]) = size + 1
    <3>1. s \in Streams
      BY <1>1, WriteStep
    <3>2. /\ size \in Nat /\ Len(stream'[s]) = size + 1
          /\ DOMAIN stream[s] = 1..size /\ DOMAIN stream'[s] = 1..(size + 1)
          /\ \A i \in DOMAIN stream[s] : stream'[s][i] = stream[s][i]
          /\ stream'[s][size + 1].kind = pc[c] /\ stream'[s][size + 1].of = oMessage[c]
      BY <1>1, Written
    <3> HIDE DEF s, size
    <3> QED
      BY <3>1, <3>2
  <2>2. /\ \A r \in Streams : r # s => stream'[r] = stream[r]
        /\ pc[c] \in WorkSteps
        /\ \A d \in Clients : d # c => pc'[d] = pc[d]
    BY <1>1, WriteStep
  <2>3. /\ pc[c] \in {"time", "level", "text", "end"}
        /\ pc'[c] = Following[pc[c]]
        /\ oMessage' = oMessage /\ oLogger' = oLogger
        /\ m_oGeneralMutex' = m_oGeneralMutex
    BY <1>1 DEF Write, callVars, TypeOK
  <2>4. \A d \in Clients : oOstream(d)' = oOstream(d)
    BY <2>3 DEF oOstream
  <2>5. s \in Unshared =>
          /\ \A d \in Clients : pc[d] \in WorkSteps /\ oOstream(d) = s => d = c
          /\ \A l \in Loggers : StreamOf[l] = s => ~MayLock(l)
    BY <2>2, OneWriter
  <2>6. /\ b \in 0..3 /\ Pieces[b + 1] = pc[c]
        /\ Phase[pc'[c]] = IF b = 3 THEN 0 ELSE b + 1
    BY <2>3 DEF Phase, Following, Pieces
  <2>7. s \in Unshared =>
          /\ Intact(stream[s]) /\ \E n : Measures(stream[s], n, b)
          /\ b # 0 => stream[s][size].of = oMessage[c]
    BY <2>2 DEF LineInv
  <2> HIDE DEF s, size, b
  <2>8. ASSUME NEW r \in Unshared PROVE Intact(stream'[r])
    <3>1. CASE r # s
      BY <2>2, <3>1 DEF LineInv, Unshared
    <3>2. CASE r = s
      <4>1. PICK n : Measures(stream[s], n, b)
        BY <2>7, <2>8, <3>2
      <4> QED
        BY <2>1, <2>6, <2>7, <2>8, <3>2, <4>1, IntactStep, ZenonT(60) DEF size
    <3> QED
      BY <3>1, <3>2
  <2>9. ASSUME NEW d \in Clients, pc'[d] \in WorkSteps, oOstream(d) \in Unshared
        PROVE  /\ \E n : Measures(stream'[oOstream(d)], n, Phase[pc'[d]])
               /\ Phase[pc'[d]] # 0 =>
                    stream'[oOstream(d)][Len(stream'[oOstream(d)])].of = oMessage[d]
    <3>1. CASE d = c
      <4>1. PICK n : Measures(stream[s], n, b)
        BY <2>7, <2>9, <3>1 DEF s
      <4>2. \E k : Measures(stream'[s], k, Phase[pc'[c]])
        <5>1. CASE b = 3
          <6>1. Measures(stream'[s], n + 1, 0)
            BY <2>1, <4>1, <5>1 DEF Measures, size
          <6> QED
            BY <2>6, <5>1, <6>1
        <5>2. CASE b # 3
          <6>1. Measures(stream'[s], n, b + 1)
            BY <2>1, <2>6, <4>1, <5>2 DEF Measures, size
          <6> QED
            BY <2>6, <5>2, <6>1
        <5> QED
          BY <5>1, <5>2
      <4> QED
        BY <2>1, <3>1, <4>2 DEF s
    <3>2. CASE d # c
      <4>1. pc'[d] = pc[d] /\ oOstream(d) # s
        BY <2>2, <2>5, <2>9, <3>2
      <4>2. stream'[oOstream(d)] = stream[oOstream(d)]
        BY <2>2, <2>9, <4>1 DEF Unshared
      <4> QED
        BY <2>9, <4>1, <4>2 DEF LineInv
    <3> QED
      BY <3>1, <3>2
  <2>10. ASSUME NEW l \in Loggers, MayLock(l), StreamOf[l] \in Unshared
         PROVE  \E n : Measures(stream'[StreamOf[l]], n, 0)
    <3>1. StreamOf[l] # s
      BY <2>5, <2>10
    <3>2. stream'[StreamOf[l]] = stream[StreamOf[l]]
      BY <2>2, <2>10, <3>1 DEF Unshared
    <3> QED
      BY <2>10, <3>2 DEF LineInv
  <2>11. \A l \in Loggers : MayLock(l)' = MayLock(l)
    BY <2>3 DEF MayLock
  <2> QED
    BY <2>3, <2>4, <2>8, <2>9, <2>10, <2>11 DEF LineInv
<1>2. ASSUME UNCHANGED stream,
             \A d \in Clients : pc'[d] \in WorkSteps =>
               /\ oMessage'[d] = oMessage[d] /\ oLogger'[d] = oLogger[d]
               /\ \/ pc[d] \in WorkSteps /\ Phase[pc'[d]] = Phase[pc[d]]
                  \/ MayLock(oLogger[d]) /\ oLogger[d] \in Loggers /\ pc'[d] = "now",
             \A l \in Loggers : m_oGeneralMutex'[l] = NoThread =>
               \/ m_oGeneralMutex[l] = NoThread
               \/ \E c \in Clients : pc[c] = "flush" /\ oLogger[c] = l
      PROVE  LineInv'
  <2>1. \A d \in Clients : pc'[d] \in WorkSteps => oOstream(d)' = oOstream(d)
    BY <1>2 DEF oOstream
  <2>2. ASSUME NEW d \in Clients, pc'[d] \in WorkSteps, oOstream(d) \in Unshared
        PROVE  /\ \E n : Measures(stream[oOstream(d)], n, Phase[pc'[d]])
               /\ Phase[pc'[d]] # 0 =>
                    stream[oOstream(d)][Len(stream[oOstream(d)])].of = oMessage[d]
    <3>1. CASE pc[d] \in WorkSteps /\ Phase[pc'[d]] = Phase[pc[d]]
      BY <2>2, <3>1 DEF LineInv
    <3>2. CASE MayLock(oLogger[d]) /\ oLogger[d] \in Loggers /\ pc'[d] = "now"
      BY <2>2, <3>2 DEF LineInv, oOstream, Phase
    <3> QED
      BY <1>2, <2>2, <3>1, <3>2
  <2>3. ASSUME NEW l \in Loggers, m_oGeneralMutex'[l] = NoThread, StreamOf[l] \in Unshared
        PROVE  \E n : Measures(stream[StreamOf[l]], n, 0)
    <3>1. CASE m_oGeneralMutex[l] = NoThread
      BY <2>3, <3>1 DEF LineInv, MayLock
    <3>2. ASSUME NEW c \in Clients, pc[c] = "flush", oLogger[c] = l
          PROVE  \E n : Measures(stream[StreamOf[l]], n, 0)
      BY <2>3, <3>2, WorkStepNames DEF LineInv, oOstream, Phase
    <3> QED
      BY <1>2, <2>3, <3>1, <3>2
  <2> QED
    BY <1>2, <2>1, <2>2, <2>3 DEF LineInv, MayLock
<1>3. ASSUME NEW c \in Clients, ReadClock(c) PROVE LineInv'
  <2>1. /\ UNCHANGED <<stream, m_oGeneralMutex, oMessage, oLogger>>
        /\ pc' = [pc EXCEPT ![c] = "time"] /\ pc[c] = "now"
    BY <1>3 DEF ReadClock, outVars, callVars
  <2>2. Phase["time"] = Phase["now"]
    BY DEF Phase
  <2> QED
    BY <1>2, <2>1, <2>2, WorkStepNames DEF TypeOK
<1>4. ASSUME NEW c \in Clients, Flush(c) PROVE LineInv'
  <2>1. /\ UNCHANGED stream /\ pc[c] = "flush"
        /\ pc' = [pc EXCEPT ![c] = "idle"]
        /\ oMessage' = [oMessage EXCEPT ![c] = NoMessage]
        /\ oLogger' = [oLogger EXCEPT ![c] = NoLogger]
        /\ m_oGeneralMutex' = [m_oGeneralMutex EXCEPT ![oLogger[c]] = NoThread]
    BY <1>4 DEF Flush, Return
  <2> QED
    BY <1>2, <2>1, WorkStepNames DEF TypeOK
<1>5. ASSUME NEW c \in Clients, LogLock(c) PROVE LineInv'
  <2>1. UNCHANGED stream /\ pc[c] = "lock" /\ MayLock(oLogger[c]) /\ oLogger[c] \in Loggers
    BY <1>5 DEF LogLock, outVars, TypeOK
  <2>2. CASE /\ m_oGeneralMutex' = [m_oGeneralMutex EXCEPT ![oLogger[c]] = c]
             /\ pc' = [pc EXCEPT ![c] = "now"] /\ UNCHANGED callVars
    BY <1>2, <2>1, <2>2, WorkStepNames DEF TypeOK, callVars
  <2>3. CASE /\ pc' = [pc EXCEPT ![c] = "idle"]
             /\ oMessage' = [oMessage EXCEPT ![c] = NoMessage]
             /\ oLogger' = [oLogger EXCEPT ![c] = NoLogger]
             /\ UNCHANGED m_oGeneralMutex
    BY <1>2, <2>1, <2>3, WorkStepNames DEF TypeOK
  <2> QED
    BY <1>5, <2>2, <2>3 DEF LogLock, Return
<1>6. ASSUME NEW c \in Clients, NEW l \in Loggers, NEW m \in Messages, Log(c, l, m) PROVE LineInv'
  <2>1. /\ UNCHANGED <<stream, m_oGeneralMutex>> /\ pc[c] = "idle"
        /\ pc' = [pc EXCEPT ![c] = "lock"] /\ oMessage' = [oMessage EXCEPT ![c] = m]
        /\ oLogger' = [oLogger EXCEPT ![c] = l]
    BY <1>6 DEF Log, outVars
  <2> QED
    BY <1>2, <2>1, WorkStepNames DEF TypeOK
<1>7. ASSUME UNCHANGED <<stream, m_oGeneralMutex, pc, oMessage, oLogger>> PROVE LineInv'
  BY <1>2, <1>7
<1>8. ASSUME NEW c \in Clients, NEW l \in Loggers, Start(c, l) \/ Stop(c, l)
      PROVE  LineInv'
  BY <1>7, <1>8 DEF Start, Stop, lifeUnchanged, outVars, callVars
<1>9. ASSUME \/ \E l \in Loggers : SinkBreaks(l)
             \/ Tick \/ SetBack \/ UNCHANGED vars
      PROVE  LineInv'
  BY <1>7, <1>9 DEF SinkBreaks, Tick, SetBack, lifeUnchanged, outVars, callVars, vars
<1>10. ASSUME NEW c \in Clients, WorkStep(c)
      PROVE  (\E shows : Write(c, shows)) \/ Flush(c) \/ ReadClock(c)
  BY <1>10, WorkShapes
<1> QED
  BY <1>1, <1>3, <1>4, <1>5, <1>6, <1>8, <1>9, <1>10 DEF Next

\* Any number of threads may log to a logger that has its stream for itself:
\* the four pieces of a line stand together.
THEOREM LinesIntactHolds == Spec => []LinesIntact
<1>1. LineInv => LinesIntact
  BY DEF LineInv, LinesIntact
<1> QED
  BY <1>1, TypeInit, TypeStep, LineInit, LineStep, PTL DEF Spec

-----------------------------------------------------------------------------
(* The abstract log                                                        *)

LineAt(pieces, i) ==
  [of |-> pieces[4 * i].of, time |-> pieces[4 * i - 3].shows,
   text |-> pieces[4 * i - 1].shows]

LinesIn(pieces) == [i \in 1..(Len(pieces) \div 4) |-> LineAt(pieces, i)]

LEMMA LinesAreIn ==
  \A s : Lines(s) = LinesIn(stream[s]) /\ Lines(s)' = LinesIn(stream'[s])
<1>1. Len(Pieces) = 4
  BY DEF Pieces
<1> QED
  BY <1>1 DEF Lines, LinesIn, LineAt

\* One more piece.
Longer(old, new) ==
  Len(new) = Len(old) + 1 /\ \A i \in 1..Len(old) : new[i] = old[i]

\* Only the fourth piece of a line adds a line.
LEMMA LinesInStep ==
  ASSUME NEW old, NEW new, NEW n, NEW b \in 0..3, Measures(old, n, b), Longer(old, new)
  PROVE  /\ DOMAIN LinesIn(old) = 1..n
         /\ \A i \in 1..n : LinesIn(old)[i] = LineAt(old, i)
         /\ LinesIn(new) = IF b = 3 THEN Append(LinesIn(old), LineAt(new, n + 1))
                                    ELSE LinesIn(old)
         /\ b = 3 => LinesIn(new) # LinesIn(old)
<1> USE DEF Longer
<1>1. n \in Nat /\ Len(old) = 4 * n + b
  BY DEF Measures
<1>2. Len(old) \div 4 = n
  BY <1>1, FourToALine
<1>3. LinesIn(old) = [i \in 1..n |-> LineAt(old, i)]
  BY <1>2 DEF LinesIn
<1>4. \A i \in 1..n : LineAt(new, i) = LineAt(old, i)
  BY <1>1 DEF LineAt
<1>5. CASE b = 3
  <2>1. Len(new) = 4 * (n + 1) + 0
    BY <1>1, <1>5
  <2>2. Len(new) \div 4 = n + 1
    BY <1>1, <2>1, FourToALine
  <2>3. LinesIn(new) = [i \in 1..(n + 1) |-> LineAt(new, i)]
    BY <2>2 DEF LinesIn
  <2> DEFINE T == {LineAt(old, i) : i \in 1..n} \cup {LineAt(new, n + 1)}
             log == [i \in 1..n |-> LineAt(old, i)]
             last == LineAt(new, n + 1)
  <2>4. log \in Seq(T) /\ last \in T /\ Len(log) = n
    BY <1>1
  <2> HIDE DEF T
  <2>5. Append(log, last) = [i \in 1..(n + 1) |-> IF i = n + 1 THEN last ELSE log[i]]
    BY <1>1, <2>4
  <2>6. \A i \in 1..(n + 1) :
          LineAt(new, i) = IF i = n + 1 THEN last ELSE log[i]
    BY <1>1, <1>4
  <2>7. LinesIn(old) = log
    BY <1>3
  <2> HIDE DEF log, last
  <2>8. LinesIn(new) = [i \in 1..(n + 1) |-> IF i = n + 1 THEN last ELSE log[i]]
    BY <2>3, <2>6
  <2>9. LinesIn(new) = Append(LinesIn(old), last)
    BY <2>5, <2>7, <2>8
  <2>10. DOMAIN LinesIn(new) # DOMAIN LinesIn(old)
    BY <1>1, <1>3, <2>3
  <2> QED
    BY <1>3, <1>5, <2>9, <2>10 DEF last
<1>6. CASE b # 3
  <2>1. Len(new) = 4 * n + (b + 1) /\ b + 1 \in 0..3
    BY <1>1, <1>6
  <2>2. Len(new) \div 4 = n
    BY <1>1, <2>1, FourToALine
  <2>3. LinesIn(new) = [i \in 1..n |-> LineAt(new, i)]
    BY <2>2 DEF LinesIn
  <2> QED
    BY <1>3, <1>4, <1>6, <2>3
<1> QED
  BY <1>3, <1>5, <1>6

\* The pieces of a whole line.
LEMMA WholeLine ==
  ASSUME NEW pieces, Intact(pieces), DOMAIN pieces = 1..Len(pieces), Len(pieces) \in Nat,
         NEW i \in Nat, i # 0, 4 * i <= Len(pieces)
  PROVE  /\ {4 * i - 3, 4 * i - 1, 4 * i} \subseteq DOMAIN pieces
         /\ pieces[4 * i - 3].kind = "time"
         /\ pieces[4 * i - 1].kind = "text"
         /\ pieces[4 * i - 1].of = pieces[4 * i].of
<1>1. {4 * i - 3, 4 * i - 1, 4 * i} \subseteq DOMAIN pieces
  OBVIOUS
<1>2. i - 1 \in Nat
  OBVIOUS
<1>3. /\ (4 * (i - 1) + 0) % 4 = 0 /\ (4 * (i - 1) + 2) % 4 = 2
      /\ (4 * (i - 1) + 3) % 4 = 3
  BY <1>2, FourToALine
<1>4. /\ ((4 * i - 3) - 1) % 4 = 0 /\ ((4 * i - 1) - 1) % 4 = 2 /\ (4 * i - 1) % 4 = 3
  <2>1. /\ (4 * i - 3) - 1 = 4 * (i - 1) + 0
        /\ (4 * i - 1) - 1 = 4 * (i - 1) + 2 /\ 4 * i - 1 = 4 * (i - 1) + 3
    OBVIOUS
  <2> QED
    BY <1>3, <2>1
<1>5. /\ Len(Pieces) = 4 /\ Pieces[1] = "time" /\ Pieces[3] = "text"
      /\ Pieces[4] = "end"
  BY DEF Pieces
<1>6. \A k \in DOMAIN pieces :
        /\ pieces[k].kind = Pieces[((k - 1) % 4) + 1]
        /\ pieces[k].kind # "time" => pieces[k].of = pieces[k - 1].of
  BY <1>5 DEF Intact
<1>7. pieces[4 * i - 3].kind = Pieces[0 + 1] /\ pieces[4 * i - 1].kind = Pieces[2 + 1]
  BY <1>1, <1>4, <1>6
<1>8. pieces[4 * i].kind = Pieces[3 + 1]
  BY <1>1, <1>4, <1>6
<1>9. pieces[4 * i].of = pieces[4 * i - 1].of
  <2>1. pieces[4 * i].kind # "time"
    BY <1>5, <1>8
  <2>2. 4 * i \in DOMAIN pieces
    BY <1>1
  <2> QED
    BY <1>6, <2>1, <2>2
<1> QED
  BY <1>1, <1>5, <1>7, <1>9

\* A text stands in the third place of its line.
LEMMA TextPlace ==
  ASSUME NEW pieces, Intact(pieces), DOMAIN pieces = 1..Len(pieces), NEW n \in Nat,
         Len(pieces) \in Nat, NEW k \in DOMAIN pieces, k <= 4 * n + 2,
         pieces[k].kind = "text"
  PROVE  \E i \in 1..n : k = 4 * i - 1
<1>1. k \in Nat /\ k # 0
  OBVIOUS
<1>2. Pieces[((k - 1) % 4) + 1] = "text"
  BY DEF Intact, Pieces
<1>3. (k - 1) % 4 = 2
  <2>1. (k - 1) % 4 \in {0, 1, 2, 3}
    BY <1>1
  <2> QED
    BY <1>2, <2>1 DEF Pieces
<1>4. k - 1 = 4 * ((k - 1) \div 4) + 2 /\ (k - 1) \div 4 \in Nat
  BY <1>1, <1>3
<1> DEFINE i == ((k - 1) \div 4) + 1
<1>5. i \in Nat /\ k = 4 * i - 1 /\ i # 0
  BY <1>4, SMTT(60)
<1> HIDE DEF i
<1>6. i <= n
  BY <1>5
<1> QED
  BY <1>5, <1>6

\* The write of the end of a line is the abstract log's write of that line.
LEMMA EndOfLine ==
  ASSUME TypeOK, LineInv, SinkInv, TypeOK', LineInv', TextInv', TimeInv',
         NEW c \in Clients, NEW shows, Write(c, shows), pc[c] = "end", oOstream(c) \in Unshared
  PROVE  LineLog!LogNext
<1> USE ConstantsAssumption
<1>0. PICK s, m : s = oOstream(c) /\ m = oMessage[c]
  OBVIOUS
<1> DEFINE size == Len(stream[s])
           L == [r \in Unshared |-> Lines(r)]
<1>1. /\ size \in Nat /\ s \in Streams /\ s \in Unshared
      /\ DOMAIN stream[s] = 1..size /\ DOMAIN stream'[s] = 1..(size + 1)
      /\ \A i \in 1..size : stream'[s][i] = stream[s][i]
      /\ stream'[s][size + 1].of = m
      /\ Len(stream'[s]) = size + 1
      /\ \A r \in Streams : r # s => stream'[r] = stream[r]
  <2>1. /\ s \in Unshared /\ size \in Nat /\ Len(stream'[s]) = size + 1
        /\ DOMAIN stream[s] = 1..size /\ DOMAIN stream'[s] = 1..(size + 1)
        /\ \A i \in DOMAIN stream[s] : stream'[s][i] = stream[s][i]
        /\ stream'[s][size + 1].of = m
    BY <1>0, Written
  <2>2. s \in Streams /\ \A r \in Streams : r # s => stream'[r] = stream[r]
    BY <1>0, WriteStep
  <2> HIDE DEF size
  <2> QED
    BY <2>1, <2>2
<1>2. pc[c] \in WorkSteps /\ m \in Messages /\ sink' = sink /\ clock' = clock
  BY <1>0, WriteStep DEF Write
<1>3. sink[oLogger[c]] # "STOPPED" /\ oLogger[c] \in Loggers /\ StreamOf[oLogger[c]] = s
  BY <1>0, <1>2, WriteStep DEF SinkInv, oOstream
<1>4. PICK n : Measures(stream[s], n, 3)
  BY <1>0, <1>2 DEF LineInv, Phase
<1>5. n \in Nat /\ size = 4 * n + 3
  BY <1>4 DEF Measures
<1>6. Intact(stream[s]) /\ Intact(stream'[s])
  BY <1>1 DEF LineInv
<1> DEFINE t == stream'[s][4 * n + 1].shows
           shown == stream'[s][4 * n + 3].shows
<1>7. /\ {4 * n + 1, 4 * n + 3, 4 * n + 4} \subseteq DOMAIN stream'[s]
      /\ stream'[s][4 * n + 1].kind = "time"
      /\ stream'[s][4 * n + 3].kind = "text" /\ stream'[s][4 * n + 3].of = m
      /\ LineAt(stream'[s], n + 1) = [of |-> m, time |-> t, text |-> shown]
  <2>1. /\ n + 1 \in Nat /\ n + 1 # 0 /\ 4 * (n + 1) <= Len(stream'[s])
        /\ DOMAIN stream'[s] = 1..Len(stream'[s]) /\ Len(stream'[s]) \in Nat
    BY <1>1, <1>5
  <2>2. /\ 4 * (n + 1) - 3 = 4 * n + 1 /\ 4 * (n + 1) - 1 = 4 * n + 3
        /\ 4 * (n + 1) = 4 * n + 4 /\ size + 1 = 4 * n + 4
    BY <1>5
  <2>3. /\ {4 * (n + 1) - 3, 4 * (n + 1) - 1, 4 * (n + 1)} \subseteq DOMAIN stream'[s]
        /\ stream'[s][4 * (n + 1) - 3].kind = "time"
        /\ stream'[s][4 * (n + 1) - 1].kind = "text"
        /\ stream'[s][4 * (n + 1) - 1].of = stream'[s][4 * (n + 1)].of
    BY <1>6, <2>1, WholeLine
  <2>4. LineAt(stream'[s], n + 1) =
          [of   |-> stream'[s][4 * (n + 1)].of,
           time |-> stream'[s][4 * (n + 1) - 3].shows,
           text |-> stream'[s][4 * (n + 1) - 1].shows]
    BY DEF LineAt
  <2>5. stream'[s][4 * n + 4].of = m
    BY <1>1, <2>2
  <2> HIDE DEF size
  <2> QED
    BY ONLY <2>2, <2>3, <2>4, <2>5
<1>8. /\ DOMAIN Lines(s) = 1..n
      /\ \A i \in 1..n : Lines(s)[i] = LineAt(stream[s], i)
      /\ Lines(s)' = Append(Lines(s), [of |-> m, time |-> t, text |-> shown])
      /\ Lines(s)' # Lines(s)
  <2>1. Longer(stream[s], stream'[s])
    BY <1>1 DEF Longer
  <2> HIDE DEF size, t, shown
  <2>2. /\ DOMAIN LinesIn(stream[s]) = 1..n
        /\ \A i \in 1..n : LinesIn(stream[s])[i] = LineAt(stream[s], i)
        /\ LinesIn(stream'[s]) = Append(LinesIn(stream[s]), LineAt(stream'[s], n + 1))
        /\ LinesIn(stream'[s]) # LinesIn(stream[s])
    <3>1. 3 \in 0..3
      OBVIOUS
    <3> QED
      BY <1>4, <2>1, <3>1, LinesInStep
  <2> QED
    BY <1>7, <2>2, LinesAreIn
<1>9. ASSUME NEW i \in 1..n
      PROVE  /\ {4 * i - 3, 4 * i - 1} \subseteq 1..size
             /\ stream[s][4 * i - 3].kind = "time" /\ stream[s][4 * i - 1].kind = "text"
             /\ Lines(s)[i].of = stream[s][4 * i - 1].of
             /\ Lines(s)[i].time = stream[s][4 * i - 3].shows
  <2>1. i \in Nat /\ i # 0 /\ 4 * i <= Len(stream[s])
    BY <1>5
  <2>2. /\ {4 * i - 3, 4 * i - 1, 4 * i} \subseteq DOMAIN stream[s]
        /\ stream[s][4 * i - 3].kind = "time" /\ stream[s][4 * i - 1].kind = "text"
        /\ stream[s][4 * i - 1].of = stream[s][4 * i].of
    <3>1. Len(stream[s]) \in Nat /\ DOMAIN stream[s] = 1..Len(stream[s])
      BY <1>1
    <3> QED
      BY <1>6, <2>1, <3>1, WholeLine, SMTT(60)
  <2>3. Lines(s)[i] = LineAt(stream[s], i)
    BY <1>8
  <2>4. Lines(s)[i].of = stream[s][4 * i].of /\ Lines(s)[i].time = stream[s][4 * i - 3].shows
    BY <2>3 DEF LineAt
  <2> QED
    BY <1>1, <2>2, <2>4
<1> HIDE DEF size, t, shown
<1>10. /\ t \in Readings /\ NotAfter(t, clock)
       /\ t \in [setBacks : 0..clock.setBacks, time : 0..MaxTime]
  <2>1. t \in Readings /\ NotAfter(t, clock')
    <3>1. \A p \in Piece : p.kind = "time" => p.shows \in Readings
      BY DEF Piece
    <3>2. stream'[s] \in Seq(Piece)
      BY <1>1 DEF TypeOK
    <3> QED
      BY <1>1, <1>7, <3>1, <3>2 DEF TimeInv, t
  <2>2. clock \in Readings
    BY Times
  <2> QED
    BY <1>2, <2>1, <2>2 DEF Readings, NotAfter
<1>11. \A i \in 1..n : NotAfter(Lines(s)[i].time, t)
  <2> SUFFICES ASSUME NEW i \in 1..n PROVE NotAfter(Lines(s)[i].time, t)
    OBVIOUS
  <2>1. /\ 4 * i - 3 < 4 * n + 1 /\ 4 * i - 3 \in DOMAIN stream'[s]
        /\ 4 * n + 1 \in DOMAIN stream'[s]
        /\ stream'[s][4 * i - 3] = stream[s][4 * i - 3]
    BY <1>1, <1>5, <1>7, <1>9
  <2>3. NotAfter(stream'[s][4 * i - 3].shows, stream'[s][4 * n + 1].shows)
    BY <1>1, <1>7, <1>9, <2>1 DEF TimeInv, TimeStampsOrdered
  <2> QED
    BY <1>9, <2>1, <2>3 DEF t
<1>12. /\ shown \in Texts
       /\ ~Shared(m) =>
            shown = IF \E i \in 1..n : Lines(s)[i].of = m THEN "empty" ELSE "whole"
  <2>1. shown \in Texts
    <3>1. \A p \in Piece : p.kind = "text" => p.shows \in Texts
      BY DEF Piece
    <3>2. stream'[s] \in Seq(Piece)
      BY <1>1 DEF TypeOK
    <3> QED
      BY <1>7, <3>1, <3>2 DEF shown
  <2>2. ASSUME ~Shared(m)
        PROVE  shown = IF \E k \in 1..(4 * n + 2) :
                            stream'[s][k].kind = "text" /\ stream'[s][k].of = m
                       THEN "empty" ELSE "whole"
    <3>1. s \in Streams /\ (4 * n + 3) - 1 = 4 * n + 2
      BY <1>1, <1>5
    <3>2. ~Shared(m)'
      BY <2>2 DEF Write, Shared
    <3>3. ShowsText(s, 4 * n + 3, m)' /\ 4 * n + 3 \in DOMAIN stream'[s]
      BY <1>7 DEF ShowsText
    <3>4. shown = IF \E k \in 1..(4 * n + 2) : ShowsText(s, k, m)' THEN "empty" ELSE "whole"
      BY <1>2, <3>1, <3>2, <3>3 DEF TextInv, TextGoesToFirst, shown
    <3> QED
      BY <3>4 DEF ShowsText
  <2>3. ASSUME NEW k \in 1..(4 * n + 2), stream'[s][k].kind = "text", stream'[s][k].of = m
        PROVE  \E i \in 1..n : Lines(s)[i].of = m
    <3>1. k \in DOMAIN stream[s] /\ stream'[s][k] = stream[s][k] /\ k <= 4 * n + 2
      BY <1>1, <1>5
    <3>2. Len(stream[s]) \in Nat /\ DOMAIN stream[s] = 1..Len(stream[s])
      BY <1>1 DEF size
    <3>3. stream[s][k].kind = "text" /\ stream[s][k].of = m
      BY <2>3, <3>1
    <3>4. /\ Intact(stream[s]) /\ DOMAIN stream[s] = 1..Len(stream[s])
          /\ Len(stream[s]) \in Nat /\ n \in Nat /\ k \in DOMAIN stream[s]
          /\ k <= 4 * n + 2 /\ stream[s][k].kind = "text"
      BY <1>5, <1>6, <3>1, <3>2, <3>3
    <3>5. \E i \in 1..n : k = 4 * i - 1
      BY ONLY <3>4, TextPlace, SMTT(60)
    <3> QED
      BY <1>9, <3>3, <3>5
  <2>4. ASSUME NEW i \in 1..n, Lines(s)[i].of = m
        PROVE  \E k \in 1..(4 * n + 2) :
                 stream'[s][k].kind = "text" /\ stream'[s][k].of = m
    <3>1. 4 * i - 1 \in 1..(4 * n + 2) /\ stream'[s][4 * i - 1] = stream[s][4 * i - 1]
      BY <1>1, <1>5, <1>9
    <3> QED
      BY <1>9, <2>4, <3>1
  <2> QED
    BY <2>1, <2>2, <2>3, <2>4 DEF Texts
<1>13. L' = [L EXCEPT ![s] = Append(@, [of |-> m, time |-> t, text |-> shown])]
  <2>1. s \in Unshared
    BY <1>1
  <2>2. \A r \in Unshared : r # s => Lines(r)' = Lines(r)
    BY <1>1, LinesAreIn DEF Unshared
  <2>3. L' = [r \in Unshared |-> Lines(r)']
    OBVIOUS
  <2> DEFINE longer == Append(Lines(s), [of |-> m, time |-> t, text |-> shown])
  <2>4. \A r \in Unshared : Lines(r)' = IF r = s THEN longer ELSE Lines(r)
    BY <1>8, <2>2
  <2> HIDE DEF longer
  <2>5. L' = [r \in Unshared |-> IF r = s THEN longer ELSE Lines(r)]
    BY <2>3, <2>4
  <2> QED
    BY <2>1, <2>5 DEF longer
<1> QED
  <2> DEFINE shared == {k \in Messages : Shared(k)}
  <2>1. s \in Unshared /\ L[s] = Lines(s)
    BY <1>1
  <2>2. LineLog!MayShow(L[s], t)
    BY <1>8, <1>10, <1>11, <2>1 DEF LineLog!MayShow, LineLog!NotLater, NotAfter
  <2>3. LineLog!MayRead(L[s], m, shown)
    BY <1>2, <1>8, <1>12, <2>1 DEF LineLog!MayRead
  <2>4. \E l \in Loggers : StreamOf[l] = s /\ sink[l] # "STOPPED"
    BY <1>3
  <2>5. shared' = shared
    BY DEF Write, Shared
  <2>6. shown \in {"whole", "empty", "torn"}
    BY <1>12 DEF Texts
  <2>7. L'[s] # L[s]
    BY <1>8, <2>1
  <2>8. LineLog!WriteLine(s, m)
    BY <1>2, <1>10, <1>13, <2>1, <2>2, <2>3, <2>4, <2>5, <2>6, <2>7, ZenonT(60)
       DEF LineLog!WriteLine
  <2> QED
    BY <1>2, <2>1, <2>8 DEF LineLog!LogNext

\* The other pieces of a line are invisible.
LEMMA MidLine ==
  ASSUME TypeOK, LineInv, NEW c \in Clients, NEW shows, Write(c, shows),
         ~(pc[c] = "end" /\ oOstream(c) \in Unshared)
  PROVE  \A r \in Unshared : Lines(r)' = Lines(r)
<1> SUFFICES ASSUME NEW r \in Unshared PROVE Lines(r)' = Lines(r)
  OBVIOUS
<1>1. CASE r # oOstream(c)
  <2>1. stream'[r] = stream[r]
    BY <1>1, WriteStep DEF Unshared
  <2> QED
    BY <2>1, LinesAreIn
<1>2. CASE r = oOstream(c)
  <2>1. pc[c] \in {"time", "level", "text"} /\ pc[c] \in WorkSteps
    BY <1>2, WriteStep DEF Write
  <2>2. Phase[pc[c]] \in {0, 1, 2}
    BY <2>1 DEF Phase
  <2>3. PICK n, b : Measures(stream[r], n, b) /\ b \in 0..3 /\ b # 3
    BY <1>2, <2>1, <2>2 DEF LineInv
  <2>4. Longer(stream[r], stream'[r])
    BY <1>2, Written DEF Longer
  <2>5. LinesIn(stream'[r]) = IF b = 3
          THEN Append(LinesIn(stream[r]), LineAt(stream'[r], n + 1))
          ELSE LinesIn(stream[r])
    BY ONLY <2>3, <2>4, LinesInStep, Zenon
  <2> QED
    BY <2>3, <2>5, LinesAreIn
<1> QED
  BY <1>1, <1>2

LEMMA RefineInit == Init => LineLog!LogInit
<1> SUFFICES ASSUME Init PROVE LineLog!LogInit
  OBVIOUS
<1>1. \A s \in Unshared : Lines(s) = <<>>
  <2> SUFFICES ASSUME NEW s \in Unshared PROVE Lines(s) = <<>>
    OBVIOUS
  <2>1. stream[s] = <<>> /\ Len(stream[s]) = 0
    BY DEF Init, Unshared
  <2>2. 0 \div 4 = 0
    OBVIOUS
  <2>3. LinesIn(stream[s]) = [i \in 1..0 |-> LineAt(stream[s], i)]
    BY <2>1, <2>2 DEF LinesIn
  <2>4. LinesIn(stream[s]) = <<>>
    BY <2>3
  <2> QED
    BY <2>4, LinesAreIn
<1>2. \A m \in Messages : ~Shared(m)
  BY DEF Init, Shared
<1>3. {m \in Messages : Shared(m)} = {}
  BY <1>2
<1> QED
  BY <1>1, <1>3 DEF Init, Midnight, LineLog!LogInit

\* Every step is a step of the abstract log, or invisible to it.
LEMMA RefineStep ==
  ASSUME TypeOK, LineInv, SinkInv, TypeOK', LineInv', TextInv', TimeInv', [Next]_vars
  PROVE  [LineLog!LogNext]_(LineLog!logVars)
<1> USE ConstantsAssumption
<1> DEFINE L == [s \in Unshared |-> Lines(s)]
           open == [s \in Unshared |->
                      \E l \in Loggers : StreamOf[l] = s /\ sink[l] # "STOPPED"]
           shared == {m \in Messages : Shared(m)}
<1>1. ASSUME UNCHANGED stream PROVE L' = L
  BY <1>1, LinesAreIn
<1>2. ASSUME UNCHANGED sink PROVE open' = open
  BY <1>2
<1>3. ASSUME UNCHANGED takenBy PROVE shared' = shared
  BY <1>3 DEF Shared
<1>4. ASSUME UNCHANGED <<stream, sink, clock, takenBy>> PROVE UNCHANGED LineLog!logVars
  BY <1>1, <1>2, <1>3, <1>4 DEF LineLog!logVars
<1>5. ASSUME NEW c \in Clients, NEW shows, Write(c, shows)
      PROVE  [LineLog!LogNext]_(LineLog!logVars)
  <2>1. CASE pc[c] = "end" /\ oOstream(c) \in Unshared
    BY <1>5, <2>1, EndOfLine
  <2>2. CASE ~(pc[c] = "end" /\ oOstream(c) \in Unshared)
    <3>1. L' = L
      BY <1>5, <2>2, MidLine
    <3>2. UNCHANGED <<sink, clock, takenBy>>
      BY <1>5 DEF Write
    <3> QED
      BY <1>2, <1>3, <3>1, <3>2 DEF LineLog!logVars
  <2> QED
    BY <2>1, <2>2
<1>6. ASSUME UNCHANGED <<stream, clock, takenBy>>, NEW l \in Loggers,
             \A k \in Loggers : k # l => sink'[k] = sink[k]
      PROVE  [LineLog!LogNext]_(LineLog!logVars)
  <2>1. L' = L /\ shared' = shared
    BY <1>1, <1>3, <1>6
  <2>2. \A s \in Unshared : s # StreamOf[l] => open'[s] = open[s]
    BY <1>6
  <2>3. \A s \in Unshared : open[s] \in BOOLEAN /\ open'[s] \in BOOLEAN
    OBVIOUS
  <2>4. open = [s \in Unshared |-> open[s]] /\ open' = [s \in Unshared |-> open'[s]]
    OBVIOUS
  <2> HIDE DEF open, L, shared
  <2>5. CASE StreamOf[l] \in Unshared /\ open'[StreamOf[l]] # open[StreamOf[l]]
    <3>1. open' = [open EXCEPT ![StreamOf[l]] = ~@]
      BY <2>2, <2>3, <2>4, <2>5
    <3>2. LineLog!Switch(StreamOf[l])
      BY <1>6, <2>1, <3>1 DEF LineLog!Switch, L, open, shared
    <3> QED
      BY <2>5, <3>2 DEF LineLog!LogNext
  <2>6. CASE ~(StreamOf[l] \in Unshared /\ open'[StreamOf[l]] # open[StreamOf[l]])
    <3>1. open' = open
      BY <2>2, <2>4, <2>6
    <3> QED
      BY <1>6, <2>1, <3>1 DEF LineLog!logVars, L, open, shared
  <2> QED
    BY <2>5, <2>6
<1>7. ASSUME NEW c \in Clients, NEW l \in Loggers, Start(c, l) \/ Stop(c, l)
      PROVE  [LineLog!LogNext]_(LineLog!logVars)
  <2>1. \A k \in Loggers : k # l => sink'[k] = sink[k]
    BY <1>7 DEF Start, Stop, Service, TypeOK
  <2> QED
    BY <1>6, <1>7, <2>1 DEF Start, Stop, lifeUnchanged, outVars
<1>8. ASSUME NEW l \in Loggers, SinkBreaks(l) PROVE [LineLog!LogNext]_(LineLog!logVars)
  <2>1. \A k \in Loggers : k # l => sink'[k] = sink[k]
    BY <1>8 DEF SinkBreaks, TypeOK
  <2> QED
    BY <1>6, <1>8, <2>1 DEF SinkBreaks, lifeUnchanged, outVars
<1>9. ASSUME Tick \/ SetBack PROVE LineLog!LogNext
  <2>1. UNCHANGED <<stream, sink, takenBy>>
    BY <1>9 DEF Tick, SetBack, outVars
  <2>2. L' = L /\ open' = open /\ shared' = shared
    BY <1>1, <1>2, <1>3, <2>1
  <2>3. clock' # clock /\ \E t \in 0..MaxTime :
          clock' = [setBacks |-> IF t < clock.time THEN clock.setBacks + 1
                                 ELSE clock.setBacks,
                    time |-> t]
    BY <1>9, ClockStep
  <2>4. LineLog!Pass
    BY <2>2, <2>3 DEF LineLog!Pass
  <2> QED
    BY <2>4 DEF LineLog!LogNext
<1>10. ASSUME NEW c \in Clients, Flush(c) \/ ReadClock(c)
       PROVE  UNCHANGED LineLog!logVars
  <2>1. UNCHANGED <<stream, sink, clock, takenBy>>
    BY <1>10 DEF Flush, Return, ReadClock, outVars
  <2> QED
    BY <1>4, <2>1
<1>11. ASSUME NEW c \in Clients, LogLock(c) PROVE [LineLog!LogNext]_(LineLog!logVars)
  <2>1. UNCHANGED <<stream, sink, clock>> /\ oMessage[c] \in Messages
    BY <1>11 DEF LogLock, TypeOK, outVars
  <2>2. L' = L /\ open' = open
    BY <1>1, <1>2, <2>1
  <2>3. CASE UNCHANGED takenBy
    BY <1>4, <2>1, <2>3
  <2>4. CASE takenBy' = [takenBy EXCEPT ![oMessage[c]] = @ \cup {oLogger[c]}]
    <3>0. PICK n \in Messages : n = oMessage[c]
      BY <2>1
    <3>1. \A m \in Messages : takenBy'[m] =
            IF m = n THEN takenBy[m] \cup {oLogger[c]} ELSE takenBy[m]
      <4>1. takenBy \in [Messages -> SUBSET Loggers]
        BY DEF TypeOK
      <4> QED
        BY <2>4, <3>0, <4>1
    <3>2. \A m \in Messages : m # n => (Shared(m)' <=> Shared(m))
      BY <3>1 DEF Shared
    <3>3. Shared(n) => Shared(n)'
      BY <3>1, SharedStays
    <3>4. shared' = {m \in Messages : Shared(m)'}
      OBVIOUS
    <3>5. shared' = shared \/ shared' = shared \cup {n}
      <4>1. CASE Shared(n)' = Shared(n)
        BY <3>2, <3>4, <4>1
      <4>2. CASE ~Shared(n) /\ Shared(n)'
        BY <3>2, <3>4, <4>2
      <4> QED
        BY <3>3, <4>1, <4>2 DEF Shared
    <3> HIDE DEF shared, L, open
    <3>6. CASE shared' = shared
      BY <2>1, <2>2, <3>6 DEF LineLog!logVars, shared, L, open
    <3>7. CASE shared' = shared \cup {n}
      <4>1. LineLog!Share(n)
        BY <2>1, <2>2, <3>7 DEF LineLog!Share, shared, L, open
      <4> QED
        BY <4>1 DEF LineLog!LogNext
    <3> QED
      BY <3>5, <3>6, <3>7
  <2> QED
    BY <1>11, <2>3, <2>4 DEF LogLock
<1>12. ASSUME NEW c \in Clients, NEW l \in Loggers, NEW m \in Messages, Log(c, l, m)
       PROVE  UNCHANGED LineLog!logVars
  <2>1. UNCHANGED <<stream, sink, clock, takenBy>>
    BY <1>12 DEF Log, outVars
  <2> QED
    BY <1>4, <2>1
<1>13. ASSUME UNCHANGED vars PROVE UNCHANGED LineLog!logVars
  BY <1>4, <1>13 DEF vars
<1> QED
  BY <1>5, <1>7, <1>8, <1>9, <1>10, <1>11, <1>12, <1>13, WorkShapes DEF Next

\* To the reader of a stream that one logger has for itself the synchronous
\* logger is a log of whole lines.
THEOREM LineLogImplemented == Spec => ImplementsLineLog
<1> DEFINE Inv == TypeOK /\ LineInv /\ SinkInv /\ TakenInv /\ TextInv /\ TimeInv
<1>1. Init => Inv
  BY TypeInit, LineInit, SinkInit, TakenInit, TextInit, TimeInit
<1>2. Inv /\ [Next]_vars => Inv'
  BY TypeStep, LineStep, SinkStep, TakenStep, TextStep, TimeStep
<1>3. Inv /\ Inv' /\ [Next]_vars => [LineLog!LogNext]_(LineLog!logVars)
  BY RefineStep
<1> HIDE DEF Inv
<1> QED
  BY <1>1, <1>2, <1>3, RefineInit, PTL DEF Spec, ImplementsLineLog, LineLog!LogSpec
=============================================================================
