------------------------- MODULE AsyncLoggerDelivery -------------------------
(***************************************************************************)
(* Proofs about the path of an entry: log(), the queue, the hands of a     *)
(* worker, the sink.                                                       *)
(***************************************************************************)
EXTENDS AsyncLoggerProofs

\* How many entries the workers have taken from the queue so far.
Popped == Len(accepted) - Len(m_qEntryQueue)

\* An entry is accepted once: until it is, one caller has it and no list does.
AcceptedInv ==
  /\ \A i, j \in 1..Len(accepted) : accepted[i] = accepted[j] => i = j
  /\ \A i \in 1..Len(accepted) : accepted[i] \in submitted
  /\ \A c \in Clients : pc[c] = "push" =>
       /\ oMessage[c] \in submitted
       /\ \A i \in 1..Len(accepted) : accepted[i] # oMessage[c]
  /\ \A c, d \in Clients :
       pc[c] = "push" /\ pc[d] = "push" /\ oMessage[c] = oMessage[d] => c = d

\* The queue is the end of the stream of accepted entries.
QueueInv ==
  /\ Len(m_qEntryQueue) <= Len(accepted)
  /\ \A i \in 1..Len(m_qEntryQueue) : m_qEntryQueue[i] = accepted[Popped + i]

\* A worker has an entry in its hands only on its way to the sink.
HandsInv == \A w \in Workers : oEntry[w] # NoMessage => wpc[w] = "work"

\* What left the queue is with the sink or in the hands of one worker.
DeliveredInv ==
  /\ \A w \in Workers : oEntry[w] # NoMessage =>
       /\ \E i \in 1..Popped : accepted[i] = oEntry[w]
       /\ \A j \in 1..Len(written) : written[j] # oEntry[w]
  /\ \A v, w \in Workers :
       oEntry[v] = oEntry[w] /\ oEntry[w] # NoMessage => v = w
  /\ \A j \in 1..Len(written) : \E i \in 1..Popped : accepted[i] = written[j]
  /\ \A i, j \in 1..Len(written) : written[i] = written[j] => i = j
  /\ \A i \in 1..Popped :
       \/ \E j \in 1..Len(written) : written[j] = accepted[i]
       \/ \E w \in Workers : oEntry[w] = accepted[i]

DeliveryInv == AcceptedInv /\ QueueInv /\ HandsInv /\ DeliveredInv

LEMMA DeliveryInit == Init => DeliveryInv
  BY DEF Init, DeliveryInv, AcceptedInv, QueueInv, HandsInv, DeliveredInv,
         Popped, Threads

-----------------------------------------------------------------------------
(* Which steps move an entry                                               *)

LEMMA EntrySteps ==
  ASSUME [Next]_vars
  PROVE  \/ UNCHANGED <<m_qEntryQueue, accepted, submitted, oMessage, written,
                        oEntry>>
         \/ \E c \in Clients, m \in Messages : Log(c, m)
         \/ \E c \in Clients : LogPush(c)
         \/ \E w \in Workers : WorkerAcquire(w) \/ WorkerWrite(w)
  BY DEF Next, System, Environment, ClientStep, StopStep, WorkerStep, vars,
         workerVars, logVars, Invoke, LockKiller, WaitForKiller, LockWorker,
         SignalStop, WaitForKillerAgain, StartService, StartWorkers,
         SpawnWorker, EngineOn, StopWorkers, NotifyAll, JoinWorkers,
         StopService, StatusRead, StatusReturn, WorkerSleep, SpuriousWakeup,
         WorkerDecide, SinkBreaks

\* Only its own write takes a worker away from "work".
LEMMA WorkStays ==
  ASSUME TypeInv, LiveInv, [Next]_vars, NEW w \in Workers,
         ~WorkerWrite(w), wpc[w] = "work"
  PROVE  wpc'[w] = "work"
<1> USE DEF TypeInv, TypeOK, PoolTypeOK, WorkerAt, workerVars
<1>1. ASSUME NEW c \in Clients, LogPush(c) PROVE wpc'[w] = "work"
  BY <1>1 DEF LogPush, NotifyOne
<1>2. ASSUME NEW c \in Clients, SpawnWorker(c) PROVE wpc'[w] = "work"
  BY <1>2 DEF SpawnWorker, LiveInv
<1>3. ASSUME NEW t \in Threads, NotifyAll(t) \/ JoinWorkers(t)
      PROVE  wpc'[w] = "work"
  BY <1>3 DEF NotifyAll, JoinWorkers
<1>4. ASSUME NEW v \in Workers, WorkerStep(v) \/ SpuriousWakeup(v)
      PROVE  wpc'[w] = "work"
  BY <1>4 DEF WorkerStep, WorkerAcquire, WorkerSleep, WorkerWrite,
              WorkerDecide, SpuriousWakeup
<1> QED
  BY <1>1, <1>2, <1>3, <1>4, QueueSteps

\* Only log() brings a client to "push".
LEMMA PushIsNew ==
  ASSUME TypeInv, [Next]_vars, NEW c \in Clients, pc'[c] = "push",
         pc[c] # "push"
  PROVE  \E m \in Messages : Log(c, m)
<1> SUFFICES ASSUME \A m \in Messages : ~Log(c, m) PROVE pc'[c] # "push"
  OBVIOUS
<1> USE ConstantsAssumption
        DEF TypeInv, TypeOK, CallsTypeOK, Threads, At, Goto, Return, callVars
<1>0. ASSUME NEW d \in Clients, NEW m \in Messages, Log(d, m)
      PROVE  pc'[c] # "push"
  BY <1>0 DEF Log
<1>1. ASSUME NEW d \in Clients, NEW method \in Methods, Invoke(d, method)
      PROVE  pc'[c] # "push"
  BY <1>1 DEF Invoke
<1>2. ASSUME NEW d \in Clients, LogPush(d) PROVE pc'[c] # "push"
  BY <1>2 DEF LogPush, NotifyOne
<1>3. ASSUME NEW d \in Clients, LockKiller(d) PROVE pc'[c] # "push"
  BY <1>3 DEF LockKiller
<1>4. ASSUME NEW d \in Clients, WaitForKiller(d) PROVE pc'[c] # "push"
  BY <1>4 DEF WaitForKiller, JoinKiller
<1>5. ASSUME NEW t \in Threads, LockWorker(t) PROVE pc'[c] # "push"
  BY <1>5 DEF LockWorker, KillerReleased
<1>6. ASSUME NEW d \in Clients, SignalStop(d) PROVE pc'[c] # "push"
  BY <1>6 DEF SignalStop
<1>7. ASSUME NEW d \in Clients, WaitForKillerAgain(d) PROVE pc'[c] # "push"
  BY <1>7 DEF WaitForKillerAgain, JoinKiller
<1>8. ASSUME NEW d \in Clients, StartService(d) PROVE pc'[c] # "push"
  BY <1>8 DEF StartService
<1>9. ASSUME NEW d \in Clients, StartWorkers(d) PROVE pc'[c] # "push"
  BY <1>9 DEF StartWorkers
<1>10. ASSUME NEW d \in Clients, SpawnWorker(d) PROVE pc'[c] # "push"
  BY <1>10 DEF SpawnWorker
<1>11. ASSUME NEW d \in Clients, EngineOn(d) PROVE pc'[c] # "push"
  BY <1>11 DEF EngineOn
<1>12. ASSUME NEW t \in Threads, StopWorkers(t) PROVE pc'[c] # "push"
  BY <1>12 DEF StopWorkers
<1>13. ASSUME NEW t \in Threads, NotifyAll(t) PROVE pc'[c] # "push"
  BY <1>13 DEF NotifyAll
<1>14. ASSUME NEW t \in Threads, JoinWorkers(t) PROVE pc'[c] # "push"
  BY <1>14 DEF JoinWorkers
<1>15. ASSUME NEW t \in Threads, StopService(t) PROVE pc'[c] # "push"
  BY <1>15 DEF StopService, SinkStopped
<1>16. ASSUME NEW d \in Clients, StatusRead(d) PROVE pc'[c] # "push"
  BY <1>16 DEF StatusRead
<1>17. ASSUME NEW d \in Clients, StatusReturn(d) PROVE pc'[c] # "push"
  BY <1>17 DEF StatusReturn
<1>18. CASE UNCHANGED pc
  BY <1>18
<1> QED
  BY <1>0, <1>1, <1>2, <1>3, <1>4, <1>5, <1>6, <1>7, <1>8, <1>9, <1>10, <1>11,
     <1>12, <1>13, <1>14, <1>15, <1>16, <1>17, <1>18
     DEF Next, System, Environment, ClientStep, StopStep, WorkerStep, vars,
         WorkerAcquire, WorkerSleep, SpuriousWakeup, WorkerWrite,
         WorkerDecide, SinkBreaks
-----------------------------------------------------------------------------
(* Every step keeps the path intact                                        *)

LEMMA LogDelivery ==
  ASSUME TypeInv, DeliveryInv, NEW c \in Clients, NEW m \in Messages, Log(c, m)
  PROVE  DeliveryInv'
<1> USE DEF TypeInv, TypeOK, CallsTypeOK, EntriesTypeOK, DeliveryInv, Threads,
            At, Goto, workerVars
<1>1. UNCHANGED <<m_qEntryQueue, accepted, written, oEntry, wpc>>
  BY DEF Log
<1>2. AcceptedInv'
  <2>1. CASE m_bWorkerEngineOn
    BY <1>1, <2>1, SMTT(60) DEF Log, AcceptedInv
  <2>2. CASE ~m_bWorkerEngineOn
    BY <1>1, <2>2 DEF Log, AcceptedInv
  <2> QED
    BY <2>1, <2>2
<1> QED
  BY <1>1, <1>2 DEF QueueInv, HandsInv, DeliveredInv, Popped

LEMMA LogPushDelivery ==
  ASSUME TypeInv, LiveInv, DeliveryInv, NEW c \in Clients, LogPush(c),
         [Next]_vars
  PROVE  DeliveryInv'
<1> USE DEF TypeInv, TypeOK, CallsTypeOK, EntriesTypeOK, PoolTypeOK,
            DeliveryInv, Threads
<1>1. UNCHANGED <<written, oEntry, submitted>>
  BY DEF LogPush
<1>2. /\ pc[c] = "push"
      /\ pc' = [pc EXCEPT ![c] = "idle"]
      /\ oMessage' = [oMessage EXCEPT ![c] = NoMessage]
  BY DEF LogPush, At, Goto
<1>3. HandsInv'
  BY <1>1 DEF HandsInv, LogPush, NotifyOne
<1>4. CASE UNCHANGED <<m_qEntryQueue, accepted>>
  BY <1>1, <1>2, <1>3, <1>4
     DEF AcceptedInv, QueueInv, DeliveredInv, Popped
<1>5. CASE /\ m_qEntryQueue' = Append(m_qEntryQueue, oMessage[c])
           /\ accepted' = Append(accepted, oMessage[c])
  <2>1. oMessage[c] \in Messages
    BY <1>2 DEF HandsFull
  <2>2. /\ Len(accepted') = Len(accepted) + 1
        /\ \A i \in 1..Len(accepted) : accepted'[i] = accepted[i]
        /\ accepted'[Len(accepted) + 1] = oMessage[c]
    BY <1>5, <2>1
  <2>3. /\ Len(m_qEntryQueue') = Len(m_qEntryQueue) + 1
        /\ \A i \in 1..Len(m_qEntryQueue) :
             m_qEntryQueue'[i] = m_qEntryQueue[i]
        /\ m_qEntryQueue'[Len(m_qEntryQueue) + 1] = oMessage[c]
    BY <1>5, <2>1
  <2>4. Popped' = Popped /\ Popped \in 0..Len(accepted)
    BY <2>2, <2>3 DEF Popped, QueueInv
  <2>5. AcceptedInv'
    <3>1. \A i, j \in 1..Len(accepted') : accepted'[i] = accepted'[j] => i = j
      <4>1. \A i \in 1..Len(accepted) : accepted[i] # oMessage[c]
        BY <1>2 DEF AcceptedInv
      <4>2. \A i \in 1..Len(accepted') :
              i \in 1..Len(accepted) \/ i = Len(accepted) + 1
        BY <2>2
      <4> QED
        BY <4>1, <4>2, <2>2 DEF AcceptedInv
    <3>2. \A i \in 1..Len(accepted') : accepted'[i] \in submitted'
      <4>1. oMessage[c] \in submitted
        BY <1>2 DEF AcceptedInv
      <4>2. \A i \in 1..Len(accepted) : accepted'[i] \in submitted
        BY <2>2 DEF AcceptedInv
      <4>3. \A i \in 1..Len(accepted') :
              i \in 1..Len(accepted) \/ i = Len(accepted) + 1
        BY <2>2
      <4> HIDE DEF TypeInv
      <4> QED
        BY <4>1, <4>2, <4>3, <1>1, <2>2
    <3>3. \A d \in Clients : pc'[d] = "push" =>
            d # c /\ pc[d] = "push" /\ oMessage'[d] = oMessage[d]
      BY <1>2
    <3>4. \A d \in Clients : pc'[d] = "push" =>
            /\ oMessage'[d] \in submitted'
            /\ \A i \in 1..Len(accepted') : accepted'[i] # oMessage'[d]
      <4> SUFFICES ASSUME NEW d \in Clients, pc'[d] = "push"
                   PROVE  /\ oMessage'[d] \in submitted'
                          /\ \A i \in 1..Len(accepted') :
                               accepted'[i] # oMessage'[d]
        OBVIOUS
      <4>1. /\ oMessage[d] \in submitted
            /\ oMessage[d] # oMessage[c]
            /\ \A i \in 1..Len(accepted) : accepted[i] # oMessage[d]
        BY <1>2, <3>3 DEF AcceptedInv
      <4>2. \A i \in 1..Len(accepted') :
              i \in 1..Len(accepted) \/ i = Len(accepted) + 1
        BY <2>2
      <4> QED
        BY <4>1, <4>2, <3>3, <1>1, <2>2
    <3>5. \A d, e \in Clients :
            pc'[d] = "push" /\ pc'[e] = "push" /\ oMessage'[d] = oMessage'[e]
              => d = e
      BY <3>3 DEF AcceptedInv
    <3> QED
      BY <3>1, <3>2, <3>4, <3>5 DEF AcceptedInv
  <2>6. QueueInv'
    <3>1. Popped + Len(m_qEntryQueue) = Len(accepted)
      BY DEF Popped, QueueInv
    <3>2. ASSUME NEW i \in 1..Len(m_qEntryQueue')
          PROVE  m_qEntryQueue'[i] = accepted'[Popped' + i]
      <4>1. CASE i = Len(m_qEntryQueue) + 1
        BY <4>1, <3>1, <2>2, <2>3, <2>4
      <4>2. CASE i \in 1..Len(m_qEntryQueue)
        <5>1. m_qEntryQueue[i] = accepted[Popped + i]
          BY <4>2 DEF QueueInv
        <5>2. Popped + i \in 1..Len(accepted)
          BY <4>2, <3>1, <2>4
        <5> QED
          BY <4>2, <5>1, <5>2, <2>2, <2>3, <2>4
      <4> QED
        BY <4>1, <4>2, <2>3
    <3> QED
      BY <3>2, <2>2, <2>3 DEF QueueInv
  <2>7. DeliveredInv'
    <3>1. \A i \in 1..Popped : accepted'[i] = accepted[i]
      <4>1. \A i \in 1..Popped : i \in 1..Len(accepted)
        BY <2>4
      <4> QED
        BY <4>1, <2>2
    <3> HIDE DEF TypeInv
    <3>2. \A w \in Workers : oEntry'[w] # NoMessage =>
            /\ \E i \in 1..Popped' : accepted'[i] = oEntry'[w]
            /\ \A j \in 1..Len(written') : written'[j] # oEntry'[w]
      BY <1>1, <2>4, <3>1 DEF DeliveredInv
    <3>3. \A j \in 1..Len(written') :
            \E i \in 1..Popped' : accepted'[i] = written'[j]
      BY <1>1, <2>4, <3>1 DEF DeliveredInv
    <3>4. \A i \in 1..Popped' :
            \/ \E j \in 1..Len(written') : written'[j] = accepted'[i]
            \/ \E w \in Workers : oEntry'[w] = accepted'[i]
      BY <1>1, <2>4, <3>1 DEF DeliveredInv
    <3>5. /\ \A v, w \in Workers :
               oEntry'[v] = oEntry'[w] /\ oEntry'[w] # NoMessage => v = w
          /\ \A i, j \in 1..Len(written') : written'[i] = written'[j] => i = j
      BY <1>1 DEF DeliveredInv
    <3> QED
      BY <3>2, <3>3, <3>4, <3>5 DEF DeliveredInv
  <2> QED
    BY <1>3, <2>5, <2>6, <2>7
<1> QED
  BY <1>4, <1>5 DEF LogPush

LEMMA AcquireDelivery ==
  ASSUME TypeInv, DeliveryInv, NEW w \in Workers, WorkerAcquire(w)
  PROVE  DeliveryInv'
<1> USE DEF TypeInv, TypeOK, EntriesTypeOK, PoolTypeOK, DeliveryInv
<1>1. UNCHANGED <<written, accepted, submitted, oMessage, pc>>
  BY DEF WorkerAcquire, logVars, callVars
<1>2. AcceptedInv'
  BY <1>1 DEF AcceptedInv
<1>3. wpc[w] = "lock" /\ oEntry[w] = NoMessage
  BY DEF WorkerAcquire, WorkerAt, HandsInv
<1>4. CASE m_qEntryQueue = <<>>
  <2>1. UNCHANGED <<m_qEntryQueue, oEntry>>
    BY <1>4 DEF WorkerAcquire
  <2>2. HandsInv'
    BY <1>3, <1>4, <2>1 DEF WorkerAcquire, HandsInv
  <2> QED
    BY <1>1, <1>2, <2>1, <2>2, ZenonT(60) DEF QueueInv, DeliveredInv, Popped
<1>5. CASE m_qEntryQueue # <<>>
  <2>1. /\ m_qEntryQueue' = Tail(m_qEntryQueue)
        /\ oEntry' = [oEntry EXCEPT ![w] = Head(m_qEntryQueue)]
        /\ wpc' = [wpc EXCEPT ![w] = "work"]
    BY <1>5 DEF WorkerAcquire, TakeEntry
  <2>2. /\ Len(m_qEntryQueue) \in Nat \ {0}
        /\ Len(m_qEntryQueue') = Len(m_qEntryQueue) - 1
        /\ \A i \in 1..Len(m_qEntryQueue') :
             m_qEntryQueue'[i] = m_qEntryQueue[i + 1]
        /\ Head(m_qEntryQueue) = m_qEntryQueue[1]
    BY <1>5, <2>1
  <2>3. /\ Popped' = Popped + 1
        /\ Popped \in Nat
        /\ Popped + 1 \in 1..Len(accepted)
        /\ Head(m_qEntryQueue) = accepted[Popped + 1]
    BY <1>1, <2>2 DEF Popped, QueueInv
  <2>4. QueueInv'
    BY <1>1, <2>2, <2>3 DEF QueueInv, Popped
  <2>5. HandsInv'
    BY <2>1 DEF HandsInv
  <2>6. DeliveredInv'
    <3>1. oEntry'[w] = accepted[Popped + 1]
      BY <2>1, <2>3
    <3>2. \A v \in Workers : v # w => oEntry'[v] = oEntry[v]
      BY <2>1
    <3>3. \A i \in 1..Popped : accepted[i] # accepted[Popped + 1]
      BY <2>3 DEF AcceptedInv
    <3>4. \A v \in Workers : oEntry'[v] # NoMessage =>
            /\ \E i \in 1..Popped' : accepted'[i] = oEntry'[v]
            /\ \A j \in 1..Len(written') : written'[j] # oEntry'[v]
      <4> SUFFICES ASSUME NEW v \in Workers, oEntry'[v] # NoMessage
                   PROVE  /\ \E i \in 1..Popped' : accepted'[i] = oEntry'[v]
                          /\ \A j \in 1..Len(written') :
                               written'[j] # oEntry'[v]
        OBVIOUS
      <4>1. CASE v = w
        BY <4>1, <1>1, <2>3, <3>1, <3>3 DEF DeliveredInv
      <4>2. CASE v # w
        BY <4>2, <1>1, <2>3, <3>2 DEF DeliveredInv
      <4> QED
        BY <4>1, <4>2
    <3>5. \A u, v \in Workers :
            oEntry'[u] = oEntry'[v] /\ oEntry'[v] # NoMessage => u = v
      BY <3>1, <3>2, <3>3 DEF DeliveredInv
    <3>6. \A j \in 1..Len(written') :
            \E i \in 1..Popped' : accepted'[i] = written'[j]
      BY <1>1, <2>3 DEF DeliveredInv
    <3>7. \A i \in 1..Popped' :
            \/ \E j \in 1..Len(written') : written'[j] = accepted'[i]
            \/ \E v \in Workers : oEntry'[v] = accepted'[i]
      <4> SUFFICES ASSUME NEW i \in 1..Popped'
                   PROVE  \/ \E j \in 1..Len(written') :
                               written'[j] = accepted'[i]
                          \/ \E v \in Workers : oEntry'[v] = accepted'[i]
        OBVIOUS
      <4>1. CASE i = Popped + 1
        BY <4>1, <1>1, <3>1
      <4>2. CASE i \in 1..Popped
        <5>1. accepted[i] \in Messages
          BY <4>2, <2>3
        <5>2. accepted[i] # NoMessage
          BY <5>1, ConstantsAssumption
        <5>3. CASE \E j \in 1..Len(written) : written[j] = accepted[i]
          BY <5>3, <1>1
        <5>4. ASSUME NEW v \in Workers, oEntry[v] = accepted[i]
              PROVE  oEntry'[v] = accepted'[i]
          BY <5>4, <5>2, <1>1, <1>3, <3>2
        <5> QED
          BY <4>2, <5>3, <5>4 DEF DeliveredInv
      <4> QED
        BY <4>1, <4>2, <2>3
    <3> QED
      BY <1>1, <3>4, <3>5, <3>6, <3>7, ZenonT(60) DEF DeliveredInv
  <2> QED
    BY <1>2, <2>4, <2>5, <2>6
<1> QED
  BY <1>4, <1>5
LEMMA WriteDelivery ==
  ASSUME TypeInv, DeliveryInv, NEW w \in Workers, WorkerWrite(w)
  PROVE  DeliveryInv'
<1> USE DEF TypeInv, TypeOK, EntriesTypeOK, PoolTypeOK, DeliveryInv
<1>1. UNCHANGED <<m_qEntryQueue, accepted, submitted, oMessage, pc>>
  BY DEF WorkerWrite, logVars, callVars
<1>2. AcceptedInv' /\ QueueInv' /\ Popped' = Popped
  BY <1>1 DEF AcceptedInv, QueueInv, Popped
<1>3. /\ wpc[w] = "work"
      /\ written' = Append(written, oEntry[w])
      /\ oEntry' = [oEntry EXCEPT ![w] = NoMessage]
      /\ wpc' = [wpc EXCEPT ![w] = "relock"]
  BY DEF WorkerWrite, WorkerAt
<1>4. HandsInv'
  BY <1>3 DEF HandsInv
<1>5. oEntry[w] \in Messages /\ oEntry[w] # NoMessage
  BY <1>3, ConstantsAssumption DEF HandsFull
<1>6. /\ Len(written') = Len(written) + 1
      /\ \A j \in 1..Len(written) : written'[j] = written[j]
      /\ written'[Len(written) + 1] = oEntry[w]
  BY <1>3, <1>5
<1>7. \A j \in 1..Len(written') :
        j \in 1..Len(written) \/ j = Len(written) + 1
  BY <1>6
<1>8. \A v \in Workers : oEntry'[v] # NoMessage =>
        v # w /\ oEntry'[v] = oEntry[v]
  BY <1>3
<1>9. DeliveredInv'
  <2>1. \A v \in Workers : oEntry'[v] # NoMessage =>
          /\ \E i \in 1..Popped' : accepted'[i] = oEntry'[v]
          /\ \A j \in 1..Len(written') : written'[j] # oEntry'[v]
    <3> SUFFICES ASSUME NEW v \in Workers, oEntry'[v] # NoMessage
                 PROVE  /\ \E i \in 1..Popped' : accepted'[i] = oEntry'[v]
                        /\ \A j \in 1..Len(written') : written'[j] # oEntry'[v]
      OBVIOUS
    <3>1. /\ oEntry[v] # oEntry[w]
          /\ \E i \in 1..Popped : accepted[i] = oEntry[v]
          /\ \A j \in 1..Len(written) : written[j] # oEntry[v]
      BY <1>5, <1>8 DEF DeliveredInv
    <3> QED
      BY <3>1, <1>1, <1>2, <1>6, <1>7, <1>8
  <2>2. \A u, v \in Workers :
          oEntry'[u] = oEntry'[v] /\ oEntry'[v] # NoMessage => u = v
    BY <1>8 DEF DeliveredInv
  <2>3. \A j \in 1..Len(written') :
          \E i \in 1..Popped' : accepted'[i] = written'[j]
    <3>1. \E i \in 1..Popped : accepted[i] = oEntry[w]
      BY <1>5 DEF DeliveredInv
    <3> QED
      BY <3>1, <1>1, <1>2, <1>6, <1>7 DEF DeliveredInv
  <2>4. \A i, j \in 1..Len(written') : written'[i] = written'[j] => i = j
    <3>1. \A j \in 1..Len(written) : written[j] # oEntry[w]
      BY <1>5 DEF DeliveredInv
    <3> SUFFICES ASSUME NEW i \in 1..Len(written'), NEW j \in 1..Len(written'),
                        written'[i] = written'[j]
                 PROVE  i = j
      OBVIOUS
    <3>2. CASE i \in 1..Len(written) /\ j \in 1..Len(written)
      BY <3>2, <1>6 DEF DeliveredInv
    <3>3. CASE i = Len(written) + 1 \/ j = Len(written) + 1
      BY <3>1, <3>3, <1>6, <1>7
    <3> QED
      BY <3>2, <3>3, <1>7
  <2>5. \A i \in 1..Popped' :
          \/ \E j \in 1..Len(written') : written'[j] = accepted'[i]
          \/ \E v \in Workers : oEntry'[v] = accepted'[i]
    <3> SUFFICES ASSUME NEW i \in 1..Popped
                 PROVE  \/ \E j \in 1..Len(written') : written'[j] = accepted[i]
                        \/ \E v \in Workers : oEntry'[v] = accepted[i]
      BY <1>1, <1>2
    <3>1. CASE \E j \in 1..Len(written) : written[j] = accepted[i]
      BY <3>1, <1>6
    <3>2. CASE oEntry[w] = accepted[i]
      <4>1. Len(written) + 1 \in 1..Len(written')
        BY <1>6
      <4> QED
        BY <4>1, <3>2, <1>6
    <3>3. ASSUME NEW v \in Workers, v # w, oEntry[v] = accepted[i]
          PROVE  oEntry'[v] = accepted[i]
      BY <3>3, <1>3
    <3> QED
      BY <3>1, <3>2, <3>3 DEF DeliveredInv
  <2> QED
    BY <2>1, <2>2, <2>3, <2>4, <2>5 DEF DeliveredInv
<1> QED
  BY <1>2, <1>4, <1>9

\* The steps that touch no entry.
LEMMA QuietDelivery ==
  ASSUME TypeInv, LiveInv, DeliveryInv, [Next]_vars,
         UNCHANGED <<m_qEntryQueue, accepted, submitted, oMessage, written,
                     oEntry>>
  PROVE  DeliveryInv'
<1> USE DEF DeliveryInv
<1>1. \A w \in Workers : ~WorkerWrite(w)
  <2> SUFFICES ASSUME NEW w \in Workers, WorkerWrite(w) PROVE FALSE
    OBVIOUS
  <2>1. written' = Append(written, oEntry[w]) /\ wpc[w] = "work"
    BY DEF WorkerWrite, WorkerAt
  <2>2. oEntry[w] \in Messages /\ written \in Seq(Messages)
    BY <2>1 DEF TypeInv, TypeOK, EntriesTypeOK, HandsFull
  <2>3. Len(written') = Len(written) + 1
    BY <2>1, <2>2
  <2> QED
    BY <2>2, <2>3
<1>2. HandsInv'
  BY <1>1, WorkStays DEF HandsInv
<1>3. \A c \in Clients : pc'[c] = "push" => pc[c] = "push"
  <2> SUFFICES ASSUME NEW c \in Clients, pc'[c] = "push", pc[c] # "push"
               PROVE  FALSE
    OBVIOUS
  <2>1. PICK m \in Messages : Log(c, m)
    BY PushIsNew
  <2>2. m \notin submitted /\ submitted' = submitted \cup {m}
    BY <2>1 DEF Log
  <2> QED
    BY <2>2
<1>4. AcceptedInv'
  BY <1>3 DEF AcceptedInv
<1> QED
  BY <1>2, <1>4 DEF QueueInv, DeliveredInv, Popped

LEMMA DeliveryStep ==
  TypeInv /\ LiveInv /\ DeliveryInv /\ [Next]_vars => DeliveryInv'
  BY EntrySteps, LogDelivery, LogPushDelivery, AcquireDelivery,
     WriteDelivery, QuietDelivery

LEMMA DeliverySafe == Spec => [](TypeInv /\ LiveInv /\ DeliveryInv)
<1>1. Init => TypeInv /\ LiveInv /\ DeliveryInv
  BY TypeInit, LiveInit, DeliveryInit
<1>2. TypeInv /\ LiveInv /\ DeliveryInv /\ [Next]_vars
        => (TypeInv /\ LiveInv /\ DeliveryInv)'
  BY TypeStep, LiveStep, DeliveryStep
<1> QED
  BY <1>1, <1>2, PTL DEF Spec

\* No accepted entry is lost or handed out twice, for every number of callers,
\* workers and messages, and whatever fails.
THEOREM ExactlyOnceHolds == Spec => []ExactlyOnce
<1>1. TypeInv /\ DeliveryInv => ExactlyOnce
  <2> SUFFICES ASSUME TypeInv, DeliveryInv PROVE ExactlyOnce
    OBVIOUS
  <2> USE DEF TypeInv, TypeOK, EntriesTypeOK, PoolTypeOK, DeliveryInv
  <2>1. /\ ToSet(accepted) = {accepted[i] : i \in 1..Len(accepted)}
        /\ ToSet(written) = {written[i] : i \in 1..Len(written)}
        /\ ToSet(m_qEntryQueue) =
             {m_qEntryQueue[i] : i \in 1..Len(m_qEntryQueue)}
    BY DEF ToSet
  <2>2. /\ Popped \in 0..Len(accepted)
        /\ Popped + Len(m_qEntryQueue) = Len(accepted)
    BY DEF Popped, QueueInv
  <2>3. \A i \in 1..Len(m_qEntryQueue) :
          /\ Popped + i \in 1..Len(accepted)
          /\ ~(Popped + i \in 1..Popped)
          /\ m_qEntryQueue[i] = accepted[Popped + i]
    BY <2>2 DEF QueueInv
  <2>4. \A i \in 1..Popped : i \in 1..Len(accepted)
    BY <2>2
  <2>5. \A i \in 1..Len(accepted) :
          \/ i \in 1..Popped
          \/ \E k \in 1..Len(m_qEntryQueue) : i = Popped + k
    <3> SUFFICES ASSUME NEW i \in 1..Len(accepted), i \notin 1..Popped
                 PROVE  \E k \in 1..Len(m_qEntryQueue) : i = Popped + k
      OBVIOUS
    <3>1. i - Popped \in 1..Len(m_qEntryQueue) /\ i = Popped + (i - Popped)
      BY <2>2
    <3> QED
      BY <3>1
  <2>6. NothingLost
    <3>1. ASSUME NEW i \in 1..Len(accepted)
          PROVE  accepted[i] \in
                   ToSet(written) \cup InHands \cup ToSet(m_qEntryQueue)
      <4>1. CASE i \in 1..Popped
        <5>1. accepted[i] \in Messages
          OBVIOUS
        <5>2. accepted[i] # NoMessage
          BY <5>1, ConstantsAssumption
        <5> QED
          BY <4>1, <5>2, <2>1 DEF DeliveredInv, InHands
      <4>2. ASSUME NEW k \in 1..Len(m_qEntryQueue), i = Popped + k
            PROVE  accepted[i] \in ToSet(m_qEntryQueue)
        BY <4>2, <2>1, <2>3
      <4> QED
        BY <4>1, <4>2, <2>5
    <3>2. ToSet(written) \subseteq ToSet(accepted)
      BY <2>1, <2>4 DEF DeliveredInv
    <3>3. InHands \subseteq ToSet(accepted)
      BY <2>1, <2>4 DEF DeliveredInv, InHands
    <3>4. ToSet(m_qEntryQueue) \subseteq ToSet(accepted)
      BY <2>1, <2>3
    <3> QED
      BY <3>1, <3>2, <3>3, <3>4, <2>1, ZenonT(60) DEF NothingLost
  <2>7. NothingTwice
    <3>1. IsInjective(written)
      BY DEF IsInjective, DeliveredInv
    <3>2. IsInjective(m_qEntryQueue)
      <4>1. \A i, k \in 1..Len(m_qEntryQueue) :
              m_qEntryQueue[i] = m_qEntryQueue[k] => Popped + i = Popped + k
        BY <2>3 DEF AcceptedInv
      <4>2. \A i, k \in 1..Len(m_qEntryQueue) :
              Popped + i = Popped + k => i = k
        BY <2>2
      <4> QED
        BY <4>1, <4>2 DEF IsInjective
    <3>3. \A i \in 1..Popped, k \in 1..Len(m_qEntryQueue) :
            accepted[i] # m_qEntryQueue[k]
      BY <2>3, <2>4 DEF AcceptedInv
    <3>4. ToSet(written) \cap ToSet(m_qEntryQueue) = {}
      BY <2>1, <3>3 DEF DeliveredInv
    <3>5. InHands \cap (ToSet(written) \cup ToSet(m_qEntryQueue)) = {}
      BY <2>1, <3>3 DEF DeliveredInv, InHands
    <3> QED
      BY <3>1, <3>2, <3>4, <3>5 DEF NothingTwice, DeliveredInv
  <2> QED
    BY <2>6, <2>7 DEF ExactlyOnce
<1> QED
  BY <1>1, DeliverySafe, PTL
=============================================================================
