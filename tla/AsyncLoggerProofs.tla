-------------------------- MODULE AsyncLoggerProofs --------------------------
(***************************************************************************)
(* Theorems about the engine for every number of threads and messages and  *)
(* every value of the other constants.                                     *)
(***************************************************************************)
EXTENDS AsyncLogger, TLAPS

\* What a thread holds where the code says it holds something.
HandsFull ==
  /\ \A c \in Clients : pc[c] = "push" => oMessage[c] \in Messages
  /\ \A w \in Workers : wpc[w] = "work" => oEntry[w] \in Messages

TypeInv == TypeOK /\ HandsFull

-----------------------------------------------------------------------------
(* Type correctness                                                        *)

LEMMA TypeInit == Init => TypeInv
<1>1. Init => FlagsTypeOK
  BY DEF Init, FlagsTypeOK
<1> QED
  BY <1>1, ConstantsAssumption
     DEF Init, TypeInv, TypeOK, LocksTypeOK, CallsTypeOK, PoolTypeOK,
         EntriesTypeOK, HandsFull, Threads, LifeCycle, Status, WorkerSteps,
         ThreadSteps

LEMMA FlagsStep == FlagsTypeOK /\ [Next]_vars => FlagsTypeOK'
<1> SUFFICES ASSUME FlagsTypeOK, [Next]_vars PROVE FlagsTypeOK'
  OBVIOUS
<1>1. \/ UNCHANGED <<m_bWorkerEngineOn, terminated>>
      \/ \E c \in Clients : StartWorkers(c) \/ EngineOn(c)
      \/ \E t \in Threads : StopWorkers(t) \/ StopService(t)
  BY DEF Next, System, Environment, ClientStep, StopStep, WorkerStep, vars,
         Threads, engineVars, Invoke, Log, LogPush, LockKiller, WaitForKiller,
         LockWorker, SignalStop, WaitForKillerAgain, StartService,
         SpawnWorker, NotifyAll, JoinWorkers, StatusRead,
         StatusReturn, WorkerAcquire, WorkerSleep, SpuriousWakeup,
         WorkerWrite, WorkerDecide, SinkBreaks
<1> QED
  BY <1>1, Zenon DEF FlagsTypeOK, StartWorkers, EngineOn, StopWorkers,
                     StopService, engineVars

\* The types of a returning thread's variables.
LEMMA ReturnTypes ==
  ASSUME CallsTypeOK, NEW t \in Threads, Return(t),
         nStatus' = nStatus, m_oKillerThread' \in Nat
  PROVE  CallsTypeOK'
  BY DEF CallsTypeOK, Return, Goto, ThreadSteps

\* Three steps of a call that may return early.
LEMMA CallsTypes ==
  ASSUME CallsTypeOK, NEW c \in Clients,
         SignalStop(c) \/ StartWorkers(c) \/ SpawnWorker(c)
  PROVE  CallsTypeOK'
<1>1. CASE SignalStop(c)
  <2>1. CASE Return(c)
    BY <1>1, <2>1, ReturnTypes DEF SignalStop, Threads, CallsTypeOK
  <2>2. CASE m_oKillerThread' = m_oKillerThread + 1
    BY <1>1, <2>2
       DEF SignalStop, Threads, CallsTypeOK, LifeCycle, ThreadSteps, At
  <2> QED
    BY <1>1, <2>1, <2>2 DEF SignalStop
<1>2. CASE StartWorkers(c)
  <2>1. \/ Return(c)
        \/ Goto(c, "spawnWorkers") /\ UNCHANGED call
        \/ UNCHANGED callVars
    BY <1>2 DEF StartWorkers
  <2>2. UNCHANGED <<nStatus, m_oKillerThread>>
    BY <1>2 DEF StartWorkers, engineVars
  <2> QED
    BY <2>1, <2>2, ReturnTypes
       DEF Threads, CallsTypeOK, callVars, Goto, ThreadSteps
<1>3. CASE SpawnWorker(c)
  <2>1. Return(c) \/ UNCHANGED callVars
    BY <1>3 DEF SpawnWorker
  <2>2. UNCHANGED <<nStatus, m_oKillerThread>>
    BY <1>3 DEF SpawnWorker
  <2> QED
    BY <2>1, <2>2, ReturnTypes DEF Threads, CallsTypeOK, callVars
<1> QED
  BY <1>1, <1>2, <1>3

\* A worker that pops an entry gets a message.
LEMMA AcquireTypes ==
  ASSUME PoolTypeOK, m_qEntryQueue \in Seq(Messages),
         NEW w \in Workers, WorkerAcquire(w)
  PROVE  PoolTypeOK'
<1>1. UNCHANGED <<m_vWorkers, sink>>
  BY DEF WorkerAcquire, engineVars
<1>2. CASE m_qEntryQueue # <<>>
  <2>1. Head(m_qEntryQueue) \in Messages
    BY <1>2
  <2>2. /\ oEntry' = [oEntry EXCEPT ![w] = Head(m_qEntryQueue)]
        /\ wpc' = [wpc EXCEPT ![w] = "work"]
    BY <1>2 DEF WorkerAcquire, TakeEntry
  <2> QED
    BY <1>1, <2>1, <2>2 DEF PoolTypeOK, WorkerSteps
<1>3. CASE m_qEntryQueue = <<>>
  BY <1>1, <1>3 DEF WorkerAcquire, PoolTypeOK, WorkerSteps
<1> QED
  BY <1>2, <1>3

LEMMA TypeStep == TypeInv /\ [Next]_vars => TypeInv'
<1> SUFFICES ASSUME TypeInv, [Next]_vars PROVE TypeInv'
  OBVIOUS
<1> DEFINE TypeRest == /\ LocksTypeOK /\ CallsTypeOK
                       /\ PoolTypeOK /\ EntriesTypeOK /\ HandsFull
<1> USE ConstantsAssumption
        DEF TypeInv, TypeOK, LocksTypeOK, CallsTypeOK, PoolTypeOK,
            EntriesTypeOK, HandsFull, Threads, Status, WorkerSteps,
            ThreadSteps, LifeCycle, At, WorkerAt, Goto, Return,
            lockVars, callVars, workerVars, engineVars, logVars
<1>1. ASSUME UNCHANGED vars PROVE TypeRest'
  BY <1>1 DEF vars
<1>2. ASSUME NEW c \in Clients, NEW method \in Methods, Invoke(c, method)
      PROVE  TypeRest'
  BY <1>2 DEF Invoke
<1>3. ASSUME NEW c \in Clients, NEW m \in Messages, Log(c, m)
      PROVE  TypeRest'
  <2>1. LocksTypeOK'
    BY <1>3 DEF Log
  <2>2. CallsTypeOK'
    BY <1>3 DEF Log
  <2>3. PoolTypeOK'
    BY <1>3 DEF Log
  <2>4. EntriesTypeOK'
    BY <1>3 DEF Log
  <2>5. HandsFull'
    BY <1>3 DEF Log
  <2> QED
    BY <2>1, <2>2, <2>3, <2>4, <2>5
<1>4. ASSUME NEW c \in Clients, LogPush(c) PROVE TypeRest'
  <2>1. LocksTypeOK'
    BY <1>4 DEF LogPush, HasRoom, NotifyOne
  <2>2. CallsTypeOK'
    BY <1>4 DEF LogPush, HasRoom, NotifyOne
  <2>3. PoolTypeOK'
    BY <1>4, ZenonT(60) DEF LogPush, HasRoom, NotifyOne
  <2>4. EntriesTypeOK'
    <3>1. oMessage[c] \in Messages
      BY <1>4 DEF LogPush
    <3>2. CASE HasRoom
      <4>1. /\ m_qEntryQueue' = Append(m_qEntryQueue, oMessage[c])
            /\ accepted' = Append(accepted, oMessage[c])
            /\ oMessage' = [oMessage EXCEPT ![c] = NoMessage]
            /\ UNCHANGED <<submitted, written>>
        BY <1>4, <3>2 DEF LogPush
      <4> QED
        BY <3>1, <3>2, <4>1 DEF HasRoom
    <3>3. CASE ~HasRoom
      BY <1>4, <3>3 DEF LogPush
    <3> QED
      BY <3>2, <3>3
  <2>5. HandsFull'
    BY <1>4 DEF LogPush, HasRoom, NotifyOne
  <2> QED
    BY <2>1, <2>2, <2>3, <2>4, <2>5
<1>5. ASSUME NEW c \in Clients, LockKiller(c) PROVE TypeRest'
  BY <1>5 DEF LockKiller
<1>6. ASSUME NEW c \in Clients, WaitForKiller(c) PROVE TypeRest'
  <2>1. LocksTypeOK'
    BY <1>6 DEF WaitForKiller, JoinKiller
  <2>2. CallsTypeOK'
    BY <1>6 DEF WaitForKiller, JoinKiller
  <2>3. PoolTypeOK'
    BY <1>6 DEF WaitForKiller, JoinKiller
  <2>4. EntriesTypeOK'
    BY <1>6 DEF WaitForKiller, JoinKiller
  <2>5. HandsFull'
    BY <1>6 DEF WaitForKiller, JoinKiller
  <2> QED
    BY <2>1, <2>2, <2>3, <2>4, <2>5
<1>7. ASSUME NEW t \in Threads, LockWorker(t) PROVE TypeRest'
  BY <1>7 DEF LockWorker, KillerReleased
<1>8. ASSUME NEW c \in Clients, SignalStop(c) PROVE TypeRest'
  <2>1. LocksTypeOK'
    BY <1>8 DEF SignalStop
  <2>2. CallsTypeOK'
    BY <1>8, CallsTypes
  <2>3. PoolTypeOK'
    BY <1>8 DEF SignalStop
  <2>4. EntriesTypeOK'
    BY <1>8 DEF SignalStop
  <2>5. HandsFull'
    BY <1>8 DEF SignalStop
  <2> QED
    BY <2>1, <2>2, <2>3, <2>4, <2>5
<1>9. ASSUME NEW c \in Clients, WaitForKillerAgain(c) PROVE TypeRest'
  BY <1>9 DEF WaitForKillerAgain, JoinKiller
<1>10. ASSUME NEW c \in Clients, StartService(c) PROVE TypeRest'
  <2>1. LocksTypeOK'
    BY <1>10 DEF StartService, WorkerReleased
  <2>2. CallsTypeOK'
    BY <1>10 DEF StartService
  <2>3. PoolTypeOK'
    BY <1>10 DEF StartService
  <2>4. EntriesTypeOK'
    BY <1>10 DEF StartService
  <2>5. HandsFull'
    BY <1>10 DEF StartService
  <2> QED
    BY <2>1, <2>2, <2>3, <2>4, <2>5
<1>11. ASSUME NEW c \in Clients, StartWorkers(c) PROVE TypeRest'
  <2>1. LocksTypeOK'
    BY <1>11 DEF StartWorkers
  <2>2. CallsTypeOK'
    BY <1>11, CallsTypes
  <2>3. PoolTypeOK'
    BY <1>11 DEF StartWorkers
  <2>4. EntriesTypeOK'
    BY <1>11 DEF StartWorkers
  <2>5. HandsFull'
    BY <1>11 DEF StartWorkers
  <2> QED
    BY <2>1, <2>2, <2>3, <2>4, <2>5
<1>12. ASSUME NEW c \in Clients, SpawnWorker(c) PROVE TypeRest'
  <2>1. LocksTypeOK'
    BY <1>12 DEF SpawnWorker, WorkerReleased
  <2>2. CallsTypeOK'
    BY <1>12, CallsTypes
  <2>3. PoolTypeOK'
    BY <1>12 DEF SpawnWorker
  <2>4. EntriesTypeOK'
    BY <1>12 DEF SpawnWorker
  <2>5. HandsFull'
    BY <1>12 DEF SpawnWorker
  <2> QED
    BY <2>1, <2>2, <2>3, <2>4, <2>5
<1>13. ASSUME NEW c \in Clients, EngineOn(c) PROVE TypeRest'
  BY <1>13 DEF EngineOn
<1>14. ASSUME NEW t \in Threads, StopWorkers(t) PROVE TypeRest'
  BY <1>14 DEF StopWorkers
<1>15. ASSUME NEW t \in Threads, NotifyAll(t) PROVE TypeRest'
  BY <1>15 DEF NotifyAll
<1>16. ASSUME NEW t \in Threads, JoinWorkers(t) PROVE TypeRest'
  BY <1>16 DEF JoinWorkers
<1>17. ASSUME NEW t \in Threads, StopService(t) PROVE TypeRest'
  <2>1. LocksTypeOK'
    BY <1>17 DEF StopService, WorkerReleased
  <2>2. CallsTypeOK'
    <3>1. Return(t) \/ UNCHANGED callVars
      BY <1>17 DEF StopService
    <3>2. UNCHANGED <<nStatus, m_oKillerThread>>
      BY <1>17 DEF StopService, engineVars
    <3> QED
      BY <3>1, <3>2, ReturnTypes
  <2>3. PoolTypeOK'
    BY <1>17 DEF StopService, SinkStopped
  <2>4. EntriesTypeOK'
    BY <1>17 DEF StopService
  <2>5. HandsFull'
    BY <1>17 DEF StopService
  <2> QED
    BY <2>1, <2>2, <2>3, <2>4, <2>5
<1>18. ASSUME NEW c \in Clients, StatusRead(c) PROVE TypeRest'
  BY <1>18 DEF StatusRead
<1>19. ASSUME NEW c \in Clients, StatusReturn(c) PROVE TypeRest'
  BY <1>19 DEF StatusReturn
<1>20. ASSUME NEW w \in Workers, WorkerAcquire(w) PROVE TypeRest'
  <2>1. LocksTypeOK'
    BY <1>20 DEF WorkerAcquire, TakeEntry
  <2>2. CallsTypeOK'
    BY <1>20 DEF WorkerAcquire, TakeEntry
  <2>3. PoolTypeOK'
    BY <1>20, AcquireTypes
  <2>4. EntriesTypeOK'
    <3>1. CASE m_qEntryQueue # <<>>
      <4>1. /\ Tail(m_qEntryQueue) \in Seq(Messages)
            /\ Len(Tail(m_qEntryQueue)) = Len(m_qEntryQueue) - 1
        BY <3>1
      <4>2. UNCHANGED logVars /\ written' = written
        BY <1>20 DEF WorkerAcquire
      <4>3. m_qEntryQueue' = Tail(m_qEntryQueue)
        BY <1>20, <3>1 DEF WorkerAcquire, TakeEntry
      <4> QED
        BY <4>1, <4>2, <4>3
    <3>2. CASE m_qEntryQueue = <<>>
      BY <1>20, <3>2 DEF WorkerAcquire
    <3> QED
      BY <3>1, <3>2
  <2>5. HandsFull'
    BY <1>20 DEF WorkerAcquire, TakeEntry
  <2> QED
    BY <2>1, <2>2, <2>3, <2>4, <2>5
<1>21. ASSUME NEW w \in Workers, WorkerSleep(w) PROVE TypeRest'
  BY <1>21 DEF WorkerSleep
<1>22. ASSUME NEW w \in Workers, SpuriousWakeup(w) PROVE TypeRest'
  BY <1>22 DEF SpuriousWakeup
<1>23. ASSUME NEW w \in Workers, WorkerWrite(w) PROVE TypeRest'
  BY <1>23 DEF WorkerWrite
<1>24. ASSUME NEW w \in Workers, WorkerDecide(w) PROVE TypeRest'
  BY <1>24 DEF WorkerDecide, Continues
<1>25. ASSUME SinkBreaks PROVE TypeRest'
  BY <1>25 DEF SinkBreaks
<1>26. TypeRest'
  BY <1>1, <1>2, <1>3, <1>4, <1>5, <1>6, <1>7, <1>8, <1>9, <1>10, <1>11,
     <1>12, <1>13, <1>14, <1>15, <1>16, <1>17, <1>18, <1>19, <1>20, <1>21,
     <1>22, <1>23, <1>24, <1>25
     DEF Next, System, Environment, ClientStep, StopStep, WorkerStep
<1> QED
  BY <1>26, FlagsStep

\* Every variable keeps its type, and the queue never holds more than
\* m_nMaxEntryCount entries, however many threads log at the same time.
THEOREM TypeCorrect == Spec => []TypeOK
<1>1. TypeInv => TypeOK
  BY DEF TypeInv
<1> QED
  BY <1>1, TypeInit, TypeStep, PTL DEF Spec
-----------------------------------------------------------------------------
(* The locks and the killer                                                *)

\* The steps a thread makes while it owns m_oWorkerMutex.
UnderWorkerLock ==
  {"waitForKillerAgain", "startService", "startWorkers", "spawnWorkers",
   "stopWorkers", "notifyAll", "joinWorkers", "stopService"}

\* Where a thread stands tells which life-cycle locks it owns.
MutexInv ==
  /\ \A c \in Clients :
       m_oKillerMutex = c <=> pc[c] \in {"waitForKiller", "lockWorker"}
  /\ \A t \in Threads : m_oWorkerMutex = t <=> pc[t] \in UnderWorkerLock

LEMMA MutexInit == Init => MutexInv
  BY ConstantsAssumption DEF Init, MutexInv, UnderWorkerLock, Threads

LEMMA MutexStep == TypeInv /\ MutexInv /\ [Next]_vars => MutexInv'
<1> SUFFICES ASSUME LocksTypeOK, CallsTypeOK, MutexInv, [Next]_vars
             PROVE  MutexInv'
  BY DEF TypeInv, TypeOK
<1> USE ConstantsAssumption
        DEF LocksTypeOK, CallsTypeOK, MutexInv, UnderWorkerLock, Threads,
            At, Goto, Return, callVars, lockVars
<1>1. ASSUME NEW c \in Clients, NEW method \in Methods, Invoke(c, method)
      PROVE  MutexInv'
  BY <1>1 DEF Invoke
<1>2. ASSUME NEW c \in Clients, NEW m \in Messages, Log(c, m) PROVE MutexInv'
  BY <1>2 DEF Log
<1>3. ASSUME NEW c \in Clients, LogPush(c) PROVE MutexInv'
  BY <1>3 DEF LogPush, NotifyOne
<1>4. ASSUME NEW c \in Clients, LockKiller(c) PROVE MutexInv'
  BY <1>4 DEF LockKiller
<1>5. ASSUME NEW c \in Clients, WaitForKiller(c) PROVE MutexInv'
  BY <1>5 DEF WaitForKiller, JoinKiller
<1>6. ASSUME NEW t \in Threads, LockWorker(t) PROVE MutexInv'
  BY <1>6 DEF LockWorker, KillerReleased
<1>7. ASSUME NEW c \in Clients, SignalStop(c) PROVE MutexInv'
  BY <1>7 DEF SignalStop
<1>8. ASSUME NEW c \in Clients, WaitForKillerAgain(c) PROVE MutexInv'
  BY <1>8 DEF WaitForKillerAgain, JoinKiller
<1>9. ASSUME NEW c \in Clients, StartService(c) PROVE MutexInv'
  BY <1>9 DEF StartService, WorkerReleased
<1>10. ASSUME NEW c \in Clients, StartWorkers(c) PROVE MutexInv'
  BY <1>10 DEF StartWorkers
<1>11. ASSUME NEW c \in Clients, SpawnWorker(c) PROVE MutexInv'
  BY <1>11 DEF SpawnWorker, WorkerReleased
<1>12. ASSUME NEW c \in Clients, EngineOn(c) PROVE MutexInv'
  BY <1>12 DEF EngineOn
<1>13. ASSUME NEW t \in Threads, StopWorkers(t) PROVE MutexInv'
  BY <1>13 DEF StopWorkers
<1>14. ASSUME NEW t \in Threads, NotifyAll(t) PROVE MutexInv'
  BY <1>14 DEF NotifyAll
<1>15. ASSUME NEW t \in Threads, JoinWorkers(t) PROVE MutexInv'
  BY <1>15 DEF JoinWorkers
<1>16. ASSUME NEW t \in Threads, StopService(t) PROVE MutexInv'
  BY <1>16 DEF StopService, SinkStopped, WorkerReleased
<1>17. ASSUME NEW c \in Clients, StatusRead(c) PROVE MutexInv'
  BY <1>17 DEF StatusRead
<1>18. ASSUME NEW c \in Clients, StatusReturn(c) PROVE MutexInv'
  BY <1>18 DEF StatusReturn
<1>19. CASE UNCHANGED <<pc, m_oKillerMutex, m_oWorkerMutex>>
  BY <1>19
<1> QED
  BY <1>1, <1>2, <1>3, <1>4, <1>5, <1>6, <1>7, <1>8, <1>9, <1>10, <1>11,
     <1>12, <1>13, <1>14, <1>15, <1>16, <1>17, <1>18, <1>19
     DEF Next, System, Environment, ClientStep, StopStep, WorkerStep, vars,
         WorkerAcquire, WorkerSleep, SpuriousWakeup, WorkerWrite,
         WorkerDecide, SinkBreaks

\* KillerHandshake made inductive: a thread that has passed waitForKiller()
\* and still keeps the next signalStop() out, by either lock, sees no killer.
KillerInv ==
  /\ m_oKillerThread \in {0, 1}
  /\ pc[Killer] # "idle" => m_oKillerThread = 1
  /\ \A c \in Clients :
       pc[c] = "lockWorker" \/ m_oWorkerMutex = c => m_oKillerThread = 0

LEMMA KillerInit == Init => KillerInv
  BY ConstantsAssumption DEF Init, KillerInv, Threads

LEMMA KillerStep ==
  TypeInv /\ MutexInv /\ KillerInv /\ [Next]_vars => KillerInv'
<1> SUFFICES ASSUME LocksTypeOK, CallsTypeOK, MutexInv, KillerInv, [Next]_vars
             PROVE  KillerInv'
  BY DEF TypeInv, TypeOK
<1> USE ConstantsAssumption
        DEF LocksTypeOK, CallsTypeOK, MutexInv, UnderWorkerLock, KillerInv,
            Threads, At, Goto, Return, callVars, lockVars, engineVars
<1>1. ASSUME NEW c \in Clients, NEW method \in Methods, Invoke(c, method)
      PROVE  KillerInv'
  BY <1>1 DEF Invoke
<1>2. ASSUME NEW c \in Clients, NEW m \in Messages, Log(c, m)
      PROVE  KillerInv'
  BY <1>2 DEF Log
<1>3. ASSUME NEW c \in Clients, LogPush(c) PROVE KillerInv'
  BY <1>3 DEF LogPush, NotifyOne
<1>4. ASSUME NEW c \in Clients, LockKiller(c) PROVE KillerInv'
  BY <1>4 DEF LockKiller
<1>5. ASSUME NEW c \in Clients, WaitForKiller(c) PROVE KillerInv'
  BY <1>5 DEF WaitForKiller, JoinKiller
<1>6. ASSUME NEW t \in Threads, LockWorker(t) PROVE KillerInv'
  BY <1>6 DEF LockWorker, KillerReleased
<1>7. ASSUME NEW c \in Clients, SignalStop(c) PROVE KillerInv'
  BY <1>7 DEF SignalStop
<1>8. ASSUME NEW c \in Clients, WaitForKillerAgain(c) PROVE KillerInv'
  BY <1>8 DEF WaitForKillerAgain, JoinKiller
<1>9. ASSUME NEW c \in Clients, StartService(c) PROVE KillerInv'
  BY <1>9 DEF StartService
<1>10. ASSUME NEW c \in Clients, StartWorkers(c) PROVE KillerInv'
  BY <1>10 DEF StartWorkers
<1>11. ASSUME NEW c \in Clients, SpawnWorker(c) PROVE KillerInv'
  BY <1>11 DEF SpawnWorker
<1>12. ASSUME NEW c \in Clients, EngineOn(c) PROVE KillerInv'
  BY <1>12 DEF EngineOn
<1>13. ASSUME NEW t \in Threads, StopWorkers(t) PROVE KillerInv'
  BY <1>13 DEF StopWorkers
<1>14. ASSUME NEW t \in Threads, NotifyAll(t) PROVE KillerInv'
  BY <1>14 DEF NotifyAll
<1>15. ASSUME NEW t \in Threads, JoinWorkers(t) PROVE KillerInv'
  BY <1>15 DEF JoinWorkers
<1>16. ASSUME NEW t \in Threads, StopService(t) PROVE KillerInv'
  BY <1>16 DEF StopService, SinkStopped
<1>17. ASSUME NEW c \in Clients, StatusRead(c) PROVE KillerInv'
  BY <1>17 DEF StatusRead
<1>18. ASSUME NEW c \in Clients, StatusReturn(c) PROVE KillerInv'
  BY <1>18 DEF StatusReturn
<1>19. CASE UNCHANGED <<pc, m_oKillerMutex, m_oWorkerMutex, m_oKillerThread>>
  BY <1>19
<1> QED
  BY <1>1, <1>2, <1>3, <1>4, <1>5, <1>6, <1>7, <1>8, <1>9, <1>10, <1>11,
     <1>12, <1>13, <1>14, <1>15, <1>16, <1>17, <1>18, <1>19
     DEF Next, System, Environment, ClientStep, StopStep, WorkerStep, vars,
         WorkerAcquire, WorkerSleep, SpuriousWakeup, WorkerWrite,
         WorkerDecide, SinkBreaks

\* However many threads start, stop and signal at the same time, there is at
\* most one killer, its handle is never lost, and no thread that owns
\* m_oWorkerMutex ever joins a killer waiting for that mutex.
THEOREM KillerHandshakeHolds == Spec => []KillerHandshake
<1>1. TypeInv /\ KillerInv => KillerHandshake
  BY ConstantsAssumption
     DEF KillerInv, KillerHandshake, TypeInv, TypeOK, LocksTypeOK
<1>2. Init => TypeInv /\ MutexInv /\ KillerInv
  BY TypeInit, MutexInit, KillerInit
<1>3. TypeInv /\ MutexInv /\ KillerInv /\ [Next]_vars
        => (TypeInv /\ MutexInv /\ KillerInv)'
  BY TypeStep, MutexStep, KillerStep
<1> QED
  BY <1>1, <1>2, <1>3, PTL DEF Spec

-----------------------------------------------------------------------------
(* A signalled stop                                                        *)

\* From here on to the return the flag is down.
FlagDown == {"spawnWorkers", "notifyAll", "joinWorkers", "stopService"}

\* The killer runs the body of stop() and nothing else.
SignalInv ==
  /\ \A t \in Threads : pc[t] \in FlagDown => ~m_bWorkerEngineOn
  /\ pc[Killer] \in {"idle", "lockWorker", "stopWorkers"} \cup FlagDown
  /\ pc[Killer] # "spawnWorkers"
  /\ pc[Killer] = "lockWorker" => call[Killer] = "stop"
  /\ SignalledStopHolds

LEMMA SignalInit == Init => SignalInv
  BY ConstantsAssumption
     DEF Init, SignalInv, SignalledStopHolds, FlagDown, Threads

LEMMA SignalStep ==
  TypeInv /\ MutexInv /\ KillerInv /\ SignalInv /\ [Next]_vars => SignalInv'
<1> SUFFICES ASSUME LocksTypeOK, CallsTypeOK, MutexInv, KillerInv, SignalInv,
                    [Next]_vars
             PROVE  SignalInv'
  BY DEF TypeInv, TypeOK
<1> USE ConstantsAssumption
        DEF LocksTypeOK, CallsTypeOK, MutexInv, UnderWorkerLock, KillerInv,
            SignalInv, SignalledStopHolds, FlagDown, Threads, At, Goto,
            Return, callVars, lockVars, engineVars
<1>1. ASSUME NEW c \in Clients, NEW method \in Methods, Invoke(c, method)
      PROVE  SignalInv'
  BY <1>1 DEF Invoke
<1>2. ASSUME NEW c \in Clients, NEW m \in Messages, Log(c, m)
      PROVE  SignalInv'
  BY <1>2 DEF Log
<1>3. ASSUME NEW c \in Clients, LogPush(c) PROVE SignalInv'
  BY <1>3 DEF LogPush, NotifyOne
<1>4. ASSUME NEW c \in Clients, LockKiller(c) PROVE SignalInv'
  BY <1>4 DEF LockKiller
<1>5. ASSUME NEW c \in Clients, WaitForKiller(c) PROVE SignalInv'
  BY <1>5 DEF WaitForKiller, JoinKiller
<1>6. ASSUME NEW t \in Threads, LockWorker(t) PROVE SignalInv'
  BY <1>6 DEF LockWorker, KillerReleased
<1>7. ASSUME NEW c \in Clients, SignalStop(c) PROVE SignalInv'
  BY <1>7 DEF SignalStop
<1>8. ASSUME NEW c \in Clients, WaitForKillerAgain(c) PROVE SignalInv'
  BY <1>8 DEF WaitForKillerAgain, JoinKiller
<1>9. ASSUME NEW c \in Clients, StartService(c) PROVE SignalInv'
  BY <1>9 DEF StartService
<1>10. ASSUME NEW c \in Clients, StartWorkers(c) PROVE SignalInv'
  BY <1>10 DEF StartWorkers
<1>11. ASSUME NEW c \in Clients, SpawnWorker(c) PROVE SignalInv'
  BY <1>11 DEF SpawnWorker
<1>12. ASSUME NEW c \in Clients, EngineOn(c) PROVE SignalInv'
  BY <1>12 DEF EngineOn
<1>13. ASSUME NEW t \in Threads, StopWorkers(t) PROVE SignalInv'
  BY <1>13 DEF StopWorkers
<1>14. ASSUME NEW t \in Threads, NotifyAll(t) PROVE SignalInv'
  BY <1>14 DEF NotifyAll
<1>15. ASSUME NEW t \in Threads, JoinWorkers(t) PROVE SignalInv'
  BY <1>15 DEF JoinWorkers
<1>16. ASSUME NEW t \in Threads, StopService(t) PROVE SignalInv'
  BY <1>16 DEF StopService, SinkStopped
<1>17. ASSUME NEW c \in Clients, StatusRead(c) PROVE SignalInv'
  BY <1>17 DEF StatusRead
<1>18. ASSUME NEW c \in Clients, StatusReturn(c) PROVE SignalInv'
  BY <1>18 DEF StatusReturn
<1>19. ASSUME SinkBreaks PROVE SignalInv'
  BY <1>19 DEF SinkBreaks
<1>20. CASE UNCHANGED <<pc, call, m_oWorkerMutex, m_bWorkerEngineOn,
                     m_oKillerThread, sink>>
  BY <1>20
<1> QED
  BY <1>1, <1>2, <1>3, <1>4, <1>5, <1>6, <1>7, <1>8, <1>9, <1>10, <1>11,
     <1>12, <1>13, <1>14, <1>15, <1>16, <1>17, <1>18, <1>19, <1>20
     DEF Next, System, Environment, ClientStep, StopStep, WorkerStep, vars,
         WorkerAcquire, WorkerSleep, SpuriousWakeup, WorkerWrite,
         WorkerDecide

\* signalStop() takes effect, for every number of competing callers.
THEOREM SignalledStopHoldsAlways == Spec => []SignalledStopHolds
<1>1. SignalInv => SignalledStopHolds
  BY DEF SignalInv
<1>2. Init => TypeInv /\ MutexInv /\ KillerInv /\ SignalInv
  BY TypeInit, MutexInit, KillerInit, SignalInit
<1>3. TypeInv /\ MutexInv /\ KillerInv /\ SignalInv /\ [Next]_vars
        => (TypeInv /\ MutexInv /\ KillerInv /\ SignalInv)'
  BY TypeStep, MutexStep, KillerStep, SignalStep
<1> QED
  BY <1>1, <1>2, <1>3, PTL DEF Spec

-----------------------------------------------------------------------------
(* The sink and the pool                                                   *)

\* The steps that touch the queue, its lock or the pool.
LEMMA QueueSteps ==
  ASSUME [Next]_vars
  PROVE  \/ UNCHANGED <<m_oQueueMutex, m_qEntryQueue, wpc, m_vWorkers>>
         \/ \E c \in Clients : LogPush(c) \/ SpawnWorker(c)
         \/ \E t \in Threads : NotifyAll(t) \/ JoinWorkers(t)
         \/ \E w \in Workers : WorkerStep(w) \/ SpuriousWakeup(w)
  BY DEF Next, System, Environment, ClientStep, StopStep, vars, workerVars, engineVars,
         lockVars, Threads, Invoke, Log, LockKiller, WaitForKiller,
         JoinKiller, LockWorker, SignalStop, WaitForKillerAgain, StartService,
         StartWorkers, EngineOn, StopWorkers, StopService,
         StatusRead, StatusReturn, SinkBreaks

\* No thread of the pool is forgotten: what runs is in the vector.
LiveInv == \A w \in Workers : wpc[w] # "off" => w \in m_vWorkers

LEMMA LiveInit == Init => LiveInv
  BY DEF Init, LiveInv

LEMMA LiveStep == TypeInv /\ LiveInv /\ [Next]_vars => LiveInv'
<1> SUFFICES ASSUME PoolTypeOK, LiveInv, [Next]_vars PROVE LiveInv'
  BY DEF TypeInv, TypeOK
<1> USE DEF PoolTypeOK, LiveInv, WorkerSteps, WorkerAt, workerVars, engineVars
<1>1. ASSUME NEW c \in Clients, LogPush(c) PROVE LiveInv'
  BY <1>1 DEF LogPush, NotifyOne
<1>2. ASSUME NEW c \in Clients, SpawnWorker(c) PROVE LiveInv'
  BY <1>2 DEF SpawnWorker
<1>3. ASSUME NEW t \in Threads, NotifyAll(t) PROVE LiveInv'
  BY <1>3 DEF NotifyAll
<1>4. ASSUME NEW t \in Threads, JoinWorkers(t) PROVE LiveInv'
  BY <1>4 DEF JoinWorkers, WorkersEnded
<1>5. ASSUME NEW w \in Workers, WorkerAcquire(w) PROVE LiveInv'
  BY <1>5 DEF WorkerAcquire, TakeEntry
<1>6. ASSUME NEW w \in Workers, WorkerSleep(w) PROVE LiveInv'
  BY <1>6 DEF WorkerSleep
<1>7. ASSUME NEW w \in Workers, SpuriousWakeup(w) PROVE LiveInv'
  BY <1>7 DEF SpuriousWakeup
<1>8. ASSUME NEW w \in Workers, WorkerWrite(w) PROVE LiveInv'
  BY <1>8 DEF WorkerWrite
<1>9. ASSUME NEW w \in Workers, WorkerDecide(w) PROVE LiveInv'
  BY <1>9 DEF WorkerDecide, Continues
<1>10. CASE UNCHANGED <<m_oQueueMutex, m_qEntryQueue, wpc, m_vWorkers>>
  BY <1>10
<1> QED
  BY <1>1, <1>2, <1>3, <1>4, <1>5, <1>6, <1>7, <1>8, <1>9, <1>10, QueueSteps
     DEF WorkerStep

\* With the flag down and nobody starting or stopping, no thread of the pool is
\* left.  This needs every std::thread to be created, or a pool of one: start()
\* does not undo half a pool.
VectorInv ==
  m_vWorkers # {} =>
    \/ m_bWorkerEngineOn
    \/ \E t \in Threads : pc[t] \in {"spawnWorkers", "notifyAll", "joinWorkers"}

\* A released sink has no pool.
PoolInv ==
  /\ VectorInv
  /\ sink = "STOPPED" =>
       /\ ~m_bWorkerEngineOn
       /\ \A t \in Threads : pc[t] \notin {"startWorkers", "spawnWorkers",
                                           "notifyAll", "joinWorkers"}

LEMMA PoolInit == Init => PoolInv
  BY ConstantsAssumption DEF Init, PoolInv, VectorInv, Threads

LEMMA PoolStep ==
  ASSUME SpawnMayFail = FALSE
  PROVE  TypeInv /\ MutexInv /\ SignalInv /\ PoolInv /\ [Next]_vars
           => PoolInv'
<1> SUFFICES ASSUME LocksTypeOK, CallsTypeOK, PoolTypeOK, MutexInv, SignalInv,
                    PoolInv, [Next]_vars
             PROVE  PoolInv'
  BY DEF TypeInv, TypeOK
<1> USE ConstantsAssumption
        DEF LocksTypeOK, CallsTypeOK, PoolTypeOK, MutexInv, UnderWorkerLock,
            SignalInv, FlagDown, PoolInv, VectorInv, Threads, Status,
            WorkerSteps, At, WorkerAt, Goto, Return, callVars, lockVars, engineVars,
            workerVars
<1>1. ASSUME NEW c \in Clients, NEW method \in Methods, Invoke(c, method)
      PROVE  PoolInv'
  BY <1>1 DEF Invoke
<1>2. ASSUME NEW c \in Clients, NEW m \in Messages, Log(c, m) PROVE PoolInv'
  BY <1>2 DEF Log
<1>3. ASSUME NEW c \in Clients, LogPush(c) PROVE PoolInv'
  BY <1>3 DEF LogPush, NotifyOne
<1>4. ASSUME NEW c \in Clients, LockKiller(c) PROVE PoolInv'
  BY <1>4 DEF LockKiller
<1>5. ASSUME NEW c \in Clients, WaitForKiller(c) PROVE PoolInv'
  BY <1>5 DEF WaitForKiller, JoinKiller
<1>6. ASSUME NEW t \in Threads, LockWorker(t) PROVE PoolInv'
  BY <1>6 DEF LockWorker, KillerReleased
<1>7. ASSUME NEW c \in Clients, SignalStop(c) PROVE PoolInv'
  BY <1>7 DEF SignalStop
<1>8. ASSUME NEW c \in Clients, WaitForKillerAgain(c) PROVE PoolInv'
  BY <1>8 DEF WaitForKillerAgain, JoinKiller
<1>9. ASSUME NEW c \in Clients, StartService(c) PROVE PoolInv'
  BY <1>9 DEF StartService
<1>10. ASSUME NEW c \in Clients, StartWorkers(c) PROVE PoolInv'
  BY <1>10 DEF StartWorkers
<1>11. ASSUME NEW c \in Clients, SpawnWorker(c) PROVE PoolInv'
  BY <1>11 DEF SpawnWorker
<1>12. ASSUME NEW c \in Clients, EngineOn(c) PROVE PoolInv'
  BY <1>12 DEF EngineOn
<1>13. ASSUME NEW t \in Threads, StopWorkers(t) PROVE PoolInv'
  BY <1>13 DEF StopWorkers
<1>14. ASSUME NEW t \in Threads, NotifyAll(t) PROVE PoolInv'
  BY <1>14 DEF NotifyAll
<1>15. ASSUME NEW t \in Threads, JoinWorkers(t) PROVE PoolInv'
  BY <1>15 DEF JoinWorkers, WorkersEnded
<1>16. ASSUME NEW t \in Threads, StopService(t) PROVE PoolInv'
  BY <1>16 DEF StopService, SinkStopped
<1>17. ASSUME NEW c \in Clients, StatusRead(c) PROVE PoolInv'
  BY <1>17 DEF StatusRead
<1>18. ASSUME NEW c \in Clients, StatusReturn(c) PROVE PoolInv'
  BY <1>18 DEF StatusReturn
<1>19. ASSUME NEW w \in Workers, WorkerAcquire(w) PROVE PoolInv'
  BY <1>19 DEF WorkerAcquire, TakeEntry
<1>20. ASSUME NEW w \in Workers, WorkerSleep(w) PROVE PoolInv'
  BY <1>20 DEF WorkerSleep
<1>21. ASSUME NEW w \in Workers, SpuriousWakeup(w) PROVE PoolInv'
  BY <1>21 DEF SpuriousWakeup
<1>22. ASSUME NEW w \in Workers, WorkerWrite(w) PROVE PoolInv'
  BY <1>22 DEF WorkerWrite
<1>23. ASSUME NEW w \in Workers, WorkerDecide(w) PROVE PoolInv'
  BY <1>23 DEF WorkerDecide, Continues
<1>24. ASSUME SinkBreaks PROVE PoolInv'
  BY <1>24 DEF SinkBreaks
<1>25. CASE UNCHANGED vars
  BY <1>25 DEF vars
<1> QED
  BY <1>1, <1>2, <1>3, <1>4, <1>5, <1>6, <1>7, <1>8, <1>9, <1>10, <1>11,
     <1>12, <1>13, <1>14, <1>15, <1>16, <1>17, <1>18, <1>19, <1>20, <1>21,
     <1>22, <1>23, <1>24, <1>25
     DEF Next, System, Environment, ClientStep, StopStep, WorkerStep, vars

\* When every thread can be created, no entry is ever written to a sink that
\* is not open, over any number of starts, stops and signalled stops.
THEOREM NoWriteToStoppedSinkHolds ==
  ASSUME SpawnMayFail = FALSE
  PROVE  Spec => NoWriteToStoppedSink
<1>1. LiveInv /\ PoolInv /\ [Next]_vars
        => [written' # written => sink # "STOPPED"]_vars
  <2> SUFFICES ASSUME LiveInv, PoolInv, [Next]_vars, written' # written
               PROVE  sink # "STOPPED"
    OBVIOUS
  <2>1. PICK w \in Workers : WorkerWrite(w)
    BY DEF Next, System, Environment, ClientStep, StopStep, WorkerStep, vars,
           Invoke, Log, LogPush, LockKiller, WaitForKiller, LockWorker,
           SignalStop, WaitForKillerAgain, StartService, StartWorkers,
           SpawnWorker, EngineOn, StopWorkers, NotifyAll, JoinWorkers,
           StopService, StatusRead, StatusReturn, WorkerAcquire, WorkerSleep,
           SpuriousWakeup, WorkerDecide, SinkBreaks
  <2>2. w \in m_vWorkers
    BY <2>1 DEF WorkerWrite, WorkerAt, LiveInv
  <2> QED
    BY <2>2 DEF PoolInv, VectorInv
<1> DEFINE IInv == /\ TypeInv /\ MutexInv /\ KillerInv /\ SignalInv
                   /\ LiveInv /\ PoolInv
<1>2. Init => IInv
  BY TypeInit, MutexInit, KillerInit, SignalInit, LiveInit, PoolInit
<1>3. IInv /\ [Next]_vars => IInv'
  BY TypeStep, MutexStep, KillerStep, SignalStep, LiveStep, PoolStep
<1> QED
  BY <1>1, <1>2, <1>3, PTL DEF Spec, NoWriteToStoppedSink

\* What ends the process: clearing a vector that still has threads in it.
LEMMA NoTermination ==
  ASSUME TypeInv, MutexInv, VectorInv, SinkMayBreak = FALSE,
         ~terminated, [Next]_vars
  PROVE  ~terminated'
<1>1. CASE UNCHANGED terminated
  BY <1>1
<1>2. ASSUME NEW c \in Clients, StartWorkers(c) PROVE ~terminated'
  <2>1. pc[c] = "startWorkers"
    BY <1>2 DEF StartWorkers, At
  <2>2. \A t \in Threads :
          pc[t] \notin {"spawnWorkers", "notifyAll", "joinWorkers"}
    BY <2>1 DEF MutexInv, UnderWorkerLock, Threads
  <2>3. m_bWorkerEngineOn \/ m_vWorkers = {}
    BY <2>2 DEF VectorInv
  <2> QED
    BY <1>2, <2>3 DEF StartWorkers
<1>3. ASSUME NEW t \in Threads, StopService(t) PROVE ~terminated'
  BY <1>3 DEF StopService
<1> QED
  BY <1>1, <1>2, <1>3
     DEF Next, System, Environment, ClientStep, StopStep, WorkerStep, vars,
         Threads, Invoke, Log, LogPush, LockKiller, WaitForKiller,
         LockWorker, SignalStop, WaitForKillerAgain, StartService, EngineOn,
         StopWorkers, SpawnWorker, NotifyAll, JoinWorkers, StatusRead,
         StatusReturn, WorkerAcquire, WorkerSleep, SpuriousWakeup,
         WorkerWrite, WorkerDecide, SinkBreaks

\* No sequence of calls ends the process, whatever their number and order, if
\* threads can be created and the sink does not throw.
THEOREM NeverTerminatesHolds ==
  ASSUME SpawnMayFail = FALSE, SinkMayBreak = FALSE
  PROVE  Spec => []NeverTerminates
<1> DEFINE IInv == /\ TypeInv /\ MutexInv /\ KillerInv /\ SignalInv
                   /\ PoolInv /\ ~terminated
<1>1. IInv => NeverTerminates
  BY DEF NeverTerminates
<1>2. Init => IInv
  BY TypeInit, MutexInit, KillerInit, SignalInit, PoolInit DEF Init
<1>3. IInv /\ [Next]_vars => IInv'
  BY TypeStep, MutexStep, KillerStep, SignalStep, PoolStep, NoTermination
     DEF PoolInv
<1> QED
  BY <1>1, <1>2, <1>3, PTL DEF Spec

-----------------------------------------------------------------------------
(* The queue and the condition variable                                    *)

\* The predicate of wait() and the block that follows it are one step to
\* whoever needs the queue lock, because the lock is kept between them.
BacklogInv ==
  /\ \A w \in Workers : m_oQueueMutex = w <=> wpc[w] \in {"sleep", "decide"}
  /\ \A w \in Workers : wpc[w] \in {"sleep", "decide"} => m_qEntryQueue = <<>>
  /\ NoSleepOnBacklog

LEMMA BacklogInit == Init => BacklogInv
  BY ConstantsAssumption DEF Init, BacklogInv, NoSleepOnBacklog

LEMMA BacklogStep ==
  TypeInv /\ LiveInv /\ BacklogInv /\ [Next]_vars => BacklogInv'
<1> SUFFICES ASSUME TypeInv, LocksTypeOK, PoolTypeOK, EntriesTypeOK,
                    LiveInv, BacklogInv, [Next]_vars
             PROVE  BacklogInv'
  BY DEF TypeInv, TypeOK
<1> USE ConstantsAssumption
        DEF LocksTypeOK, PoolTypeOK, EntriesTypeOK, BacklogInv,
            NoSleepOnBacklog, WorkerSteps, WorkerAt, workerVars, lockVars
<1>1. ASSUME NEW c \in Clients, LogPush(c) PROVE BacklogInv'
  BY <1>1, ZenonT(60) DEF LogPush, NotifyOne
<1>2. ASSUME NEW c \in Clients, SpawnWorker(c) PROVE BacklogInv'
  <2>1. UNCHANGED <<m_oQueueMutex, m_qEntryQueue>>
    BY <1>2 DEF SpawnWorker
  <2>2. \/ wpc' = wpc
        \/ \E w \in Workers \ m_vWorkers : wpc' = [wpc EXCEPT ![w] = "lock"]
    BY <1>2 DEF SpawnWorker
  <2> QED
    BY <2>1, <2>2 DEF LiveInv
<1>3. ASSUME NEW t \in Threads, NotifyAll(t) PROVE BacklogInv'
  BY <1>3 DEF NotifyAll
<1>4. ASSUME NEW t \in Threads, JoinWorkers(t) PROVE BacklogInv'
  BY <1>4 DEF JoinWorkers
<1>5. ASSUME NEW w \in Workers, WorkerAcquire(w) PROVE BacklogInv'
  BY <1>5 DEF WorkerAcquire, TakeEntry
<1>6. ASSUME NEW w \in Workers, WorkerSleep(w) PROVE BacklogInv'
  BY <1>6 DEF WorkerSleep
<1>7. ASSUME NEW w \in Workers, SpuriousWakeup(w) PROVE BacklogInv'
  BY <1>7 DEF SpuriousWakeup
<1>8. ASSUME NEW w \in Workers, WorkerWrite(w) PROVE BacklogInv'
  BY <1>8 DEF WorkerWrite
<1>9. ASSUME NEW w \in Workers, WorkerDecide(w) PROVE BacklogInv'
  BY <1>9 DEF WorkerDecide, Continues
<1>10. CASE UNCHANGED <<m_oQueueMutex, m_qEntryQueue, wpc, m_vWorkers>>
  BY <1>10
<1> QED
  BY <1>1, <1>2, <1>3, <1>4, <1>5, <1>6, <1>7, <1>8, <1>9, <1>10, QueueSteps
     DEF WorkerStep

\* log() never leaves an entry behind with every living worker asleep.
THEOREM NoSleepOnBacklogHolds == Spec => []NoSleepOnBacklog
<1>1. BacklogInv => NoSleepOnBacklog
  BY DEF BacklogInv
<1>2. Init => TypeInv /\ LiveInv /\ BacklogInv
  BY TypeInit, LiveInit, BacklogInit
<1>3. TypeInv /\ LiveInv /\ BacklogInv /\ [Next]_vars
        => (TypeInv /\ LiveInv /\ BacklogInv)'
  BY TypeStep, LiveStep, BacklogStep
<1> QED
  BY <1>1, <1>2, <1>3, PTL DEF Spec
-----------------------------------------------------------------------------
(* The circle of waits                                                     *)

\* Who waits for whom, given who owns what: a worker only for one that owns the
\* queue lock and waits for nobody; the owner of m_oWorkerMutex at most for
\* workers; the killer for that owner; the owner of m_oKillerMutex for that
\* owner or the killer; and everybody else for one of these.
LEMMA WaitsOrdered ==
  ASSUME TypeInv, MutexInv, KillerInv, SignalInv, BacklogInv,
         NEW a \in Threads \cup Workers, NEW b \in Threads \cup Workers,
         WaitsFor(a, b)
  PROVE  \/ b \in Workers /\ wpc[b] \in {"sleep", "decide"}
         \/ b \in Workers /\ a \in Threads
         \/ a \in Threads /\ pc[a] = "lockWorker" /\ m_oWorkerMutex = b
         \/ /\ a \in Clients /\ b = Killer
            /\ pc[a] = "waitForKiller" /\ m_oKillerThread > 0
         \/ a \in Clients /\ pc[a] = "lockKiller" /\ m_oKillerMutex = b
<1> USE ConstantsAssumption, ThreadsAssumption
        DEF TypeInv, TypeOK, LocksTypeOK, CallsTypeOK, PoolTypeOK, Threads
<1>1. CASE m_oQueueMutex = b
  BY <1>1 DEF BacklogInv
<1>2. CASE a \in Threads /\ pc[a] = "joinWorkers" /\ b \in m_vWorkers
  BY <1>2
<1>3. CASE a \in Threads /\ pc[a] = "lockKiller" /\ m_oKillerMutex = b
  BY <1>3 DEF SignalInv, FlagDown
<1>4. CASE a \in Threads /\ pc[a] = "lockWorker" /\ m_oWorkerMutex = b
  BY <1>4
<1>5. CASE /\ a \in Threads /\ pc[a] \in {"waitForKiller", "waitForKillerAgain"}
           /\ b = Killer /\ m_oKillerThread > 0
  <2>1. a \in Clients
    BY <1>5 DEF SignalInv, FlagDown
  <2>2. pc[a] # "waitForKillerAgain"
    BY <1>5, <2>1 DEF MutexInv, UnderWorkerLock, KillerInv
  <2> QED
    BY <1>5, <2>1, <2>2
<1> QED
  BY <1>1, <1>2, <1>3, <1>4, <1>5 DEF WaitsFor

LEMMA NoCircle ==
  ASSUME TypeInv, MutexInv, KillerInv, SignalInv, BacklogInv
  PROVE  NoCircularWait
<1> SUFFICES ASSUME NEW S \in SUBSET (Threads \cup Workers), S # {},
                    \A a \in S : \E b \in S : WaitsFor(a, b)
             PROVE  FALSE
  BY DEF NoCircularWait
<1> USE ConstantsAssumption, ThreadsAssumption DEF Threads
<1>1. \A a \in S : \E b \in S :
        \/ b \in Workers /\ wpc[b] \in {"sleep", "decide"}
        \/ b \in Workers /\ a \in Threads
        \/ a \in Threads /\ pc[a] = "lockWorker" /\ m_oWorkerMutex = b
        \/ a \in Clients /\ b = Killer /\ pc[a] = "waitForKiller"
        \/ a \in Clients /\ pc[a] = "lockKiller" /\ m_oKillerMutex = b
  <2> TAKE a \in S
  <2>1. PICK b \in S : WaitsFor(a, b)
    OBVIOUS
  <2> QED
    BY <2>1, WaitsOrdered
<1>2. \A w \in Workers : w \in S => wpc[w] \notin {"sleep", "decide"}
  BY DEF WaitsFor
<1>3. S \cap Workers = {}
  BY <1>1, <1>2
<1>4. m_oWorkerMutex \notin S
  BY <1>1, <1>3 DEF MutexInv, UnderWorkerLock
<1>5. \A a \in S : pc[a] # "lockWorker"
  BY <1>1, <1>3, <1>4
<1>6. Killer \notin S
  BY <1>1, <1>3, <1>5
<1>7. \A a \in S : pc[a] # "waitForKiller"
  BY <1>1, <1>3, <1>6
<1>8. m_oKillerMutex \notin S
  BY <1>3, <1>5, <1>6, <1>7 DEF MutexInv
<1> QED
  BY <1>1, <1>3, <1>5, <1>7, <1>8

\* No circle of threads, each waiting for a lock of the next or for its end, can
\* close in the engine, however many threads call it and fail in their calls.
THEOREM NoCircularWaitHolds == Spec => []NoCircularWait
<1> DEFINE IInv == /\ TypeInv /\ MutexInv /\ KillerInv /\ SignalInv
                   /\ LiveInv /\ BacklogInv
<1>1. IInv => NoCircularWait
  BY NoCircle
<1>2. Init => IInv
  BY TypeInit, MutexInit, KillerInit, SignalInit, LiveInit, BacklogInit
<1>3. IInv /\ [Next]_vars => IInv'
  BY TypeStep, MutexStep, KillerStep, SignalStep, LiveStep, BacklogStep
<1> QED
  BY <1>1, <1>2, <1>3, PTL DEF Spec
-----------------------------------------------------------------------------
(* What status() answers                                                   *)

\* A sink that does not fail is up whenever the flag is, and the flag is down
\* when serviceStop() runs; an always-on sink never was anything else.
AnswerInv ==
  /\ sink # "BROKEN"
  /\ sink = "STOPPED" =>
       /\ ~m_bWorkerEngineOn
       /\ \A c \in Clients : pc[c] \notin {"startWorkers", "spawnWorkers"}
  /\ \A c \in Clients : nStatus[c] = "RUNNING" => sink # "TRASCENDENT"

LEMMA AnswerInit == Init => AnswerInv
  BY ConstantsAssumption DEF Init, AnswerInv, Threads

LEMMA AnswerStep ==
  ASSUME SinkMayBreak = FALSE
  PROVE  TypeInv /\ MutexInv /\ SignalInv /\ AnswerInv /\ [Next]_vars
           => AnswerInv'
<1> SUFFICES ASSUME LocksTypeOK, CallsTypeOK, PoolTypeOK, MutexInv, SignalInv,
                    AnswerInv, [Next]_vars
             PROVE  AnswerInv'
  BY DEF TypeInv, TypeOK
<1> USE ConstantsAssumption
        DEF LocksTypeOK, CallsTypeOK, PoolTypeOK, MutexInv, UnderWorkerLock,
            SignalInv, FlagDown, AnswerInv, Threads, Status,
            At, WorkerAt, Goto, Return, callVars, lockVars, engineVars,
            workerVars
<1>1. ASSUME NEW c \in Clients, NEW method \in Methods, Invoke(c, method)
      PROVE  AnswerInv'
  BY <1>1 DEF Invoke
<1>2. ASSUME NEW c \in Clients, NEW m \in Messages, Log(c, m) PROVE AnswerInv'
  BY <1>2 DEF Log
<1>3. ASSUME NEW c \in Clients, LogPush(c) PROVE AnswerInv'
  BY <1>3 DEF LogPush, NotifyOne
<1>4. ASSUME NEW c \in Clients, LockKiller(c) PROVE AnswerInv'
  BY <1>4 DEF LockKiller
<1>5. ASSUME NEW c \in Clients, WaitForKiller(c) PROVE AnswerInv'
  BY <1>5 DEF WaitForKiller, JoinKiller
<1>6. ASSUME NEW t \in Threads, LockWorker(t) PROVE AnswerInv'
  BY <1>6 DEF LockWorker, KillerReleased
<1>7. ASSUME NEW c \in Clients, SignalStop(c) PROVE AnswerInv'
  BY <1>7 DEF SignalStop
<1>8. ASSUME NEW c \in Clients, WaitForKillerAgain(c) PROVE AnswerInv'
  BY <1>8 DEF WaitForKillerAgain, JoinKiller
<1>9. ASSUME NEW c \in Clients, StartService(c) PROVE AnswerInv'
  BY <1>9 DEF StartService
<1>10. ASSUME NEW c \in Clients, StartWorkers(c) PROVE AnswerInv'
  BY <1>10 DEF StartWorkers
<1>11. ASSUME NEW c \in Clients, SpawnWorker(c) PROVE AnswerInv'
  BY <1>11 DEF SpawnWorker
<1>12. ASSUME NEW c \in Clients, EngineOn(c) PROVE AnswerInv'
  BY <1>12 DEF EngineOn
<1>13. ASSUME NEW t \in Threads, StopWorkers(t) PROVE AnswerInv'
  BY <1>13 DEF StopWorkers
<1>14. ASSUME NEW t \in Threads, NotifyAll(t) PROVE AnswerInv'
  BY <1>14 DEF NotifyAll
<1>15. ASSUME NEW t \in Threads, JoinWorkers(t) PROVE AnswerInv'
  BY <1>15 DEF JoinWorkers, WorkersEnded
<1>16. ASSUME NEW t \in Threads, StopService(t) PROVE AnswerInv'
  BY <1>16 DEF StopService, SinkStopped
<1>17. ASSUME NEW c \in Clients, StatusRead(c) PROVE AnswerInv'
  BY <1>17 DEF StatusRead
<1>18. ASSUME NEW c \in Clients, StatusReturn(c) PROVE AnswerInv'
  BY <1>18 DEF StatusReturn
<1>19. ASSUME NEW w \in Workers, WorkerStep(w) \/ SpuriousWakeup(w)
      PROVE  AnswerInv'
  BY <1>19 DEF WorkerStep, WorkerAcquire, TakeEntry, WorkerSleep, SpuriousWakeup,
              WorkerWrite, WorkerDecide, Continues
<1>20. ~SinkBreaks
  BY DEF SinkBreaks
<1>21. CASE UNCHANGED vars
  BY <1>21 DEF vars
<1> QED
  BY <1>1, <1>2, <1>3, <1>4, <1>5, <1>6, <1>7, <1>8, <1>9, <1>10, <1>11,
     <1>12, <1>13, <1>14, <1>15, <1>16, <1>17, <1>18, <1>19, <1>20, <1>21
     DEF Next, System, Environment, ClientStep, StopStep, vars

\* The answer of status(), unless it is BROKEN, was right at some moment of the
\* call, although its two reads are made with no lock: for every number of
\* threads that start and stop the logger meanwhile.
THEOREM StatusWasTrueHolds ==
  ASSUME SinkMayBreak = FALSE
  PROVE  Spec => StatusWasTrue
<1> DEFINE IInv == /\ TypeInv /\ MutexInv /\ KillerInv /\ SignalInv
                   /\ AnswerInv
           Answered ==
             \A c \in Clients :
               /\ pc[c] = "idle" /\ pc'[c] = "status" /\ sink = "STOPPED"
                    => ~m_bWorkerEngineOn
               /\ pc[c] = "status" /\ pc'[c] = "idle"
                    /\ CompositeStatus(nStatus[c], m_bWorkerEngineOn) = "RUNNING"
                  => sink = "RUNNING"
<1>1. IInv => Answered
  BY DEF TypeInv, TypeOK, PoolTypeOK, Status, AnswerInv, CompositeStatus
<1>2. Init => IInv
  BY TypeInit, MutexInit, KillerInit, SignalInit, AnswerInit
<1>3. IInv /\ [Next]_vars => IInv'
  BY TypeStep, MutexStep, KillerStep, SignalStep, AnswerStep
<1> QED
  BY <1>1, <1>2, <1>3, PTL DEF Spec, StatusWasTrue
=============================================================================
