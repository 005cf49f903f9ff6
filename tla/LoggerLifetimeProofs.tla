------------------------- MODULE LoggerLifetimeProofs -------------------------
(***************************************************************************)
(* Theorems about the life of an asynchronous ostream logger, for every    *)
(* number of threads and messages: it is the logger of AsyncOstreamLogger  *)
(* to its users, and nothing of it is left when its implementation goes.   *)
(***************************************************************************)
EXTENDS LoggerLifetime, AsyncOstreamLoggerProofs

allLifetimeVars == <<allVars, lifetimeVars>>

-----------------------------------------------------------------------------
(* The logger underneath                                                   *)

LEMMA StepOfLogger == [LifetimeNext]_allLifetimeVars => [OstreamNext]_allVars
<1> USE DEF allLifetimeVars
<1>1. ASSUME Running PROVE OstreamNext
  BY <1>1 DEF Running, OstreamNext, EngineStep, Next, Environment,
              SpuriousWakeup
<1>2. ASSUME Application, UNCHANGED ostreamVars PROVE OstreamNext
  <2>1. Next
    BY <1>2 DEF Application, Next, Environment
  <2>2. written' = written
    BY <1>2 DEF Application, Log, Invoke, StatusRead
  <2> QED
    BY <1>2, <2>1, <2>2 DEF OstreamNext, EngineStep
<1>3. ASSUME NEW c \in Clients, NEW d \in Clients, CopyHandle(c, d)
      PROVE  UNCHANGED allVars
  BY <1>3 DEF CopyHandle
<1>4. ASSUME NEW c \in Clients, Destruction(c) PROVE [OstreamNext]_allVars
  <2>1. CASE DestructorCall(c)
    <3>1. PICK method \in {"stop", "join"} : Invoke(c, method)
      BY <2>1 DEF DestructorCall
    <3>2. Next /\ written' = written
      BY <3>1 DEF Next, Environment, Invoke
    <3> QED
      BY <2>1, <3>2 DEF OstreamNext, EngineStep, DestructorCall
  <2>2. CASE ~DestructorCall(c)
    BY <1>4, <2>2 DEF Destruction, DestroyHandle, Release, Free
  <2> QED
    BY <2>1, <2>2
<1> QED
  BY <1>1, <1>2, <1>3, <1>4 DEF LifetimeNext

\* Handles and destructors only restrict who may call when: what is proved of
\* OstreamSpec, the lines whole and in order, holds over the whole lifetime.
THEOREM LoggerImplemented == LifetimeSpec => OstreamSpec
<1>1. LifetimeInit => OstreamInit
  BY DEF LifetimeInit
<1> QED
  BY <1>1, StepOfLogger, PTL DEF LifetimeSpec, OstreamSpec, allLifetimeVars

-----------------------------------------------------------------------------
(* What the destructors have left to do                                    *)

HandleTodos ==
  {<<>>, <<"stop", "join", "release">>, <<"join", "release">>, <<"release">>}

DyingTodos == {<<"stop", "join", "free">>, <<"join", "free">>, <<"free">>}

\* Who has a handle is in its destructor or not; of those who have none, one
\* may be in the destructor of the implementation, and then no handle is left.
TodoInv ==
  /\ handles \subseteq Clients
  /\ todo \in [Clients -> HandleTodos \cup DyingTodos]
  /\ \A c \in Clients :
       todo[c] # <<>> => (c \in handles <=> todo[c] \in HandleTodos)
  /\ \A c \in Clients :
       todo[c] \in DyingTodos =>
         handles = {} /\ ~freed /\ \A d \in Clients : d # c => todo[d] = <<>>
  /\ freed => handles = {} /\ \A c \in Clients : todo[c] = <<>>

LEMMA TodoTails ==
  /\ Tail(<<"stop", "join", "release">>) = <<"join", "release">>
  /\ Tail(<<"join", "release">>) = <<"release">>
  /\ Tail(<<"release">>) = <<>>
  /\ Tail(<<"stop", "join", "free">>) = <<"join", "free">>
  /\ Tail(<<"join", "free">>) = <<"free">>
  /\ Tail(<<"free">>) = <<>>
  /\ ImplDestructor \o <<>> = <<"stop", "join", "free">>
  BY DEF ImplDestructor

LEMMA TodoDistinct ==
  /\ HandleTodos \cap DyingTodos = {}
  /\ <<>> \notin DyingTodos
  BY DEF HandleTodos, DyingTodos

\* The step a destructor has come to, and what is left after it.
LEMMA TodoAt ==
  ASSUME TodoInv, NEW c \in Clients
  PROVE  /\ Destroys(c, "stop") =>
              \/ todo[c] = <<"stop", "join", "release">>
                   /\ Tail(todo[c]) = <<"join", "release">>
              \/ todo[c] = <<"stop", "join", "free">>
                   /\ Tail(todo[c]) = <<"join", "free">>
         /\ Destroys(c, "join") =>
              \/ todo[c] = <<"join", "release">> /\ Tail(todo[c]) = <<"release">>
              \/ todo[c] = <<"join", "free">> /\ Tail(todo[c]) = <<"free">>
         /\ Destroys(c, "release") =>
              todo[c] = <<"release">> /\ Tail(todo[c]) = <<>>
         /\ Destroys(c, "free") => todo[c] = <<"free">> /\ Tail(todo[c]) = <<>>
<1>1. /\ Head(<<"stop", "join", "release">>) = "stop"
      /\ Head(<<"join", "release">>) = "join"
      /\ Head(<<"release">>) = "release"
      /\ Head(<<"stop", "join", "free">>) = "stop"
      /\ Head(<<"join", "free">>) = "join"
      /\ Head(<<"free">>) = "free"
  OBVIOUS
<1>2. todo[c] \in HandleTodos \cup DyingTodos
  BY DEF TodoInv
<1> QED
  BY <1>1, <1>2, TodoTails, Zenon DEF Destroys, HandleTodos, DyingTodos

LEMMA TodoInit == LifetimeInit => TodoInv
  BY TodoDistinct DEF LifetimeInit, TodoInv, HandleTodos, DyingTodos

LEMMA TodoStep == TodoInv /\ [LifetimeNext]_allLifetimeVars => TodoInv'
<1> SUFFICES ASSUME TodoInv, [LifetimeNext]_allLifetimeVars PROVE TodoInv'
  OBVIOUS
<1> USE TodoDistinct
<1>1. CASE UNCHANGED lifetimeVars
  BY <1>1 DEF lifetimeVars, TodoInv
<1>2. ASSUME NEW c \in Clients, NEW d \in Clients, CopyHandle(c, d)
      PROVE  TodoInv'
  BY <1>2 DEF CopyHandle, Holds, TodoInv
<1>3. ASSUME NEW c \in Clients, DestroyHandle(c) PROVE TodoInv'
  <2>1. HandleDestructor(c) \in HandleTodos /\ HandleDestructor(c) # <<>>
    BY DEF HandleDestructor, HandleTodos
  <2> QED
    BY <1>3, <2>1 DEF DestroyHandle, Holds, TodoInv
<1>4. ASSUME NEW c \in Clients, DestructorCall(c) PROVE TodoInv'
  <2>1. /\ todo[c] \in HandleTodos => Tail(todo[c]) \in HandleTodos
        /\ todo[c] \in DyingTodos => Tail(todo[c]) \in DyingTodos
        /\ Tail(todo[c]) # <<>> /\ todo[c] # <<>>
    <3>1. Destroys(c, "stop") \/ Destroys(c, "join")
      BY <1>4 DEF DestructorCall
    <3>2. \/ todo[c] = <<"stop", "join", "release">>
               /\ Tail(todo[c]) = <<"join", "release">>
          \/ todo[c] = <<"join", "release">> /\ Tail(todo[c]) = <<"release">>
          \/ todo[c] = <<"stop", "join", "free">>
               /\ Tail(todo[c]) = <<"join", "free">>
          \/ todo[c] = <<"join", "free">> /\ Tail(todo[c]) = <<"free">>
      BY <3>1, TodoAt
    <3> QED
      BY <3>2 DEF HandleTodos, DyingTodos
  <2> QED
    BY <1>4, <2>1 DEF DestructorCall, TodoInv
<1>5. ASSUME NEW c \in Clients, Release(c) PROVE TodoInv'
  <2>1. todo[c] = <<"release">> /\ Tail(todo[c]) = <<>>
    BY <1>5, TodoAt DEF Release
  <2>2. <<"stop", "join", "free">> \in DyingTodos /\ <<"release">> \in HandleTodos
        /\ <<"release">> # <<>> /\ <<>> \in HandleTodos
    BY DEF DyingTodos, HandleTodos
  <2>3. CASE handles = {c}
    <3>1. /\ handles' = {} /\ freed' = freed
          /\ todo' = [todo EXCEPT ![c] = <<"stop", "join", "free">>]
      BY <1>5, <2>1, <2>3, TodoTails DEF Release
    <3> QED
      BY <2>1, <2>2, <2>3, <3>1 DEF TodoInv
  <2>4. CASE handles # {c}
    <3>1. /\ handles' = handles \ {c} /\ freed' = freed
          /\ todo' = [todo EXCEPT ![c] = <<>>]
      BY <1>5, <2>1, <2>4 DEF Release
    <3>2. c \in handles
      BY <2>1, <2>2 DEF TodoInv
    <3> QED
      BY <2>1, <2>2, <2>4, <3>1, <3>2 DEF TodoInv
  <2> QED
    BY <2>3, <2>4
<1>6. ASSUME NEW c \in Clients, Free(c) PROVE TodoInv'
  <2>1. todo[c] = <<"free">> /\ Tail(todo[c]) = <<>>
    BY <1>6, TodoAt DEF Free
  <2>2. todo[c] \in DyingTodos
    BY <2>1 DEF DyingTodos
  <2> QED
    BY <1>6, <2>1, <2>2 DEF Free, TodoInv, HandleTodos
<1> QED
  BY <1>1, <1>2, <1>3, <1>4, <1>5, <1>6
     DEF LifetimeNext, Destruction, allLifetimeVars

-----------------------------------------------------------------------------
(* A pool of one                                                           *)

\* start() cannot leave half a pool of one behind.
LEMMA VectorStep ==
  TypeInv /\ KillerInv /\ VectorInv /\ [Next]_vars => VectorInv'
<1> SUFFICES ASSUME CallsTypeOK, PoolTypeOK, KillerInv, VectorInv,
                    [Next]_vars
             PROVE  VectorInv'
  BY DEF TypeInv, TypeOK
<1> USE ConstantsAssumption
        DEF CallsTypeOK, PoolTypeOK, VectorInv, Threads, At, Goto, Return,
            callVars, engineVars
<1>1. ASSUME NEW c \in Clients, NEW method \in Methods, Invoke(c, method)
      PROVE  VectorInv'
  BY <1>1 DEF Invoke
<1>2. ASSUME NEW c \in Clients, NEW m \in Messages, Log(c, m)
      PROVE  VectorInv'
  BY <1>2 DEF Log
<1>3. ASSUME NEW c \in Clients, LogPush(c) PROVE VectorInv'
  BY <1>3 DEF LogPush, NotifyOne
<1>4. ASSUME NEW c \in Clients, LockKiller(c) PROVE VectorInv'
  BY <1>4 DEF LockKiller
<1>5. ASSUME NEW c \in Clients, WaitForKiller(c) PROVE VectorInv'
  BY <1>5 DEF WaitForKiller
<1>6. ASSUME NEW t \in Threads, LockWorker(t) PROVE VectorInv'
  BY <1>6 DEF LockWorker, KillerReleased
<1>7. ASSUME NEW c \in Clients, SignalStop(c) PROVE VectorInv'
  <2>1. /\ pc[c] = "lockWorker" /\ UNCHANGED <<m_vWorkers, m_bWorkerEngineOn>>
        /\ \/ pc' = [pc EXCEPT ![c] = "idle", ![Killer] = "lockWorker"]
           \/ pc' = [pc EXCEPT ![c] = "idle"]
    BY <1>7 DEF SignalStop
  <2>2. pc[Killer] = "idle"
    BY <2>1 DEF KillerInv
  <2> QED
    BY <2>1, <2>2
<1>8. ASSUME NEW c \in Clients, WaitForKillerAgain(c) PROVE VectorInv'
  BY <1>8 DEF WaitForKillerAgain
<1>9. ASSUME NEW c \in Clients, StartService(c) PROVE VectorInv'
  BY <1>9 DEF StartService
<1>10. ASSUME NEW c \in Clients, StartWorkers(c) PROVE VectorInv'
  BY <1>10 DEF StartWorkers
<1>11. ASSUME NEW c \in Clients, SpawnWorker(c) PROVE VectorInv'
  <2>1. PICK w \in Workers \ m_vWorkers :
          \/ Return(c) /\ UNCHANGED m_vWorkers
          \/ m_vWorkers' = m_vWorkers \cup {w} /\ UNCHANGED pc
    BY <1>11 DEF SpawnWorker
  <2>2. m_vWorkers = {}
    BY <2>1, OneWorker
  <2> QED
    BY <1>11, <2>1, <2>2 DEF SpawnWorker
<1>12. ASSUME NEW c \in Clients, EngineOn(c) PROVE VectorInv'
  BY <1>12 DEF EngineOn
<1>13. ASSUME NEW t \in Threads, StopWorkers(t) PROVE VectorInv'
  BY <1>13 DEF StopWorkers
<1>14. ASSUME NEW t \in Threads, NotifyAll(t) PROVE VectorInv'
  BY <1>14 DEF NotifyAll
<1>15. ASSUME NEW t \in Threads, JoinWorkers(t) PROVE VectorInv'
  BY <1>15 DEF JoinWorkers
<1>16. ASSUME NEW t \in Threads, StopService(t) PROVE VectorInv'
  BY <1>16 DEF StopService
<1>17. ASSUME NEW c \in Clients, StatusRead(c) PROVE VectorInv'
  BY <1>17 DEF StatusRead
<1>18. ASSUME NEW c \in Clients, StatusReturn(c) PROVE VectorInv'
  BY <1>18 DEF StatusReturn
<1>19. ASSUME UNCHANGED <<pc, engineVars>> PROVE VectorInv'
  BY <1>19
<1> QED
  BY <1>1, <1>2, <1>3, <1>4, <1>5, <1>6, <1>7, <1>8, <1>9, <1>10, <1>11,
     <1>12, <1>13, <1>14, <1>15, <1>16, <1>17, <1>18, <1>19
     DEF Next, System, Environment, ClientStep, StopStep, WorkerStep, vars,
         WorkerAcquire, WorkerSleep, SpuriousWakeup, WorkerWrite,
         WorkerDecide, SinkBreaks

LEMMA VectorInit == Init => VectorInv
  BY DEF Init, VectorInv

\* The process of an application that uses the asynchronous ostream loggers is
\* never ended by them, not even when the worker or the killer cannot be created.
THEOREM LoggerNeverTerminates == LifetimeSpec => []NeverTerminates
<1> DEFINE IInv == /\ TypeInv /\ MutexInv /\ KillerInv
                   /\ VectorInv /\ ~terminated
<1>1. IInv => NeverTerminates
  BY DEF NeverTerminates
<1>2. Init => IInv
  BY TypeInit, MutexInit, KillerInit, VectorInit DEF Init
<1>3. IInv /\ [Next]_vars => IInv'
  <2>1. SinkMayBreak = FALSE
    BY OstreamAssumption, ConstantsAssumption
  <2> QED
    BY <2>1, TypeStep, MutexStep, KillerStep, VectorStep, NoTermination
<1>4. LifetimeSpec => Spec
  BY LoggerImplemented, EngineImplemented
<1> QED
  BY <1>1, <1>2, <1>3, <1>4, PTL DEF Spec

-----------------------------------------------------------------------------
(* The destruction of the implementation                                   *)

Quiet == ~m_bWorkerEngineOn /\ m_vWorkers = {} /\ m_oKillerThread = 0

StopCall ==
  {"lockKiller", "waitForKiller", "lockWorker", "stopWorkers", "notifyAll",
   "joinWorkers", "stopService"}

\* Nobody but the dying thread is in a call.  Its stop() leaves the engine
\* quiet, as there is nobody to start it again, and its join() finds it so.
DyingInv ==
  /\ \A c \in Clients \ handles :
       todo[c] \in {<<>>, <<"stop", "join", "free">>} => pc[c] = "idle"
  /\ \A c \in Clients : todo[c] = <<"join", "free">> =>
       \/ pc[c] = "idle" /\ Quiet
       \/ /\ pc[c] \in StopCall /\ call[c] = "stop"
          /\ pc[c] = "stopService" => m_vWorkers = {}
  /\ \A c \in Clients : todo[c] = <<"free">> =>
       /\ Quiet
       /\ \/ pc[c] = "idle"
          \/ pc[c] \in {"lockKiller", "waitForKiller"} /\ call[c] = "join"
  /\ freed => Quiet

EngineInv ==
  /\ TypeInv /\ MutexInv /\ KillerInv /\ SignalInv /\ LiveInv /\ VectorInv

\* A call that is not under way stays so, unless the application makes one.
LEMMA IdleStays ==
  ASSUME EngineInv, System, NEW c \in Clients, pc[c] = "idle"
  PROVE  pc'[c] = "idle"
<1> USE ConstantsAssumption
        DEF EngineInv, TypeInv, TypeOK, CallsTypeOK, Threads, At, Goto, Return,
            callVars
<1>1. ASSUME NEW d \in Clients,
             \/ LogPush(d) \/ LockKiller(d) \/ WaitForKiller(d)
             \/ WaitForKillerAgain(d) \/ StartService(d) \/ StatusReturn(d)
      PROVE  pc'[c] = "idle"
  BY <1>1 DEF LogPush, LockKiller, WaitForKiller, WaitForKillerAgain,
              StartService, StatusReturn
<1>2. ASSUME NEW d \in Clients,
             SignalStop(d) \/ StartWorkers(d) \/ SpawnWorker(d) \/ EngineOn(d)
      PROVE  pc'[c] = "idle"
  BY <1>2 DEF SignalStop, StartWorkers, SpawnWorker, EngineOn
<1>3. ASSUME NEW t \in Threads, StopStep(t) PROVE pc'[c] = "idle"
  BY <1>3 DEF StopStep, LockWorker, StopWorkers, NotifyAll, JoinWorkers,
              StopService
<1>4. ASSUME NEW w \in Workers, WorkerStep(w) PROVE pc'[c] = "idle"
  BY <1>4 DEF WorkerStep, WorkerAcquire, WorkerSleep, WorkerWrite, WorkerDecide
<1> QED
  BY <1>1, <1>2, <1>3, <1>4 DEF System, ClientStep

\* Nobody who is idle moves.
LEMMA WhoMoves ==
  ASSUME System
  PROVE  \/ \E c \in Clients : ClientStep(c) /\ pc[c] # "idle"
         \/ StopStep(Killer) /\ pc[Killer] # "idle"
         \/ UNCHANGED <<callVars, engineVars>>
<1>1. ASSUME NEW d \in Clients, ClientStep(d) PROVE pc[d] # "idle"
  BY <1>1 DEF ClientStep, StopStep, At, LogPush, LockKiller, WaitForKiller,
              SignalStop, WaitForKillerAgain, StartService, StartWorkers,
              SpawnWorker, EngineOn, StatusReturn, LockWorker, StopWorkers,
              NotifyAll, JoinWorkers, StopService
<1>2. ASSUME StopStep(Killer) PROVE pc[Killer] # "idle"
  BY <1>2 DEF StopStep, At, LockWorker, StopWorkers, NotifyAll, JoinWorkers,
              StopService
<1>3. ASSUME NEW w \in Workers, WorkerStep(w)
      PROVE  UNCHANGED <<callVars, engineVars>>
  BY <1>3 DEF WorkerStep, WorkerAcquire, WorkerSleep, WorkerWrite, WorkerDecide
<1> QED
  BY <1>1, <1>2, <1>3 DEF System

\* The dying thread gets through its stop().
LEMMA StopProceeds ==
  ASSUME EngineInv, NEW c \in Clients, ClientStep(c), pc[c] \in StopCall,
         call[c] = "stop", pc[c] = "stopService" => m_vWorkers = {},
         \A d \in Clients : d # c => pc[d] = "idle"
  PROVE  \/ pc'[c] = "idle" /\ Quiet'
         \/ /\ pc'[c] \in StopCall /\ call'[c] = "stop"
            /\ pc'[c] = "stopService" => m_vWorkers' = {}
<1> USE ConstantsAssumption
        DEF EngineInv, TypeInv, TypeOK, CallsTypeOK, StopCall, Threads, At,
            Goto, Return, callVars, engineVars
<1>1. CASE LockKiller(c)
  BY <1>1 DEF LockKiller
<1>2. CASE WaitForKiller(c)
  BY <1>2 DEF WaitForKiller
<1>3. CASE LockWorker(c)
  BY <1>3 DEF LockWorker
<1>4. CASE StopWorkers(c)
  <2>1. m_oWorkerMutex = c
    BY <1>4 DEF StopWorkers, MutexInv, UnderWorkerLock
  <2>2. \A t \in Threads : t # c => pc[t] \notin UnderWorkerLock
    BY <2>1 DEF MutexInv
  <2>3. ~m_bWorkerEngineOn => m_vWorkers = {}
    BY <1>4, <2>2 DEF StopWorkers, VectorInv, UnderWorkerLock
  <2> QED
    BY <1>4, <2>3 DEF StopWorkers
<1>5. CASE NotifyAll(c)
  BY <1>5 DEF NotifyAll
<1>6. CASE JoinWorkers(c)
  BY <1>6 DEF JoinWorkers
<1>7. CASE StopService(c)
  <2>1. pc[c] = "stopService" /\ UNCHANGED engineVars /\ c # Killer
    BY <1>7 DEF StopService
  <2>2. ~m_bWorkerEngineOn /\ m_vWorkers = {} /\ m_oKillerThread = 0
    BY <2>1 DEF SignalInv, FlagDown, MutexInv, UnderWorkerLock, KillerInv
  <2>3. Return(c)
    BY <1>7, <2>1 DEF StopService
  <2> QED
    BY <2>1, <2>2, <2>3 DEF Quiet
<1> QED
  BY <1>1, <1>2, <1>3, <1>4, <1>5, <1>6, <1>7
     DEF ClientStep, StopStep, LogPush, SignalStop, WaitForKillerAgain,
         StartService, StartWorkers, SpawnWorker, EngineOn, StatusReturn

\* And through its join().
LEMMA JoinProceeds ==
  ASSUME EngineInv, Quiet, NEW c \in Clients, ClientStep(c),
         pc[c] \in {"lockKiller", "waitForKiller"}, call[c] = "join"
  PROVE  /\ Quiet'
         /\ \/ pc'[c] = "idle"
            \/ pc'[c] \in {"lockKiller", "waitForKiller"} /\ call'[c] = "join"
<1> USE DEF EngineInv, TypeInv, TypeOK, CallsTypeOK, Threads, At, Goto, Return,
            callVars, engineVars, Quiet
<1>1. CASE LockKiller(c)
  BY <1>1 DEF LockKiller
<1>2. CASE WaitForKiller(c)
  BY <1>2 DEF WaitForKiller, JoinKiller
<1> QED
  BY <1>1, <1>2
     DEF ClientStep, StopStep, LogPush, SignalStop, WaitForKillerAgain,
         StartService, StartWorkers, SpawnWorker, EngineOn, StatusReturn,
         LockWorker, StopWorkers, NotifyAll, JoinWorkers, StopService

\* The killer meanwhile touches neither the dying thread nor an empty pool.
LEMMA KillerProceeds ==
  ASSUME EngineInv, StopStep(Killer), NEW c \in Clients
  PROVE  /\ pc'[c] = pc[c] /\ call'[c] = call[c]
         /\ m_vWorkers = {} => m_vWorkers' = {}
<1> USE ConstantsAssumption
        DEF EngineInv, TypeInv, TypeOK, CallsTypeOK, Threads, At, Goto, Return,
            callVars, engineVars
<1> QED
  BY DEF StopStep, LockWorker, StopWorkers, NotifyAll, JoinWorkers, StopService

LEMMA SystemDying ==
  ASSUME EngineInv, TodoInv, DyingInv, System, UNCHANGED lifetimeVars
  PROVE  DyingInv'
<1> USE TodoDistinct DEF lifetimeVars
<1>1. ASSUME NEW c \in Clients, c \notin handles,
             todo[c] \in {<<>>, <<"stop", "join", "free">>}
      PROVE  pc'[c] = "idle"
  BY <1>1, IdleStays DEF DyingInv
<1>2. ASSUME NEW c \in Clients, todo[c] \in DyingTodos
      PROVE  \A d \in Clients : d # c => pc[d] = "idle"
  BY <1>2 DEF TodoInv, DyingInv
<1>3. Quiet => pc[Killer] = "idle"
  BY DEF Quiet, EngineInv, KillerInv
<1>4. ASSUME NEW c \in Clients, todo[c] = <<"join", "free">>
      PROVE  \/ pc'[c] = "idle" /\ Quiet'
             \/ /\ pc'[c] \in StopCall /\ call'[c] = "stop"
                /\ pc'[c] = "stopService" => m_vWorkers' = {}
  <2>1. \A d \in Clients : d # c => pc[d] = "idle"
    BY <1>2, <1>4 DEF DyingTodos
  <2>2. CASE UNCHANGED <<callVars, engineVars>>
    BY <1>4, <2>2 DEF DyingInv, callVars, engineVars, Quiet
  <2>3. CASE ClientStep(c) /\ pc[c] # "idle"
    BY <1>4, <2>1, <2>3, StopProceeds DEF DyingInv
  <2>4. CASE StopStep(Killer) /\ pc[Killer] # "idle"
    BY <1>3, <1>4, <2>4, KillerProceeds DEF DyingInv
  <2> QED
    BY <2>1, <2>2, <2>3, <2>4, WhoMoves
<1>5. ASSUME NEW c \in Clients, todo[c] = <<"free">>
      PROVE  /\ Quiet'
             /\ \/ pc'[c] = "idle"
                \/ pc'[c] \in {"lockKiller", "waitForKiller"} /\ call'[c] = "join"
  <2>1. \A d \in Clients : d # c => pc[d] = "idle"
    BY <1>2, <1>5 DEF DyingTodos
  <2>2. CASE UNCHANGED <<callVars, engineVars>>
    BY <1>5, <2>2 DEF DyingInv, callVars, engineVars, Quiet
  <2>3. CASE ClientStep(c) /\ pc[c] # "idle"
    BY <1>5, <2>3, JoinProceeds DEF DyingInv
  <2>4. ~(StopStep(Killer) /\ pc[Killer] # "idle")
    BY <1>3, <1>5 DEF DyingInv
  <2> QED
    BY <2>1, <2>2, <2>3, <2>4, WhoMoves
<1>6. ASSUME freed PROVE Quiet'
  <2>1. \A d \in Clients : pc[d] = "idle"
    BY <1>6 DEF TodoInv, DyingInv
  <2> QED
    BY <1>3, <1>6, <2>1, WhoMoves DEF DyingInv, engineVars, Quiet
<1> QED
  BY <1>1, <1>4, <1>5, <1>6 DEF DyingInv

LEMMA DyingInit == LifetimeInit => DyingInv
  BY DEF LifetimeInit, OstreamInit, Init, DyingInv, Threads

LEMMA DyingStep ==
  EngineInv /\ TodoInv /\ DyingInv /\ [LifetimeNext]_allLifetimeVars => DyingInv'
<1> SUFFICES ASSUME EngineInv, TodoInv, DyingInv,
                    [LifetimeNext]_allLifetimeVars
             PROVE  DyingInv'
  OBVIOUS
<1> USE TodoDistinct
<1>1. ASSUME UNCHANGED lifetimeVars, UNCHANGED <<callVars, engineVars>>
      PROVE  DyingInv'
  BY <1>1 DEF lifetimeVars, callVars, engineVars, DyingInv, Quiet
<1>2. ASSUME Running, UNCHANGED lifetimeVars PROVE DyingInv'
  <2>1. ASSUME NEW w \in Workers,
               WritePiece(w) \/ WriteEnd(w) \/ SpuriousWakeup(w)
        PROVE  UNCHANGED <<callVars, engineVars>>
    BY <2>1 DEF WritePiece, WriteEnd, WorkerWrite, SpuriousWakeup, vars
  <2> QED
    BY <1>1, <1>2, <2>1, SystemDying DEF Running
<1>3. ASSUME Application, UNCHANGED lifetimeVars PROVE DyingInv'
  <2>1. PICK c \in Clients :
          Holds(c) /\ \A d \in Clients : d # c => pc'[d] = pc[d]
    BY <1>3 DEF Application, Log, Invoke, StatusRead, Goto, callVars, EngineInv,
                TypeInv, TypeOK, CallsTypeOK, Threads
  <2>2. handles # {} /\ ~freed /\ \A d \in Clients : todo[d] \notin DyingTodos
    BY <2>1 DEF Holds, TodoInv
  <2>3. ASSUME NEW d \in Clients, d \notin handles PROVE pc'[d] = pc[d]
    BY <2>1, <2>3 DEF Holds
  <2> QED
    BY <1>3, <2>2, <2>3 DEF lifetimeVars, DyingInv, DyingTodos
<1>4. ASSUME NEW c \in Clients, NEW d \in Clients, CopyHandle(c, d)
      PROVE  DyingInv'
  BY <1>4 DEF CopyHandle, allVars, vars, callVars, engineVars, DyingInv, Quiet
<1>5. ASSUME NEW c \in Clients, DestroyHandle(c) PROVE DyingInv'
  <2>1. HandleDestructor(c) \in HandleTodos
    BY DEF HandleDestructor, HandleTodos
  <2>2. todo' = [todo EXCEPT ![c] = HandleDestructor(c)] /\ c \in handles
    BY <1>5 DEF DestroyHandle, Holds
  <2>3. UNCHANGED <<handles, freed, callVars, engineVars>>
    BY <1>5 DEF DestroyHandle, allVars, vars
  <2> QED
    BY <2>1, <2>2, <2>3
       DEF TodoInv, DyingInv, Quiet, callVars, engineVars, DyingTodos
<1>6. ASSUME NEW c \in Clients, DestructorCall(c) PROVE DyingInv'
  <2>1. PICK method \in {"stop", "join"} : Destroys(c, method) /\ Invoke(c, method)
    BY <1>6 DEF DestructorCall
  <2>2. /\ pc' = [pc EXCEPT ![c] = "lockKiller"]
        /\ call' = [call EXCEPT ![c] = method]
        /\ UNCHANGED <<engineVars, handles, freed>> /\ pc[c] = "idle"
        /\ todo' = [todo EXCEPT ![c] = Tail(@)]
        /\ pc \in [Threads -> ThreadSteps] /\ call \in [Threads -> LifeCycle \cup {"none"}]
        /\ todo \in [Clients -> HandleTodos \cup DyingTodos]
    BY <1>6, <2>1
       DEF DestructorCall, Invoke, Goto, At, EngineInv, TypeInv, TypeOK,
           CallsTypeOK, TodoInv
  <2>3. CASE c \in handles
    <3>1. \A d \in Clients : todo[d] \notin DyingTodos
      BY <2>3 DEF TodoInv
    <3>2. Tail(todo[c]) \in HandleTodos
      BY <2>1, <3>1, TodoAt DEF HandleTodos, DyingTodos
    <3> QED
      BY <2>2, <2>3, <3>1, <3>2
         DEF TodoInv, DyingInv, Quiet, engineVars, DyingTodos, Threads
  <2>4. CASE c \notin handles
    <3>1. \/ /\ method = "stop" /\ todo[c] = <<"stop", "join", "free">>
             /\ Tail(todo[c]) = <<"join", "free">>
          \/ /\ method = "join" /\ todo[c] = <<"join", "free">>
             /\ Tail(todo[c]) = <<"free">>
      BY <2>1, <2>4, TodoAt DEF TodoInv, HandleTodos, Destroys
    <3>2. ~freed /\ \A d \in Clients : d # c => todo[d] = <<>>
      BY <3>1 DEF TodoInv, DyingTodos
    <3>3. method = "join" => Quiet
      BY <2>2, <3>1 DEF DyingInv, StopCall
    <3> QED
      BY <2>2, <2>4, <3>1, <3>2, <3>3
         DEF DyingInv, Quiet, engineVars, StopCall, Threads
  <2> QED
    BY <2>3, <2>4
<1>7. ASSUME NEW c \in Clients, Release(c) PROVE DyingInv'
  <2>1. /\ todo[c] = <<"release">> /\ Tail(todo[c]) = <<>> /\ pc[c] = "idle"
        /\ handles' = handles \ {c}
        /\ UNCHANGED <<freed, callVars, engineVars>>
    BY <1>7, TodoAt DEF Release, Destroys, At, allVars, vars
  <2>2. /\ c \in handles /\ ~freed
        /\ \A d \in Clients : todo[d] \notin DyingTodos
    <3>1. todo[c] \in HandleTodos /\ todo[c] # <<>>
      BY <2>1 DEF HandleTodos
    <3> QED
      BY <3>1 DEF TodoInv
  <2>3. todo' \in {[todo EXCEPT ![c] = <<"stop", "join", "free">>],
                   [todo EXCEPT ![c] = <<>>]}
    BY <1>7, <2>1, TodoTails DEF Release
  <2>4. ASSUME NEW d \in Clients, d # c
        PROVE  todo'[d] = todo[d] /\ todo[d] \notin DyingTodos
    BY <2>2, <2>3, <2>4 DEF TodoInv
  <2>5. todo'[c] \in {<<"stop", "join", "free">>, <<>>}
    BY <2>3 DEF TodoInv
  <2>6. ASSUME NEW d \in Clients, d \notin handles' PROVE pc'[d] = "idle"
    <3>1. CASE d = c
      BY <2>1, <3>1 DEF callVars
    <3>2. CASE d # c
      BY <2>1, <2>2, <2>6, <3>2 DEF DyingInv, TodoInv, callVars
    <3> QED
      BY <3>1, <3>2
  <2>7. ASSUME NEW d \in Clients
        PROVE  todo'[d] # <<"join", "free">> /\ todo'[d] # <<"free">>
    <3>1. /\ <<"stop", "join", "free">> # <<"join", "free">>
          /\ <<"stop", "join", "free">> # <<"free">>
          /\ <<>> # <<"join", "free">> /\ <<>> # <<"free">>
      OBVIOUS
    <3>2. CASE d = c
      BY <2>5, <3>1, <3>2
    <3>3. CASE d # c
      BY <2>4, <3>3 DEF DyingTodos
    <3> QED
      BY <3>2, <3>3
  <2> QED
    BY <2>1, <2>2, <2>6, <2>7 DEF DyingInv
<1>8. ASSUME NEW c \in Clients, Free(c) PROVE DyingInv'
  <2>1. /\ todo[c] = <<"free">> /\ Tail(todo[c]) = <<>> /\ pc[c] = "idle"
        /\ todo' = [todo EXCEPT ![c] = Tail(@)]
        /\ UNCHANGED <<handles, callVars, engineVars>>
    BY <1>8, TodoAt DEF Free, Destroys, At, allVars, vars
  <2>2. Quiet /\ \A d \in Clients : d # c => todo[d] = <<>>
    BY <2>1 DEF DyingInv, TodoInv, DyingTodos
  <2> QED
    BY <2>1, <2>2 DEF DyingInv, TodoInv, Quiet, callVars, engineVars
<1> QED
  BY <1>1, <1>2, <1>3, <1>4, <1>5, <1>6, <1>7, <1>8
     DEF LifetimeNext, Destruction, allLifetimeVars, allVars, vars

LEMMA FreedStep ==
  freed \in BOOLEAN /\ [LifetimeNext]_allLifetimeVars => freed' \in BOOLEAN
  BY DEF LifetimeNext, allLifetimeVars, lifetimeVars, CopyHandle, Destruction,
         DestroyHandle, DestructorCall, Release, Free

\* Types of the logger, its handles and what its destructors have still to do.
THEOREM LifetimeTypeCorrect == LifetimeSpec => []LifetimeTypeOK
<1> DEFINE IInv == TodoInv /\ freed \in BOOLEAN
<1>1. LifetimeInit => IInv
  BY TodoInit DEF LifetimeInit
<1>2. IInv /\ [LifetimeNext]_allLifetimeVars => IInv'
  BY TodoStep, FreedStep
<1>3. IInv /\ OstreamTypeOK => LifetimeTypeOK
  <2>1. HandleTodos \cup DyingTodos \subseteq Seq(DestructorSteps)
    BY DEF HandleTodos, DyingTodos, DestructorSteps
  <2> QED
    BY <2>1 DEF TodoInv, LifetimeTypeOK
<1> HIDE DEF IInv
<1> QED
  BY <1>1, <1>2, <1>3, LoggerImplemented, OstreamTypeCorrect, PTL
     DEF LifetimeSpec, allLifetimeVars

\* Whichever threads drop the last handles, and whatever they have signalled or
\* left running, no thread and no call outlives the implementation.
THEOREM NothingOutlivesLoggerHolds == LifetimeSpec => []NothingOutlivesLogger
<1> DEFINE IInv == EngineInv /\ TodoInv /\ DyingInv
<1>1. LifetimeInit => IInv
  BY TypeInit, MutexInit, KillerInit, SignalInit, LiveInit, VectorInit,
     TodoInit, DyingInit DEF LifetimeInit, OstreamInit, EngineInv
<1>2. IInv /\ [LifetimeNext]_allLifetimeVars => IInv'
  <2>1. [LifetimeNext]_allLifetimeVars => [Next]_vars
    BY StepOfLogger, StepOfEngine
  <2> QED
    BY <2>1, TypeStep, MutexStep, KillerStep, SignalStep, LiveStep,
       VectorStep, TodoStep, DyingStep DEF EngineInv
<1>3. IInv => NothingOutlivesLogger
  <2> SUFFICES ASSUME EngineInv, TodoInv, DyingInv, freed
               PROVE  NothingOutlivesLogger
    BY DEF NothingOutlivesLogger
  <2>1. handles = {} /\ \A c \in Clients : pc[c] = "idle"
    BY DEF TodoInv, DyingInv
  <2>2. Quiet /\ pc[Killer] = "idle"
    BY DEF DyingInv, Quiet, EngineInv, KillerInv
  <2>3. \A w \in Workers : wpc[w] = "off"
    BY <2>2 DEF Quiet, EngineInv, LiveInv
  <2>4. m_oWorkerMutex = NoThread /\ m_oKillerMutex = NoThread
    BY <2>1, <2>2 DEF EngineInv, MutexInv, UnderWorkerLock, TypeInv, TypeOK,
                      LocksTypeOK, Threads
  <2> QED
    BY <2>1, <2>2, <2>3, <2>4 DEF NothingOutlivesLogger, Quiet, Threads
<1> QED
  BY <1>1, <1>2, <1>3, PTL DEF LifetimeSpec, allLifetimeVars

-----------------------------------------------------------------------------
(* The destruction of a handle                                             *)

\* The count that a destructor acts on stays true until it is done: nobody is
\* left who could copy a handle.
LastInv ==
  \A c \in Clients :
    /\ todo[c] \in {<<"stop", "join", "release">>, <<"join", "release">>} =>
         handles = {c}
    /\ todo[c] = <<"release">> => handles = {c} \/ pc[c] = "idle"

LEMMA LastInit == LifetimeInit => LastInv
  BY DEF LifetimeInit, LastInv

LEMMA LastStep ==
  EngineInv /\ TodoInv /\ LastInv /\ [LifetimeNext]_allLifetimeVars => LastInv'
<1> SUFFICES ASSUME EngineInv, TodoInv, LastInv, [LifetimeNext]_allLifetimeVars
             PROVE  LastInv'
  OBVIOUS
<1>1. ASSUME UNCHANGED lifetimeVars,
             \A c \in Clients : pc[c] = "idle" /\ todo[c] # <<>> => pc'[c] = "idle"
      PROVE  LastInv'
  BY <1>1 DEF lifetimeVars, LastInv
<1>2. ASSUME Running, UNCHANGED lifetimeVars PROVE LastInv'
  <2>1. ASSUME NEW w \in Workers,
               WritePiece(w) \/ WriteEnd(w) \/ SpuriousWakeup(w)
        PROVE  UNCHANGED pc
    BY <2>1 DEF WritePiece, WriteEnd, WorkerWrite, SpuriousWakeup, vars, callVars
  <2> QED
    BY <1>1, <1>2, <2>1, IdleStays DEF Running
<1>3. ASSUME Application, UNCHANGED lifetimeVars PROVE LastInv'
  <2>1. PICK c \in Clients :
          Holds(c) /\ \A d \in Clients : d # c => pc'[d] = pc[d]
    BY <1>3 DEF Application, Log, Invoke, StatusRead, Goto, callVars, EngineInv,
                TypeInv, TypeOK, CallsTypeOK, Threads
  <2> QED
    BY <1>1, <1>3, <2>1 DEF Holds
<1>4. ASSUME NEW c \in Clients, NEW d \in Clients, CopyHandle(c, d)
      PROVE  LastInv'
  <2>1. ASSUME NEW e \in Clients, handles = {e}, todo[e] # <<>> PROVE FALSE
    BY <1>4, <2>1 DEF CopyHandle, Holds
  <2>2. UNCHANGED <<todo, pc>>
    BY <1>4 DEF CopyHandle, allVars, vars, callVars
  <2> QED
    BY <2>1, <2>2 DEF LastInv
<1>5. ASSUME NEW c \in Clients, DestroyHandle(c) PROVE LastInv'
  <2>1. /\ UNCHANGED <<handles, pc>> /\ pc[c] = "idle"
        /\ todo' = [todo EXCEPT ![c] = HandleDestructor(c)]
    BY <1>5 DEF DestroyHandle, At, allVars, vars, callVars
  <2>2. \/ handles = {c} \/ HandleDestructor(c) = <<"release">>
    BY DEF HandleDestructor
  <2> QED
    BY <2>1, <2>2 DEF LastInv, TodoInv
<1>6. ASSUME NEW c \in Clients, DestructorCall(c) PROVE LastInv'
  <2>1. /\ handles' = handles /\ todo' = [todo EXCEPT ![c] = Tail(@)]
        /\ \A d \in Clients : d # c => pc'[d] = pc[d]
    BY <1>6 DEF DestructorCall, Invoke, Goto, EngineInv, TypeInv, TypeOK,
                CallsTypeOK, Threads
  <2>2. \/ handles = {c}
        \/ Tail(todo[c]) \in DyingTodos
    BY <1>6, TodoAt DEF DestructorCall, LastInv, DyingTodos
  <2> QED
    BY <2>1, <2>2 DEF LastInv, TodoInv, DyingTodos
<1>7. ASSUME NEW c \in Clients, Release(c) PROVE LastInv'
  <2>1. /\ todo[c] = <<"release">> /\ Tail(todo[c]) = <<>>
        /\ handles' = handles \ {c} /\ UNCHANGED pc
    BY <1>7, TodoAt DEF Release, allVars, vars, callVars
  <2>2. c \in handles
    <3>1. todo[c] \in HandleTodos /\ todo[c] # <<>>
      BY <2>1 DEF HandleTodos
    <3> QED
      BY <3>1 DEF TodoInv
  <2>3. todo' \in {[todo EXCEPT ![c] = <<"stop", "join", "free">>],
                   [todo EXCEPT ![c] = <<>>]}
    BY <1>7, <2>1, TodoTails DEF Release
  <2> QED
    BY <2>1, <2>2, <2>3 DEF LastInv, TodoInv
<1>8. ASSUME NEW c \in Clients, Free(c) PROVE LastInv'
  <2>1. /\ todo' = [todo EXCEPT ![c] = <<>>] /\ UNCHANGED <<handles, pc>>
    BY <1>8, TodoAt DEF Free, allVars, vars, callVars
  <2> QED
    BY <2>1 DEF LastInv, TodoInv
<1>9. CASE UNCHANGED <<allVars, lifetimeVars>>
  BY <1>1, <1>9 DEF allVars, vars, callVars
<1> QED
  BY <1>2, <1>3, <1>4, <1>5, <1>6, <1>7, <1>8, <1>9
     DEF LifetimeNext, Destruction, allLifetimeVars

\* A destructor that stops the engine does so when no other thread has a handle
\* it could still use, although it read use_count() long before.
THEOREM DestructorsStopTheLastHolds == LifetimeSpec => DestructorsStopTheLast
<1> DEFINE IInv == EngineInv /\ TodoInv /\ LastInv
           Alone ==
             \A c \in Clients :
               todo[c] # <<>> /\ pc[c] # "stopWorkers" /\ pc'[c] = "stopWorkers"
                 => \A d \in Clients : ~Holds(d)
<1>1. LifetimeInit => IInv
  BY TypeInit, MutexInit, KillerInit, SignalInit, LiveInit, VectorInit,
     TodoInit, LastInit DEF LifetimeInit, OstreamInit, EngineInv
<1>2. IInv /\ [LifetimeNext]_allLifetimeVars => IInv'
  <2>1. [LifetimeNext]_allLifetimeVars => [Next]_vars
    BY StepOfLogger, StepOfEngine
  <2> QED
    BY <2>1, TypeStep, MutexStep, KillerStep, SignalStep, LiveStep,
       VectorStep, TodoStep, LastStep DEF EngineInv
<1>3. IInv /\ [LifetimeNext]_allLifetimeVars => [Alone]_<<allVars, lifetimeVars>>
  <2> SUFFICES ASSUME EngineInv, TodoInv, LastInv,
                      [LifetimeNext]_allLifetimeVars, NEW c \in Clients,
                      todo[c] # <<>>, pc[c] # "stopWorkers",
                      pc'[c] = "stopWorkers", NEW d \in Clients, Holds(d)
               PROVE  FALSE
    BY DEF allLifetimeVars
  <2>1. pc[c] = "idle"
    <3>1. CASE todo[c] \in DyingTodos
      BY <3>1 DEF TodoInv, Holds
    <3>2. CASE todo[c] \in HandleTodos
      BY <3>2 DEF LastInv, HandleTodos, Holds
    <3> QED
      BY <3>1, <3>2 DEF TodoInv
  <2>2. [Next]_vars
    BY StepOfLogger, StepOfEngine
  <2>3. ASSUME System PROVE FALSE
    BY <2>1, <2>3, IdleStays
  <2>4. ASSUME Environment PROVE FALSE
    BY <2>1, <2>4 DEF Environment, Log, Invoke, StatusRead, SpuriousWakeup,
                      SinkBreaks, Goto, callVars, EngineInv, TypeInv, TypeOK,
                      CallsTypeOK, Threads
  <2> QED
    BY <2>1, <2>2, <2>3, <2>4 DEF Next, vars, callVars
<1> QED
  BY <1>1, <1>2, <1>3, PTL DEF LifetimeSpec, allLifetimeVars, DestructorsStopTheLast
=============================================================================
