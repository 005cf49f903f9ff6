----------------------------- MODULE AsyncLogger -----------------------------
(***************************************************************************)
(* The engine of BasicAsyncLoggerImpl (include/cpptrail/async_logger.h): a *)
(* bounded queue filled by log(), a pool of worker threads that drain it   *)
(* into a sink, and a life cycle (start, stop, signalStop, join, status)   *)
(* that any number of application threads may call at the same time.       *)
(*                                                                         *)
(* One action is one atomic step of one thread.  The grain is that of the  *)
(* shared state: a step contains at most one access to something another   *)
(* thread can change meanwhile (an atomic flag, a mutex, the end of a      *)
(* thread, a condition variable); the reads and writes made under a mutex  *)
(* are joined to the step that takes or releases it.  Variables carry the  *)
(* names of the members they model.                                        *)
(***************************************************************************)
EXTENDS Naturals, Sequences, FiniteSets, SequencesExt

CONSTANTS
  Clients,        \* the application threads that call the logger
  Workers,        \* the slots of the pool: m_nWorkerCount = Cardinality(Workers)
  Messages,       \* the messages; each is handed to log() at most once
  MaxEntryCount,  \* m_nMaxEntryCount
  Methods,        \* the life-cycle methods the clients use
  SinkKinds,      \* the statuses a freshly built sink may report
  SinkMayBreak,   \* whether a running sink can fail, and serviceStop() throw
  SpawnMayFail,   \* whether creating a std::thread can throw
  Killer,         \* the thread started by signalStop()
  NoThread,       \* owner of a free mutex
  NoMessage       \* no message in a thread's hands

LifeCycle == {"start", "stop", "signalStop", "join", "status"}

Status == {"RUNNING", "STOPPED", "BROKEN", "TRASCENDENT"}

Threads == Clients \cup {Killer}

ASSUME ConstantsAssumption ==
  /\ MaxEntryCount \in Nat
  /\ Methods \subseteq LifeCycle
  /\ SinkKinds \subseteq {"STOPPED", "TRASCENDENT"}
  /\ SinkMayBreak \in BOOLEAN
  /\ SpawnMayFail \in BOOLEAN
  /\ Killer \notin Clients
  /\ NoThread \notin Threads \cup Workers
  /\ NoMessage \notin Messages

\* A thread of the pool is none of the callers.
ASSUME ThreadsAssumption == Threads \cap Workers = {}

VARIABLES
  m_oQueueMutex,      \* the worker that holds the queue lock over several steps
  m_qEntryQueue,      \* messages waiting for a worker
  m_oWorkerMutex,     \* owner of the life-cycle lock
  m_vWorkers,         \* slots whose std::thread is in the vector, not yet joined
  m_bWorkerEngineOn,  \* the atomic operational flag
  m_oKillerMutex,     \* owner of the killer lock
  m_oKillerThread,    \* number of std::thread handles in m_oKillerThread
  pc,                 \* where each client and the killer are in a life-cycle call
  call,               \* which life-cycle call they are in
  oMessage,           \* the argument of a log() that has passed its first test
  nStatus,            \* the local of a status() that has read the sink
  wpc,                \* where each worker is in work(); "off": no running thread
  oEntry,             \* the message a worker has popped and not yet written
  sink,               \* what serviceStatus() reports
  written,            \* what the sink has received, in order
  submitted,          \* history: the messages handed to log() so far
  accepted,           \* history: the messages log() has queued, in order
  terminated          \* std::terminate was called: the process is gone

lockVars    == <<m_oQueueMutex, m_oWorkerMutex, m_oKillerMutex>>
callVars    == <<pc, call>>
workerVars  == <<wpc, oEntry>>
engineVars  == <<m_vWorkers, m_bWorkerEngineOn, m_oKillerThread>>
logVars     == <<oMessage, submitted, accepted>>
vars == <<lockVars, callVars, workerVars, engineVars, logVars,
          m_qEntryQueue, nStatus, sink, written, terminated>>

WorkerSteps == {"off", "lock", "sleep", "wait", "work", "relock", "decide"}

ThreadSteps == {"idle", "push", "status", "lockKiller", "waitForKiller",
                "lockWorker", "waitForKillerAgain", "startService",
                "startWorkers", "spawnWorkers", "stopWorkers", "notifyAll",
                "joinWorkers", "stopService"}

FlagsTypeOK == m_bWorkerEngineOn \in BOOLEAN /\ terminated \in BOOLEAN

LocksTypeOK ==
  /\ m_oQueueMutex \in Workers \cup {NoThread}
  /\ m_oWorkerMutex \in Threads \cup {NoThread}
  /\ m_oKillerMutex \in Clients \cup {NoThread}

CallsTypeOK ==
  /\ m_oKillerThread \in Nat
  /\ pc \in [Threads -> ThreadSteps]
  /\ call \in [Threads -> LifeCycle \cup {"none"}]
  /\ nStatus \in [Clients -> Status \cup {"none"}]

PoolTypeOK ==
  /\ m_vWorkers \in SUBSET Workers
  /\ wpc \in [Workers -> WorkerSteps]
  /\ oEntry \in [Workers -> Messages \cup {NoMessage}]
  /\ sink \in Status

EntriesTypeOK ==
  /\ m_qEntryQueue \in Seq(Messages) /\ Len(m_qEntryQueue) <= MaxEntryCount
  /\ oMessage \in [Clients -> Messages \cup {NoMessage}]
  /\ submitted \in SUBSET Messages
  /\ accepted \in Seq(Messages)
  /\ written \in Seq(Messages)

\* The type invariant; it also says the queue never outgrows m_nMaxEntryCount.
TypeOK ==
  FlagsTypeOK /\ LocksTypeOK /\ CallsTypeOK /\ PoolTypeOK /\ EntriesTypeOK

Init ==
  /\ m_oQueueMutex = NoThread
  /\ m_oWorkerMutex = NoThread
  /\ m_oKillerMutex = NoThread
  /\ m_qEntryQueue = <<>>
  /\ m_vWorkers = {}
  /\ m_bWorkerEngineOn = FALSE
  /\ m_oKillerThread = 0
  /\ pc = [t \in Threads |-> "idle"]
  /\ call = [t \in Threads |-> "none"]
  /\ oMessage = [c \in Clients |-> NoMessage]
  /\ nStatus = [c \in Clients |-> "none"]
  /\ wpc = [w \in Workers |-> "off"]
  /\ oEntry = [w \in Workers |-> NoMessage]
  /\ sink \in SinkKinds
  /\ written = <<>>
  /\ submitted = {}
  /\ accepted = <<>>
  /\ terminated = FALSE

-----------------------------------------------------------------------------
(* Control of a thread inside a life-cycle call.                           *)

At(t, step) == ~terminated /\ pc[t] = step

Goto(t, step) == pc' = [pc EXCEPT ![t] = step]

Return(t) ==
  /\ Goto(t, "idle")
  /\ call' = [call EXCEPT ![t] = "none"]

\* An application thread enters start(), stop(), signalStop() or join(): all
\* four begin by locking m_oKillerMutex.
Invoke(c, method) ==
  /\ At(c, "idle")
  /\ method \in Methods \ {"status"}
  /\ Goto(c, "lockKiller")
  /\ call' = [call EXCEPT ![c] = method]
  /\ UNCHANGED <<lockVars, workerVars, engineVars, logVars, m_qEntryQueue,
                 nStatus, sink, written, terminated>>

-----------------------------------------------------------------------------
(* log()                                                                   *)

\* The test of m_bWorkerEngineOn that log() makes before it takes any lock.
Log(c, m) ==
  /\ At(c, "idle")
  /\ m \in Messages \ submitted
  /\ submitted' = submitted \cup {m}
  /\ \/ /\ m_bWorkerEngineOn
        /\ Goto(c, "push")
        /\ oMessage' = [oMessage EXCEPT ![c] = m]
     \/ /\ ~m_bWorkerEngineOn
        /\ UNCHANGED <<pc, oMessage>>
  /\ UNCHANGED <<lockVars, workerVars, engineVars, call, accepted,
                 m_qEntryQueue, nStatus, sink, written, terminated>>

\* Mutant of HasRoom: the + 1 is missing.
HasRoomOffByOne == Len(m_qEntryQueue) <= MaxEntryCount

\* The overflow check.
HasRoom == Len(m_qEntryQueue) + 1 <= MaxEntryCount

\* Mutant of NotifyOne: the wake-up call is missing.
NotifyNobody == UNCHANGED wpc

\* notify_one(): some thread blocked on m_oWorkerCv wakes up, if there is one.
NotifyOne ==
  \/ \E w \in Workers : /\ wpc[w] = "wait"
                        /\ wpc' = [wpc EXCEPT ![w] = "lock"]
  \/ /\ \A w \in Workers : wpc[w] # "wait"
     /\ UNCHANGED wpc

\* The rest of log(), under the queue lock.  On overflow the entry is dropped;
\* m_bThrowOnOverflow decides only whether the caller sees an exception.
LogPush(c) ==
  /\ At(c, "push")
  /\ m_oQueueMutex = NoThread
  /\ \/ /\ HasRoom
        /\ m_qEntryQueue' = Append(m_qEntryQueue, oMessage[c])
        /\ accepted' = Append(accepted, oMessage[c])
        /\ NotifyOne
     \/ /\ ~HasRoom
        /\ UNCHANGED <<m_qEntryQueue, accepted, wpc>>
  /\ Goto(c, "idle")
  /\ oMessage' = [oMessage EXCEPT ![c] = NoMessage]
  /\ UNCHANGED <<lockVars, engineVars, call, oEntry, submitted, nStatus, sink,
                 written, terminated>>

-----------------------------------------------------------------------------
(* The killer lock, which start(), stop(), signalStop() and join() share.  *)

LockKiller(c) ==
  /\ At(c, "lockKiller")
  /\ m_oKillerMutex = NoThread
  /\ m_oKillerMutex' = c
  /\ Goto(c, "waitForKiller")
  /\ UNCHANGED <<m_oQueueMutex, m_oWorkerMutex, call, workerVars, engineVars,
                 logVars, m_qEntryQueue, nStatus, sink, written, terminated>>

\* Mutant of JoinKiller: the vector is not cleared after the join.
JoinKillerKeepsHandle ==
  /\ m_oKillerThread > 0 => pc[Killer] = "idle"
  /\ UNCHANGED m_oKillerThread

\* waitForKiller(): join the thread whose handle is in the vector, if there is
\* one, and empty the vector.
JoinKiller ==
  /\ m_oKillerThread > 0 => pc[Killer] = "idle"
  /\ m_oKillerThread' = 0

\* The first waitForKiller() of a call; for join() it is the whole body.
WaitForKiller(c) ==
  /\ At(c, "waitForKiller")
  /\ JoinKiller
  /\ \/ /\ call[c] = "join"
        /\ m_oKillerMutex' = NoThread
        /\ Return(c)
     \/ /\ call[c] # "join"
        /\ Goto(c, "lockWorker")
        /\ UNCHANGED <<m_oKillerMutex, call>>
  /\ UNCHANGED <<m_oQueueMutex, m_oWorkerMutex, m_vWorkers, m_bWorkerEngineOn,
                 workerVars, logVars, m_qEntryQueue, nStatus, sink, written,
                 terminated>>

\* Mutant of KillerReleased: the unlock() after the worker lock is missing.
KillerKept(t) == m_oKillerMutex

\* The killer lock once t holds the worker lock.  The killer never had it.
KillerReleased(t) == IF t = Killer THEN m_oKillerMutex ELSE NoThread

\* start(), stop() and the killer's lambda take m_oWorkerMutex; start() and
\* stop() then let m_oKillerMutex go.
LockWorker(t) ==
  /\ At(t, "lockWorker")
  /\ call[t] \in {"start", "stop"}
  /\ m_oWorkerMutex = NoThread
  /\ m_oWorkerMutex' = t
  /\ m_oKillerMutex' = KillerReleased(t)
  /\ Goto(t, IF call[t] = "start" THEN "waitForKillerAgain" ELSE "stopWorkers")
  /\ UNCHANGED <<m_oQueueMutex, call, workerVars, engineVars, logVars,
                 m_qEntryQueue, nStatus, sink, written, terminated>>

\* signalStop() takes m_oWorkerMutex too, starts the killer thread, which will
\* run the body of stop(), and releases both locks.
SignalStop(c) ==
  /\ At(c, "lockWorker")
  /\ call[c] = "signalStop"
  /\ m_oWorkerMutex = NoThread
  /\ m_oKillerMutex' = NoThread
  /\ \/ /\ m_oKillerThread' = m_oKillerThread + 1
        /\ pc' = [pc EXCEPT ![c] = "idle", ![Killer] = "lockWorker"]
        /\ call' = [call EXCEPT ![c] = "none", ![Killer] = "stop"]
     \/ /\ SpawnMayFail
        /\ Return(c)
        /\ UNCHANGED m_oKillerThread
  /\ UNCHANGED <<m_oQueueMutex, m_oWorkerMutex, m_vWorkers, m_bWorkerEngineOn,
                 workerVars, logVars, m_qEntryQueue, nStatus, sink, written,
                 terminated>>

-----------------------------------------------------------------------------
(* The body of start(), under m_oWorkerMutex.                              *)

\* The second waitForKiller() of start(), made without m_oKillerMutex.
WaitForKillerAgain(c) ==
  /\ At(c, "waitForKillerAgain")
  /\ JoinKiller
  /\ Goto(c, "startService")
  /\ UNCHANGED <<lockVars, call, workerVars, m_vWorkers, m_bWorkerEngineOn,
                 logVars, m_qEntryQueue, nStatus, sink, written, terminated>>

\* Mutant of WorkerReleased: the lock is not a scoped one.
WorkerKept == m_oWorkerMutex

\* The worker lock once an exception has left start() or stop().
WorkerReleased == NoThread

\* serviceStart() unless the sink is already up; it may throw, and start()
\* then returns by the exception.
StartService(c) ==
  /\ At(c, "startService")
  /\ \/ /\ sink \in {"TRASCENDENT", "RUNNING"}
        /\ Goto(c, "startWorkers")
        /\ UNCHANGED <<call, sink, m_oWorkerMutex>>
     \/ /\ sink \notin {"TRASCENDENT", "RUNNING"}
        /\ sink' = "RUNNING"
        /\ Goto(c, "startWorkers")
        /\ UNCHANGED <<call, m_oWorkerMutex>>
     \/ /\ sink \notin {"TRASCENDENT", "RUNNING"}
        /\ m_oWorkerMutex' = WorkerReleased
        /\ Return(c)
        /\ UNCHANGED sink
  /\ UNCHANGED <<m_oQueueMutex, m_oKillerMutex, workerVars, engineVars,
                 logVars, m_qEntryQueue, nStatus, written, terminated>>

\* startWorkers(), up to m_vWorkers.clear().  Clearing a vector that still
\* holds joinable threads calls std::terminate.
StartWorkers(c) ==
  /\ At(c, "startWorkers")
  /\ \/ /\ m_bWorkerEngineOn
        /\ m_oWorkerMutex' = NoThread
        /\ Return(c)
        /\ UNCHANGED terminated
     \/ /\ ~m_bWorkerEngineOn
        /\ m_vWorkers = {}
        /\ Goto(c, "spawnWorkers")
        /\ UNCHANGED <<call, m_oWorkerMutex, terminated>>
     \/ /\ ~m_bWorkerEngineOn
        /\ m_vWorkers # {}
        /\ terminated' = TRUE
        /\ UNCHANGED <<callVars, m_oWorkerMutex>>
  /\ UNCHANGED <<m_oQueueMutex, m_oKillerMutex, workerVars, engineVars,
                 logVars, m_qEntryQueue, nStatus, sink, written>>

\* One turn of the emplace_back loop.  The new thread runs at once: the flag
\* is still off.  A thread that cannot be created throws out of start().
SpawnWorker(c) ==
  /\ At(c, "spawnWorkers")
  /\ \E w \in Workers \ m_vWorkers :
       \/ /\ m_vWorkers' = m_vWorkers \cup {w}
          /\ wpc' = [wpc EXCEPT ![w] = "lock"]
          /\ UNCHANGED <<callVars, m_oWorkerMutex>>
       \/ /\ SpawnMayFail
          /\ m_oWorkerMutex' = WorkerReleased
          /\ Return(c)
          /\ UNCHANGED <<m_vWorkers, wpc>>
  /\ UNCHANGED <<m_oQueueMutex, m_oKillerMutex, oEntry, m_bWorkerEngineOn,
                 m_oKillerThread, logVars, m_qEntryQueue, nStatus, sink,
                 written, terminated>>

\* Mutant of EngineOn: the flag is not stored.
EngineOnUnstored(c) ==
  /\ At(c, "spawnWorkers")
  /\ m_vWorkers = Workers
  /\ m_oWorkerMutex' = NoThread
  /\ Return(c)
  /\ UNCHANGED <<m_oQueueMutex, m_oKillerMutex, workerVars, engineVars, logVars,
                 m_qEntryQueue, nStatus, sink, written, terminated>>

\* The loop is over: the flag goes up and start() returns.
EngineOn(c) ==
  /\ At(c, "spawnWorkers")
  /\ m_vWorkers = Workers
  /\ m_bWorkerEngineOn' = TRUE
  /\ m_oWorkerMutex' = NoThread
  /\ Return(c)
  /\ UNCHANGED <<m_oQueueMutex, m_oKillerMutex, workerVars, m_vWorkers,
                 m_oKillerThread, logVars, m_qEntryQueue, nStatus, sink,
                 written, terminated>>

-----------------------------------------------------------------------------
(* The body of stop() and of the killer's lambda, under m_oWorkerMutex.    *)

\* stopWorkers(): nothing when the engine is off, else the flag goes down.
StopWorkers(t) ==
  /\ At(t, "stopWorkers")
  /\ Goto(t, IF m_bWorkerEngineOn THEN "notifyAll" ELSE "stopService")
  /\ m_bWorkerEngineOn' = FALSE
  /\ UNCHANGED <<lockVars, call, workerVars, m_vWorkers, m_oKillerThread,
                 logVars, m_qEntryQueue, nStatus, sink, written, terminated>>

\* notify_all(), called without the queue lock.
NotifyAll(t) ==
  /\ At(t, "notifyAll")
  /\ wpc' = [w \in Workers |-> IF wpc[w] = "wait" THEN "lock" ELSE wpc[w]]
  /\ Goto(t, "joinWorkers")
  /\ UNCHANGED <<lockVars, call, oEntry, engineVars, logVars, m_qEntryQueue,
                 nStatus, sink, written, terminated>>

\* Mutant of WorkersEnded: the threads are detached, not joined.
WorkersDetached == TRUE

WorkersEnded == \A w \in m_vWorkers : wpc[w] = "off"

\* Every thread of the vector is joined and the vector cleared.
JoinWorkers(t) ==
  /\ At(t, "joinWorkers")
  /\ WorkersEnded
  /\ m_vWorkers' = {}
  /\ Goto(t, "stopService")
  /\ UNCHANGED <<lockVars, call, workerVars, m_bWorkerEngineOn,
                 m_oKillerThread, logVars, m_qEntryQueue, nStatus, sink,
                 written, terminated>>

\* Mutant of SinkStopped: serviceStop() is never reached.
SinkLeftUp == sink

\* What serviceStop() leaves, if the sink is up; an always-on sink stays as it is.
SinkStopped == IF sink = "RUNNING" THEN "STOPPED" ELSE sink

\* serviceStop() may throw.  stop() then returns by the exception, its lock is
\* released and the sink stays up; nobody catches what leaves the killer.
StopService(t) ==
  /\ At(t, "stopService")
  /\ \/ /\ sink' = SinkStopped
        /\ m_oWorkerMutex' = NoThread
        /\ Return(t)
        /\ UNCHANGED terminated
     \/ /\ SinkMayBreak /\ sink \in {"TRASCENDENT", "RUNNING"} /\ t # Killer
        /\ m_oWorkerMutex' = WorkerReleased
        /\ Return(t)
        /\ UNCHANGED <<sink, terminated>>
     \/ /\ SinkMayBreak /\ sink \in {"TRASCENDENT", "RUNNING"} /\ t = Killer
        /\ terminated' = TRUE
        /\ UNCHANGED <<callVars, m_oWorkerMutex, sink>>
  /\ UNCHANGED <<m_oQueueMutex, m_oKillerMutex, workerVars, engineVars,
                 logVars, m_qEntryQueue, nStatus, written>>

-----------------------------------------------------------------------------
(* status(): the sink is read first, the flag second, and no lock is held. *)

\* Mutant of CompositeStatus: the flag is forgotten.
CompositeStatusOfSink(s, on) == s

CompositeStatus(s, on) ==
  CASE s \in {"TRASCENDENT", "RUNNING"} -> IF on THEN s ELSE "BROKEN"
    [] s = "STOPPED" -> IF on THEN "BROKEN" ELSE s
    [] OTHER -> "BROKEN"

StatusRead(c) ==
  /\ At(c, "idle")
  /\ "status" \in Methods
  /\ nStatus' = [nStatus EXCEPT ![c] = sink]
  /\ Goto(c, "status")
  /\ UNCHANGED <<lockVars, call, workerVars, engineVars, logVars,
                 m_qEntryQueue, sink, written, terminated>>

\* The caller gets CompositeStatus(nStatus[c], m_bWorkerEngineOn).
StatusReturn(c) ==
  /\ At(c, "status")
  /\ nStatus' = [nStatus EXCEPT ![c] = "none"]
  /\ Goto(c, "idle")
  /\ UNCHANGED <<lockVars, call, workerVars, engineVars, logVars,
                 m_qEntryQueue, sink, written, terminated>>

-----------------------------------------------------------------------------
(* work(): the loop of a worker thread.                                    *)

\* Mutant of TakeEntry: the front is read and not popped.
TakeEntryWithoutPop(w) ==
  /\ oEntry' = [oEntry EXCEPT ![w] = Head(m_qEntryQueue)]
  /\ UNCHANGED m_qEntryQueue

\* Mutant of TakeEntry: back() and pop_back().
TakeEntryFromBack(w) ==
  /\ oEntry' = [oEntry EXCEPT ![w] = Last(m_qEntryQueue)]
  /\ m_qEntryQueue' = Front(m_qEntryQueue)

WorkerAt(w, step) == ~terminated /\ wpc[w] = step

\* The entry at the front of the queue moves to the worker's hands.
TakeEntry(w) ==
  /\ oEntry' = [oEntry EXCEPT ![w] = Head(m_qEntryQueue)]
  /\ m_qEntryQueue' = Tail(m_qEntryQueue)

\* The worker gets the queue lock and evaluates the predicate of wait(): it
\* pops an entry and unlocks, or keeps the lock to leave (flag down) or to go
\* to sleep (flag up).
WorkerAcquire(w) ==
  /\ WorkerAt(w, "lock")
  /\ m_oQueueMutex = NoThread
  /\ \/ /\ m_qEntryQueue # <<>>
        /\ TakeEntry(w)
        /\ wpc' = [wpc EXCEPT ![w] = "work"]
        /\ UNCHANGED m_oQueueMutex
     \/ /\ m_qEntryQueue = <<>>
        /\ m_oQueueMutex' = w
        /\ wpc' = [wpc EXCEPT ![w] =
                     IF m_bWorkerEngineOn THEN "sleep" ELSE "decide"]
        /\ UNCHANGED <<oEntry, m_qEntryQueue>>
  /\ UNCHANGED <<m_oWorkerMutex, m_oKillerMutex, callVars, engineVars,
                 logVars, nStatus, sink, written, terminated>>

\* wait() releases the lock and blocks, after the predicate was false.
WorkerSleep(w) ==
  /\ WorkerAt(w, "sleep")
  /\ wpc' = [wpc EXCEPT ![w] = "wait"]
  /\ m_oQueueMutex' = NoThread
  /\ UNCHANGED <<m_oWorkerMutex, m_oKillerMutex, callVars, oEntry, engineVars,
                 logVars, m_qEntryQueue, nStatus, sink, written, terminated>>

\* std::condition_variable may wake a thread that nobody notified.
SpuriousWakeup(w) ==
  /\ WorkerAt(w, "wait")
  /\ wpc' = [wpc EXCEPT ![w] = "lock"]
  /\ UNCHANGED <<lockVars, callVars, oEntry, engineVars, logVars,
                 m_qEntryQueue, nStatus, sink, written, terminated>>

\* The virtual work(message): the sink receives the entry, no lock held.
WorkerWrite(w) ==
  /\ WorkerAt(w, "work")
  /\ written' = Append(written, oEntry[w])
  /\ oEntry' = [oEntry EXCEPT ![w] = NoMessage]
  /\ wpc' = [wpc EXCEPT ![w] = "relock"]
  /\ UNCHANGED <<lockVars, callVars, engineVars, logVars, m_qEntryQueue,
                 nStatus, sink, terminated>>

\* Mutant of Continues: the worker ignores what is left in the queue.
ContinuesWhileOn == m_bWorkerEngineOn

Continues == m_bWorkerEngineOn \/ m_qEntryQueue # <<>>

\* The end of a turn, under the lock: the flag is read again, and the thread
\* ends when it is down and the queue is empty.
WorkerDecide(w) ==
  /\ \/ WorkerAt(w, "decide")
     \/ WorkerAt(w, "relock") /\ m_oQueueMutex = NoThread
  /\ m_oQueueMutex' = NoThread
  /\ wpc' = [wpc EXCEPT ![w] = IF Continues THEN "lock" ELSE "off"]
  /\ UNCHANGED <<m_oWorkerMutex, m_oKillerMutex, callVars, oEntry, engineVars,
                 logVars, m_qEntryQueue, nStatus, sink, written, terminated>>

\* A running sink fails on its own.
SinkBreaks ==
  /\ ~terminated
  /\ SinkMayBreak
  /\ sink = "RUNNING"
  /\ sink' = "BROKEN"
  /\ UNCHANGED <<lockVars, callVars, workerVars, engineVars, logVars,
                 m_qEntryQueue, nStatus, written, terminated>>

-----------------------------------------------------------------------------
(* The steps a thread owes once it is in a call, and the specification.    *)

StopStep(t) ==
  \/ LockWorker(t) \/ StopWorkers(t) \/ NotifyAll(t)
  \/ JoinWorkers(t) \/ StopService(t)

ClientStep(c) ==
  \/ LogPush(c) \/ LockKiller(c) \/ WaitForKiller(c) \/ SignalStop(c)
  \/ WaitForKillerAgain(c) \/ StartService(c) \/ StartWorkers(c)
  \/ SpawnWorker(c) \/ EngineOn(c) \/ StatusReturn(c) \/ StopStep(c)

WorkerStep(w) ==
  WorkerAcquire(w) \/ WorkerSleep(w) \/ WorkerWrite(w) \/ WorkerDecide(w)

System ==
  \/ \E c \in Clients : ClientStep(c)
  \/ StopStep(Killer)
  \/ \E w \in Workers : WorkerStep(w)

\* What nobody owes: new calls, spurious wake-ups, failures of the sink.
Environment ==
  \/ \E c \in Clients, m \in Messages : Log(c, m)
  \/ \E c \in Clients, method \in Methods : Invoke(c, method)
  \/ \E c \in Clients : StatusRead(c)
  \/ \E w \in Workers : SpuriousWakeup(w)
  \/ SinkBreaks

Next == System \/ Environment

Spec == Init /\ [][Next]_vars

\* The operating system runs every thread that can run.
Fairness ==
  /\ \A c \in Clients : WF_vars(ClientStep(c))
  /\ WF_vars(StopStep(Killer))
  /\ \A w \in Workers : WF_vars(WorkerStep(w))

FairSpec == Spec /\ Fairness
-----------------------------------------------------------------------------
(* What the engine guarantees, whatever its threads do.                    *)

InHands == {oEntry[w] : w \in Workers} \ {NoMessage}

\* No accepted message is lost: it is with the sink, in the hands of a worker
\* or in the queue.
NothingLost == ToSet(accepted) = ToSet(written) \cup InHands \cup ToSet(m_qEntryQueue)

\* No accepted message is in two places, or twice in one.
NothingTwice ==
  /\ IsInjective(written)
  /\ IsInjective(m_qEntryQueue)
  /\ ToSet(written) \cap ToSet(m_qEntryQueue) = {}
  /\ InHands \cap (ToSet(written) \cup ToSet(m_qEntryQueue)) = {}
  /\ \A v, w \in Workers :
       oEntry[v] = oEntry[w] /\ oEntry[w] # NoMessage => v = w

\* The hand-over between log(), the queue and the pool neither loses nor
\* duplicates an entry, although a worker lets the lock go between taking an
\* entry and writing it, and although the pool is stopped and started again.
ExactlyOnce == NothingLost /\ NothingTwice

\* waitForKiller() is called twice by start(), the second time without the
\* lock that guards m_oKillerThread.  That is harmless: there is never more
\* than one killer, a running killer always has a handle someone will join,
\* and no killer exists while an application thread holds m_oWorkerMutex, so
\* the second call never joins a thread that waits for its caller's lock.
KillerHandshake ==
  /\ m_oKillerThread <= 1
  /\ pc[Killer] # "idle" => m_oKillerThread = 1
  /\ m_oWorkerMutex \in Clients => m_oKillerThread = 0

\* Thread a, caller, killer or worker, cannot go on before b has: b owns the lock
\* a is about to take, or a joins b and b has not ended.  A worker blocked on
\* m_oWorkerCv waits for a notification and not for one thread.
WaitsFor(a, b) ==
  \/ /\ a \in Threads
     /\ \/ pc[a] = "push" /\ m_oQueueMutex = b
        \/ pc[a] = "lockKiller" /\ m_oKillerMutex = b
        \/ pc[a] = "lockWorker" /\ m_oWorkerMutex = b
        \/ /\ pc[a] \in {"waitForKiller", "waitForKillerAgain"}
           /\ b = Killer /\ m_oKillerThread > 0 /\ pc[Killer] # "idle"
        \/ pc[a] = "joinWorkers" /\ b \in m_vWorkers /\ wpc[b] # "off"
  \/ a \in Workers /\ wpc[a] \in {"lock", "relock"} /\ m_oQueueMutex = b

\* Three mutexes, one of which stays locked while the killer is joined and
\* another while the workers are: the order in which they are taken and let go
\* never closes a circle of threads each waiting for the next.  In every set of
\* threads there is one that waits for no other of the set.
NoCircularWait ==
  \A S \in SUBSET (Threads \cup Workers) :
    S # {} => \E a \in S : \A b \in S : ~WaitsFor(a, b)

\* signalStop() takes effect: from the end of the killer until the call that
\* collects its handle, no start() slips in, so the engine is off and the sink
\* is not running.
SignalledStopHolds ==
  m_oKillerThread > 0 /\ pc[Killer] = "idle" =>
    ~m_bWorkerEngineOn /\ sink # "RUNNING"

\* Nothing the application calls, from any number of threads, makes the library
\* end the process: a start() never clears a vector that holds threads nobody
\* has joined, and no exception leaves the killer.  Meant for sinks that do not
\* throw, and either threads that can always be created or a pool of one.
NeverTerminates == ~terminated

\* No lost wake-up between log() and the pool: while an entry waits and some
\* worker lives, a worker that is not blocked on m_oWorkerCv will see it.
NoSleepOnBacklog ==
  (m_qEntryQueue # <<>> /\ \E w \in Workers : wpc[w] # "off") =>
    \E w \in Workers : wpc[w] \in {"lock", "work", "relock"}

\* work(message) is never called on a sink that serviceStop() has released or
\* serviceStart() has not yet acquired, over any number of starts and stops.
NoWriteToStoppedSink == [][written' # written => sink # "STOPPED"]_vars

\* status() reads the sink and then the flag, with any number of steps of other
\* threads in between, so it composes its answer from two moments.  The answer
\* was right at one of them nevertheless, unless it is BROKEN: STOPPED when the
\* sink was read, RUNNING when the flag was.  Meant for sinks that do not fail.
StatusWasTrue ==
  [][\A c \in Clients :
       /\ pc[c] = "idle" /\ pc'[c] = "status" /\ sink = "STOPPED" => ~m_bWorkerEngineOn
       /\ pc[c] = "status" /\ pc'[c] = "idle"
            /\ CompositeStatus(nStatus[c], m_bWorkerEngineOn) = "RUNNING"
          => sink = "RUNNING"]_vars

\* The pool drains: an entry that waits while a worker lives is written, even
\* when a stop() is under way or nobody ever calls again.
DrainedByLiveWorker ==
  \A m \in Messages :
    (m \in ToSet(m_qEntryQueue) /\ \E w \in Workers : wpc[w] # "off")
      ~> (m \in ToSet(written))

-----------------------------------------------------------------------------
(* What the repository says of the engine and the code does not do.        *)

\* stop() drains the queue before it stops the sink (async_logger.h, the doc
\* of stop() and of serviceStop(); the test writes ten entries, calls stop()
\* and expects all ten in the stream).  Meant for one application thread.
StopFlushes ==
  [][\A t \in Threads : pc[t] = "stopService" /\ pc'[t] = "idle" =>
       ToSet(accepted) = ToSet(written)]_vars

\* stop() and the killer get past the join of the workers, which "stopWorkers"
\* is documented to notify.
StopReturns ==
  \A t \in Threads : (pc[t] = "joinWorkers") ~> (pc[t] = "idle")

\* log() on a stopped logger discards the message.
StoppedLoggerDiscards ==
  [][accepted' # accepted =>
       CompositeStatus(sink, m_bWorkerEngineOn) # "STOPPED"]_vars
=============================================================================
