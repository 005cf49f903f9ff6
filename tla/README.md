# CppTrail in TLA+

CppTrail is a header-only C++ logging library. This directory holds a model of its
parts that have behaviour worth checking, the TLC configurations that check it on
small instances, and proofs, checked by TLAPS, that hold for every number of
threads, workers, loggers, handles and messages, and every time point and `int`.
Paths below are relative to the repository's `include/cpptrail/` unless they say
otherwise.

## 1. The system

| Component | Source | State | Operations |
|---|---|---|---|
| asynchronous engine `BasicAsyncLoggerImpl` | `async_logger.h` | queue, worker vector, operational flag, killer vector, three mutexes, a condition variable | `log`, `start`, `stop`, `signalStop`, `join`, `status`; the worker loop `work()`; the killer thread |
| synchronous logger `BasicSyncLoggerImpl` | `sync_logger.h` | one mutex per logger | the same interface, on the caller's thread |
| handle `BasicLogger` | `base_logger.h` | a `shared_ptr` to an implementation | copy, move, assign, destroy; forward a life-cycle call; build a message and log it |
| ostream loggers | `ostream_logger.h` | a reference to a stream | `work()` of both kinds, an "always-on" service, a destructor that stops and joins |
| messages | `message.h` | level, shared pointer to the text | built from a text, a view or an exception; copy, move, `stealLevel`, `stealString` |
| time stamps | `rfc3339.h` | the global time zone | `toRfc3339`, `writeInteger` |
| level names | `def.h` | a constant table, and a switch for builds before C++17 | `getName`, `getNameView` |
| polymorphic literals | `utf42.h` | none (compile time, vendored) | selection of a literal |
| tests, entry point, build, documentation | `src/cpptrail/`, `doc/`, `CMakeLists.txt` | - | - |

How they interact:

- An application holds handles; a handle forwards every call to the implementation
  all its copies share. The last pointer to go destroys the implementation.
- In the asynchronous kind, `log()` runs on application threads and hands a message
  to worker threads through the queue; a worker calls the virtual `work(message)` of
  the sink with no lock held. `signalStop()` starts a "killer" thread that runs the
  body of `stop()`; the other three life-cycle calls join it first.
- In the synchronous kind, the calling thread does everything under one mutex.
- The sink's service (`serviceStart`, `serviceStop`, `serviceStatus`) is called under
  `m_oWorkerMutex` or `m_oGeneralMutex`, and by `status()` of the engine without a lock.

What is hard here is concurrency: four kinds of threads, three locks that nest with
joins of threads which take the same locks, a flag read outside the locks, a
condition variable, a life cycle that may be restarted, failures of the sink and of
thread creation, and ownership counted by threads that do not synchronise.
Nothing is persisted and nothing crosses a network, so crash recovery and message
loss do not arise. `PROJECT.json` lists the hazards line by line.

What makes each component correct:

- engine: an accepted message reaches the sink exactly once, nearly in order; a
  waiting message never starves while a worker lives; calls return and never wait for
  each other in a circle; a signalled shutdown holds; the sink is not used while it is
  stopped; the process is not ended;
- synchronous logger: whole lines, flushed and in the order in which the clock was read,
  never to a stopped sink;
- handle: the logger outlives its handles, its threads do not outlive the logger, and no
  destructor stops a logger that is still in use;
- messages: a text is printed once, and with the level it was given, as long as two
  loggers do not move it at the same moment;
- time stamps and level names: the text is that of a reference definition.

## 2. Modules

| Module | What it is |
|---|---|
| `AsyncLogger` | the engine: state, one action per atomic step of a thread, properties |
| `LogStream` | abstract specification: a stream of messages, bounded backlog, bounded reordering |
| `AsyncLoggerRefinement` | the engine implements `LogStream` |
| `AsyncOstreamLogger` | the engine with one worker and the writes of its ostream sink |
| `LoggerLifetime` | that logger with the handles it is shared by, to the end of its implementation |
| `SyncLogger` | synchronous loggers, each with its lock, on streams they may share |
| `LineLog` | abstract specification: a log of whole lines, implemented by `SyncLogger` |
| `LoggerHandle` | every operation on handles, with the engine reduced to what its destruction depends on |
| `LogCalls` | the logging calls through those handles, message objects, names of levels |
| `Rfc3339` | the printers of integers and time stamps, and a reader of their text |
| `MC...` | symmetry, streams and edge values for the runs of the module of that name; `MCAsyncLoggerLiveness` also bounds the calls and states the liveness |
| `AsyncLoggerProofs` | proofs: types, locks, killer, sink, wake-ups, circles of waits, ends of the process, answers of `status()` |
| `AsyncLoggerDelivery` | proofs: the path of an entry from `log()` to the sink |
| `AsyncLoggerRefinementProofs` | proof: the engine implements `LogStream` |
| `AsyncOstreamLoggerProofs` | proofs: the stream of the asynchronous ostream logger |
| `LoggerLifetimeProofs` | proofs: destruction of that logger |
| `SyncLoggerProofs` | proofs: the synchronous loggers, and that they implement `LineLog` |
| `LogCallsProofs` | proofs: the handles, the calls through them and the messages |
| `Rfc3339Proofs` | proofs: the printers, and the inductions they need |

### AsyncLogger and the code

Variables carry the names of the members (`m_qEntryQueue`, `m_bWorkerEngineOn`, ...).
`pc` and `call` say where an application thread, or the killer, is in a life-cycle
call; `wpc` and `oEntry` say where a worker is in `work()` and what it has popped.
`submitted` and `accepted` are history. `m_oKillerThread` is the number of handles in
that vector; `m_vWorkers` the pool slots whose `std::thread` has not been joined.

A step contains at most one access to something another thread can change meanwhile.
Reads and writes under a mutex are joined to the step that takes or releases it,
which loses no behaviour: taking a lock commutes to the right past the steps of
others, releasing it to the left. Where the grain matters the code is split:

| Code | Actions |
|---|---|
| `log()`: test of the flag, then lock, overflow test, push, `notify_one` | `Log`, `LogPush` |
| the first lock and `waitForKiller()` of every life-cycle call | `Invoke`, `LockKiller`, `WaitForKiller` |
| `m_oWorkerMutex` taken, `m_oKillerMutex` released | `LockWorker` (`SignalStop` for `signalStop()`, which also starts the killer) |
| rest of `start()` | `WaitForKillerAgain`, `StartService`, `StartWorkers`, `SpawnWorker`, `EngineOn` |
| rest of `stop()`, and the killer's lambda | `StopWorkers`, `NotifyAll`, `JoinWorkers`, `StopService` |
| `status()` | `StatusRead`, `StatusReturn` |
| `work()` | `WorkerAcquire`, `WorkerSleep`, `WorkerWrite`, `WorkerDecide` |
| what the code does not control | `SpuriousWakeup`, `SinkBreaks` |

`WorkerAcquire` and `WorkerSleep` are two steps although both happen under the queue
lock, because the flag is atomic and `stop()` changes it without that lock: this is
where a notification can be lost. `SpawnWorker` starts a thread that may run at once,
before `EngineOn`. Creating a thread may throw (`SpawnMayFail`), `serviceStart()` and
`serviceStop()` may throw, a running sink may break (`SinkMayBreak`); clearing a vector of
joinable threads, or an exception that leaves the killer, sets `terminated`, after which
nothing happens. An exception out of `start()` or `stop()` releases `m_oWorkerMutex`
(`WorkerReleased`), as its `unique_lock` does. `StatusRead` and `StatusReturn` are the two reads of `status()`, which no
lock joins: `StatusWasTrue` says what an answer other than BROKEN is nevertheless worth. A
BROKEN says nothing: a sound logger may give it while another thread starts or stops it.

### AsyncOstreamLogger, LoggerLifetime and the code

`AsyncOstreamLogger` extends `AsyncLogger`: `WorkerWrite`, one step there, becomes four
writes to the stream (`WritePiece` three times, then `WriteEnd`, which completes the
engine's step), with every other step of the engine allowed in between.
`OstreamAssumption` says what the constructors fix: one worker, an always-on sink. The time
a stamp shows is left to `SyncLogger`.

`LoggerLifetime` adds who may call at all. A thread has at most one handle; `Application`
is a call through it, `CopyHandle` gives one to another thread, and a destructor is a list
of things to do (`todo`): `~BasicLogger` reads `use_count()` once and then stops, joins and
releases or only releases; the last release adds `~Impl()` - `stop()`, `join()`, members.
These calls are the engine's own, step by step among everybody else's.

### SyncLogger, LineLog and the code

There are any number of loggers, each with its own `m_oGeneralMutex`; `StreamOf` is the
stream a constructor was given, and two loggers may have the same, as any two
`SyncCoutLogger` have. A line is four pieces (time stamp, level and blank, text, end of
line); each is one step of the thread that owns the lock, and so is the reading of the
clock before the first and the flush after the last. The calls that do not touch the stream
(`start`, `stop`, `signalStop`) are one step: they take the lock, call the service and
return, also when the service throws. Lines have a time stamp, as in the builds for C++20;
an earlier one omits it (`README.md:29`), and what is said of time stamps does not apply.

Copies of a message share `m_sString`; the level is the copy's. `Log` hands a copy to any
logger, and a message may be in the hands of several threads at once. `stealString()` moves
the text out under the lock of the logger that asks, which is not the lock of another: while
two threads are at that point with copies of one text (`MayTear`), what they read is open,
and the text counts as torn from then on. `TextGoesToFirst` says what holds of a text as
long as its copies go to one logger, and of one that two loggers take but do not move at the
same moment; `takenBy` is the history it needs.

The clock is `std::chrono::system_clock` (`rfc3339.h:185`), which the system may set back
(`SetBack`). A reading is what the clock showed and, as history, how often it had been set
back; `NotAfter` compares two readings, and `TimeStampsOrdered` is the claim that an earlier
time after a later one is never the logger's doing.

The guarantees are about `Unshared` streams, those at most one logger writes to; what two
loggers on one stream do is the run `console_lines`. `LineLog` is what is left when locks,
pieces and buffers are forgotten: `Lines` reads a line off four pieces.

### LoggerHandle, LogCalls and the code

Each handle object belongs to a thread of its own. The destructor is split at every
access to shared state: the read of `use_count()` (`DestroyHandle`), `stop()`, `join()`,
the release of the pointer (`Release`), and, for the last one, the destructor of the
implementation (`ImplStop`, `ImplJoin`, `ImplFree`). `AssignAway` is assignment from a
handle of another logger. The engine's calls are single steps that wait for the
killer, which is what `KillerHandshake` and `SignalledStopHolds` say of the engine.
`LoggerLifetime` is the other half of the picture: fewer operations on handles, the engine
in full.

`LogCalls` extends `LoggerHandle` by the calls that log. The many overloads and severity
wrappers come to four actions: `LogText` (a string, and the wrappers), `LogView` (views and
literals, which only C++17 builds have), `LogException` and `LogMessage` (a message
variable, copied or moved). A message is a level text and a pointer; `Stolen` is what
`stealString()` leaves. `getName` is the table of the C++17 builds, `getNameView14` the
switch of the others: `cpp17` chooses one in the initial state. The implementation is a
queue that writes in order, which is what `StreamImplemented` proves of an engine with one
worker.

### Rfc3339 and the code

Each printer is a function from its arguments to a sequence of characters, with the
loops of `writeInteger` as recursive functions (`Measured`, `CiphersFrom`) and `int`
arithmetic wrapped to the `int` whose greatest value is `MaxInt`; a step of the
specification is one call. A time point is what `floor<days>` makes of the clock's count:
a day, and the ticks of that day, `TicksPerMilli` of them in a millisecond (10^6 where
`system_clock` counts nanoseconds); `InstantMillis` is the `floor<milliseconds>` of lines 89
and 130. `std::chrono` is external: the calendar of a day, and the offset of the zone. The
properties read the text back with definitions of their own: `Number` for numerals,
`DayNumber`, which counts days by adding up years and months, for dates. `IntAssumption` leaves out the least `int`, whose negation overflows and which no
caller passes, and asks for an `int` that holds a year; `TimesAssumption` asks for dates
that fall in the years 0 to 9999 in every zone, as RFC 3339 does, and zones of whole
minutes.

## 3. Runs

| Run | Instance | What it shows |
|---|---|---|
| `engine` | 2 threads, 2 workers, 3 messages, queue of 2, `status()` too | types and the queue's limit, `ExactlyOnce`, `KillerHandshake`, `SignalledStopHolds`, `NoSleepOnBacklog`, `NoCircularWait`, `NeverTerminates`, `NoWriteToStoppedSink`, `StatusWasTrue`, `ImplementsStream`; no deadlock |
| `failures` | 2 threads, 2 workers, 2 messages, queue of 1, sink that fails, starts or stops with an exception, failing thread creation, both sink kinds | `ExactlyOnce`, `KillerHandshake`, `NoCircularWait`, `SignalledStopHolds`, `NoSleepOnBacklog` |
| `liveness` | 2 threads, 2 workers, 2 messages, 4 events | `CallsReturn`, `DrainedByLiveWorker` |
| `sync_logger` | 3 threads, 2 loggers on 2 streams, 2 messages whose copies go to either, clock up to 1 and set back once, both sink kinds, sinks that fail, services that throw | `LinesIntact`, `TimeStampsOrdered`, `TextGoesToFirst`, `LoggedIsFlushed`, `StopIsFinal`, `ImplementsLineLog` |
| `async_ostream` | 3 threads with a handle each at most, 1 worker, 3 messages, queue of 2, failing thread creation | `LinesIntact`, `LinesInOrder`, `QuietAfterStop`, `NothingOutlivesLogger`, `NeverTerminates`, `DestructorsStopTheLast`; no deadlock |
| `handles` | 3 handles, 2 message variables, 1 text, 9 levels, a value above them and a level by string, 2 calls, both builds | `CleanDestruction`, `OthersKeepRunning`, `LevelAsAsked`, `TextOnce` |
| `time_stamps` | 16-bit `int`, values at its edges, 18 days, first and last tick of 16 milliseconds, 8 offsets | `IntegerPrinted`, `StampsWellFormed`, `StampsNameTheTime`, `StampsSort` |
| `stop_flushes` | 1 thread, 1 worker | violated: `stop()` returns with an accepted message in the queue |
| `stop_returns` | 1 thread, 1 worker, fair | violated: `stop()` never returns after a lost notification |
| `stopped_logger_discards` | 2 threads, 1 worker | violated: a stopped logger queues a message |
| `last_handle_stops` | 2 handles | violated: the last handle's destructor does not stop the logger |
| `console_lines` | 2 threads, 2 `SyncCoutLogger` | violated: their lines mix |

The life-cycle calls are unbounded in `engine`, `failures` and `async_ostream`: each thread
starts, stops, signals and joins for ever (in `async_ostream` while it has a handle), and
only the messages (each is submitted once) are finite. Two threads are enough for every
conflict over a lock (the killer is a third, the workers a fourth and fifth), two workers
for every conflict over the queue, and a queue smaller than the number of messages makes
overflow happen. In `async_ostream` the third thread can take a copy of a handle, call, or
drop it while two others race in their destructors.

In `handles` three threads race; more than that is beyond what a count of two tells apart.
One text is enough to meet itself again, copied, moved and logged twice (`MaxCalls`). In
`sync_logger` three threads allow one writing and two waiting with older and newer
intentions, on the same logger or another, or two that move one text while the third logs
what they leave; the second message is there to be mixed up with the first. The inputs of `time_stamps` lie on both sides of every
place where the number of digits, the month, the leap rule or the day changes; the days
stay within 1678 to 2261, what a clock of 64-bit nanoseconds reaches (the theorems hold
from year 0 to 9999, and for any width of `int`), and the offsets are whole minutes, as
every zone has used since the middle of the last century; the printed offset drops the
seconds of older ones. `MaxLines` (no new `log()` once one line is there:
calls that have begun go on, so up to three lines, one per thread), `MaxTime` and
`MaxSetBacks` are bounds on the streams and the clock. Symmetry is over threads, workers, messages and handles,
which no definition tells apart (in `sync_logger` over the loggers as well, each with the
stream of its own); the liveness run uses none. The largest runs have about 700,000
distinct states (`sync_logger`), 350,000 (`handles`), 250,000 (`failures`, `async_ostream`)
and 160,000 (`engine`); where a bound was tight, the theorems of section 4 are what removes it.

`CHECK_DEADLOCK FALSE` stands where the system may really stop: in `failures` after
`std::terminate`, in `liveness` once the event budget is spent, in the handle runs once
every handle is gone, in `time_stamps` after the call of an integer or a local time.
Elsewhere TLC checks for deadlock (in `async_ostream` the state after the implementation
has gone stutters). That finds a state in which nobody can step, and one caller that is
idle, or one spurious wake-up, hides it. `NoCircularWait` is about every subset of the
threads instead: one of them waits for no other, neither for a lock it holds nor for its
end. What it leaves out is a worker that waits for a notification nobody owes
(violation 2 below).

What the five violations show, in terms of the code:

1. `startWorkers()` stores the flag after it created the threads (`async_logger.h:353`).
   A worker scheduled at once finds an empty queue and a false flag and ends. If all do,
   the pool is dead while the logger accepts messages, and `stop()` returns without
   writing them, against `README.md:76` and the repository's own test.
2. `stopWorkers()` changes the flag and notifies without the queue lock
   (`async_logger.h:361`): between a worker's test and its sleep, both are missed.
3. `log()` tests the flag before it locks (`async_logger.h:320`).
4. `~BasicLogger` decides by a count it read before it releases (`base_logger.h:146`).
   For the ostream loggers this is harmless (`CleanDestruction`, `NothingOutlivesLogger`):
   their implementation's destructor stops once more.
5. The lock that keeps a line together belongs to a logger, not to the stream
   (`ostream_logger.h:459`): two console loggers have two.

Divergences met while reading and not made a run: `join()` joins the killer, never the
workers (`async_logger.h:475`), so it returns at once when nobody signalled; `status()`
documents a lock it does not take (`async_logger.h:169` against 479-494), so that the
snapshot is not consistent and a sound logger may be called BROKEN while another thread
starts or stops it, against lines 161-168 (`StatusWasTrue` shows that the other answers are
true); `ostream_logger.h:6` promises time stamps "with sub-millisecond precision", and
`rfc3339.h:89` and 130 cut everything below a millisecond (`StampsSort`: two times less than
a millisecond apart may have one text); an always-on sink reports BROKEN
after `stop()` where `base_logger.h:62` says STOPPED; a negative `Level` indexes the table
of names out of its bounds (`def.h:79`) where `def.h:76` promises an empty string; the
object pool of `async_logger.h:47` does not exist; `m_oKillerCv` is never used.

### Fairness

`Fairness` is weak fairness of each thread's own steps: the operating system runs what
can run. No call is ever forced to be made, no spurious wake-up is assumed, and
`std::mutex` promises no queue, so with endless calls one thread may starve another at a
lock. Liveness is therefore checked with finitely many events (calls and spurious
wake-ups, `MaxEvents`); four allow start, log, signalStop and one more call or wake-up in
any order, by either thread. `CallsReturn` has the premise `NoWorkerOversleeps`, since a lost notification
(violation 2) blocks `stop()`; that premise is satisfied by every behaviour in which no
worker stays asleep while the flag is down, stops included.

## 4. Proofs

Every theorem holds for any sets of threads, workers, messages, loggers, streams, handles,
texts and time points, any capacity and any width of `int`, from the named assumptions of
the module it is about, which TLC evaluates in the runs of that module. Conditions beyond
them are in the table.

| Theorem | Says |
|---|---|
| `AsyncLoggerProofs!TypeCorrect` | `Spec => []TypeOK` |
| `KillerHandshakeHolds` | `Spec => []KillerHandshake` |
| `SignalledStopHoldsAlways` | `Spec => []SignalledStopHolds` |
| `NoWriteToStoppedSinkHolds` | `Spec => NoWriteToStoppedSink`, if threads can always be created |
| `NoSleepOnBacklogHolds` | `Spec => []NoSleepOnBacklog` |
| `NoCircularWaitHolds` | `Spec => []NoCircularWait`, with every failure the model knows |
| `NeverTerminatesHolds` | `Spec => []NeverTerminates`, if threads can always be created and the sink does not throw |
| `StatusWasTrueHolds` | `Spec => StatusWasTrue`, for a sink that does not break |
| `ExactlyOnceHolds` | `Spec => []ExactlyOnce` |
| `StreamImplemented` | `Spec => ImplementsStream`, for a finite pool |
| `EngineImplemented`, `OstreamTypeCorrect` | `OstreamSpec => Spec`, `OstreamSpec => []OstreamTypeOK` |
| `LinesInOrderHolds`, `LinesIntactHolds`, `QuietAfterStopHolds` | the properties of that name, of `OstreamSpec` |
| `LoggerImplemented`, `LifetimeTypeCorrect` | `LifetimeSpec => OstreamSpec`, `LifetimeSpec => []LifetimeTypeOK` |
| `NothingOutlivesLoggerHolds`, `DestructorsStopTheLastHolds` | the properties of that name, of `LifetimeSpec` |
| `LoggerNeverTerminates` | `LifetimeSpec => []NeverTerminates`, whether or not threads can be created |
| `CleanDestructionHolds`, `OthersKeepRunningHolds` | the properties of that name, of the handles, if the implementation's destructor stops it (`ImplStops`) |
| `HandlesImplemented` | `CallsSpec => Spec` of the handles |
| `LevelAsAskedHolds`, `TextOnceHolds` | the properties of that name, of `CallsSpec` |
| `CallsTypeCorrect` | `CallsSpec => []CallsTypeOK`, if `ImplStops` |
| `SyncLoggerProofs!TypeCorrect` | `Spec => []TypeOK` of the synchronous loggers |
| `LinesIntactHolds`, `TimeStampsOrderedHolds`, `TextGoesToFirstHolds`, `LoggedIsFlushedHolds`, `StopIsFinalHolds` | the properties of that name |
| `LineLogImplemented` | `Spec => ImplementsLineLog` |
| `IntegerPrintedHolds` | `Spec => []IntegerPrinted` of the printers |
| `StampsWellFormedHolds`, `StampsNameTheTimeHolds`, `StampsSortHolds` | the properties of that name, for every date of `TimesAssumption` |

`ImplStops` is no restriction for this repository: its only asynchronous implementation,
`BasicAsyncOstreamLogger::Impl`, stops and joins in its destructor. `last_handle_stops` shows what an
application loses whose own implementation does not do so.

The arguments, one inductive invariant resting on the one before. The engine:

- `TypeInv`: `TypeOK` and, for each thread between two steps of `log()` or `work()`, that
  its local message is a message.
- `MutexInv`: which program points own which lock. `TypeOK` does not say it, and every
  later invariant needs that only one thread is past a lock.
- `KillerInv`: who may hold a handle on the killer and when the killer may run. It is
  what makes `KillerHandshake` inductive: the handle vector is written under both locks,
  and each thread past `WaitForKiller` with the killer lock keeps it empty.
- `SignalInv`: after the killer ended and before its handle is collected no thread is
  inside `start()` past the worker lock.
- `LiveInv`, `VectorInv`, `PoolInv`: a running worker is in the vector, and with the flag
  down and nobody starting or stopping the vector is empty; so the sink is up while a
  worker may write, and `start()` never clears threads that were not joined
  (`NoTermination`). Without the assumption that thread creation succeeds `VectorInv` is
  false: a failed `start()` leaves workers behind that no `stop()` joins.
- `AnswerInv`: a sink that does not break is stopped only while the flag is down and
  nobody is about to raise it, which is what the second read of `status()` rests on.
- `BacklogInv`: how a worker at each point of its loop stands to the queue, in particular
  that a worker between its predicate and its sleep still owns the queue lock.
- `NoCircularWait` follows from these by ranking who can be waited for (`WaitsOrdered`,
  `NoCircle`): a worker with the queue lock waits for nobody, another worker only for it;
  the owner of `m_oWorkerMutex` at most for workers, as `KillerInv` says it never joins a
  killer; the killer for that owner; the owner of `m_oKillerMutex` for those two; all
  others for one of these.
- `DeliveryInv`: the queue is a suffix of `accepted`; what was popped is in the sink or
  in exactly one worker's hands; hands are full only at the step that writes.
- `StreamImplemented` counts: what is pending lies in the queue or, by an injection, in
  the hands of the workers (`Carried`, `PendingBound`), and what was accepted before the
  entry being written in the hands of the others.

The ostream logger and its lifetime:

- `FifoInv`: with one worker, what is in its hands is the accepted entry right after the
  last one written. `LineInv`: the stream is four pieces for each written entry and as many
  as the worker has put of its present line. `QuietAfterStopHolds` needs only `LiveInv`,
  carried over by `EngineImplemented`.
- `TodoInv`: what a destructor has still to do, that one thread at most is in the
  destructor of the implementation, and that no handle is left then.
- `VectorInv` again, now although creating a thread may fail: this is where one worker
  matters, as with two a failed creation leaves the first behind. `LoggerNeverTerminates`
  follows by the two refinements.
- `DyingInv`: nobody but the dying thread calls; its `stop()` leaves the engine quiet and
  nobody can start it again. `LastInv`: the thread that saw itself last stays last, since
  only a handle that is not in its destructor is copied.

Handles and calls:

- `HandleInv`: `TypeOK`, `OwnerInv` (who may own the logger, and that one thread at most
  destroys it) and `StoppedInv` (what the destructor has achieved stays so). It rests on
  the theorems of finite sets, because `use_count()` is a cardinality.
- `CallInv`: `CallTypes`, `MessageInv` (every message that exists says of a text the level
  it was made with) and `LineInv` (a string is empty exactly when a line has shown its
  text). `NamesAt` and `LevelTextNames` show that the table, the switch and the enum agree.

The synchronous loggers:

- `TypeOK` is inductive; it says that a thread is inside `work()` exactly while it owns its
  lock. `SinkInv`: the sink of a thread inside `work()` is not stopped, and a free lock
  means a flushed stream.
- `TakenInv`: whoever is inside `work()` has had its logger noted in `takenBy`. `TextInv`:
  what a line shows has been moved out, and while one logger has taken all copies of a
  message nobody can have moved its text at the same moment (`AloneWithText`). `TimeInv`: a
  reading taken and not yet written follows, up to a clock set back, those its stream shows.
- `LineInv`: the last line of a stream is as far as the thread that owns its lock, which
  wrote every piece of it (`Phase`, `Measures`). The refinement follows: `EndOfLine` shows
  that the fourth piece appends to `Lines` what `WriteLine` does, `MidLine` that no other
  step changes them.

The printers:

- `LastCall`: what was written last is what the printer writes for its arguments. With it
  each property is one of the text of a call.
- The library states induction and recursion with an operator as a parameter, which the
  provers cannot instantiate. `Smallest`, `SetInduction`, `StrongInduction` and `Recursion`
  say the same of sets and functions and are proved from the well-foundedness of the order
  of the naturals. So the loops are proved: `MeasuredIs`, `CiphersFromIs` unfold them,
  `MeasuredFits` finds the power of ten of the first digit and that it fits an `int`, and
  `ReadUpToIs` does the same for `Number`.
- `IntegerWritten`: a numeral and its padding read back as the value. `Field2`, `Field3`,
  `Field4` are what a stamp needs of it.
- `FloorIs`, `TickIsTime`: the millisecond a tick lies in, whatever the clock's resolution;
  `Shifted`, `LocalIsTime`: local time is a time of a day of the calendar.
- `DateNamesDay`: the calendar date of a day has the `DayNumber` of that day, over every
  leap year, century and era of 400 years.
- `Extended`, `StampWritten`, `OffsetWritten`: a stamp is its fields, each at its place;
  `PlacesRead` reads them back, `ShapeIs` tells which character stands where.
- `DaysGrow`, `StampsGrow`: the order of milliseconds is that of their fields, and the order
  of the text is that of the fields.

Only model-checked: liveness (`CallsReturn`, `DrainedByLiveWorker`), which needs fairness
and is out of the prover's reach; and the five violations, which are single behaviours.
That a thread which waits for nobody, in the sense of `WaitsFor`, has a step to make is a
statement with `ENABLED` and not proved; it is read off the guards.

## 5. Not modelled

- The exception that `log()` throws on overflow instead of dropping: the state changes
  are the same. An exception that leaves the sink's `work()`: the process ends at once.
- `std::ostream`: a piece written is a piece received, a flush empties the buffer. A stream
  with exceptions enabled could leave a line cut short.
- The content of messages; the five character types of names and texts, which are one here;
  `utf42.h`, which is resolved by the compiler; the zone database behind `std::chrono`.
- A single handle object used by several threads at once, which `shared_ptr` forbids.
- What a data race on a text does beyond the text: two loggers that move it at the same
  moment may here read anything and leave anything, but nothing else is damaged.
- Builds before C++20, which write no time stamp: their lines have one piece less, under the
  same lock.
- The order in which static objects are initialised, the time zone pointer among them.
- A pool of no workers, which the constructor does not exclude and nothing uses.

## 6. Plan

1. Done: the engine, its abstract stream and refinement; the ostream logger and its
   lifetime, the handles, the calls and messages, the synchronous loggers and their line
   log; the printers. Every safety property a run checks is a theorem.
2. Left: what a reader of a shared console may still count on (`console_lines` shows what
   not); the lifetime of an application's own implementation whose destructor does not stop.
