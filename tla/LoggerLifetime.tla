---------------------------- MODULE LoggerLifetime ----------------------------
(***************************************************************************)
(* The asynchronous ostream logger from its first handle to the end of its *)
(* implementation: the handles of BasicLogger (include/cpptrail/           *)
(* base_logger.h) and the destructor of BasicAsyncOstreamLogger::Impl      *)
(* (include/cpptrail/ostream_logger.h) composed with the engine and its    *)
(* stream.  Each application thread has at most one handle; the calls its  *)
(* destruction makes are the engine's own stop() and join(), and run among *)
(* the calls, the workers and the killer of everybody else.                *)
(***************************************************************************)
EXTENDS AsyncOstreamLogger

VARIABLES
  handles,  \* the threads whose handle points to the implementation
  todo,     \* what the destructors a thread is in have still to do
  freed     \* whether the implementation has been destroyed

lifetimeVars == <<handles, todo, freed>>

DestructorSteps == {"stop", "join", "release", "free"}

LifetimeTypeOK ==
  /\ OstreamTypeOK
  /\ handles \subseteq Clients
  /\ todo \in [Clients -> Seq(DestructorSteps)]
  /\ freed \in BOOLEAN

\* std::make_shared builds the implementation for the handle of one thread.
LifetimeInit ==
  /\ OstreamInit
  /\ \E c \in Clients : handles = {c}
  /\ todo = [c \in Clients |-> <<>>]
  /\ freed = FALSE

-----------------------------------------------------------------------------
(* While a handle lives                                                    *)

Holds(c) == c \in handles /\ todo[c] = <<>>

\* An application thread makes a call through its handle.
Application ==
  \E c \in Clients :
    /\ Holds(c)
    /\ \/ \E m \in Messages : Log(c, m)
       \/ \E method \in Methods : Invoke(c, method)
       \/ StatusRead(c)

\* A thread without a handle gets a copy of another's.
CopyHandle(c, d) ==
  /\ Holds(c) /\ At(c, "idle")
  /\ d \notin handles /\ todo[d] = <<>>
  /\ handles' = handles \cup {d}
  /\ UNCHANGED <<todo, freed, allVars>>

-----------------------------------------------------------------------------
(* Destruction                                                             *)

\* A thread in a destructor that has come to a given step.
Destroys(c, step) ==
  /\ todo[c] # <<>> /\ Head(todo[c]) = step
  /\ At(c, "idle")

\* Mutant of HandleDestructor: every handle stops the logger.
HandleDestructorAlwaysStops(c) == <<"stop", "join", "release">>

\* ~BasicLogger(): use_count() is read once.
HandleDestructor(c) ==
  IF handles = {c} THEN <<"stop", "join", "release">> ELSE <<"release">>

DestroyHandle(c) ==
  /\ Holds(c) /\ At(c, "idle")
  /\ todo' = [todo EXCEPT ![c] = HandleDestructor(c)]
  /\ UNCHANGED <<handles, freed, allVars>>

\* A destructor calls stop() or join() of the engine.
DestructorCall(c) ==
  /\ \E method \in {"stop", "join"} : Destroys(c, method) /\ Invoke(c, method)
  /\ todo' = [todo EXCEPT ![c] = Tail(@)]
  /\ UNCHANGED <<ostreamVars, handles, freed>>

\* Mutant of ImplDestructor: it leaves the engine as it is.
ImplDestructorDefault == <<"free">>

\* ~Impl() and the members it destroys.
ImplDestructor == <<"stop", "join", "free">>

\* The pointer of a handle goes; the last one takes the implementation along.
Release(c) ==
  /\ Destroys(c, "release")
  /\ handles' = handles \ {c}
  /\ todo' = [todo EXCEPT ![c] =
       IF handles = {c} THEN ImplDestructor \o Tail(@) ELSE Tail(@)]
  /\ UNCHANGED <<freed, allVars>>

Free(c) ==
  /\ Destroys(c, "free")
  /\ freed' = TRUE
  /\ todo' = [todo EXCEPT ![c] = Tail(@)]
  /\ UNCHANGED <<handles, allVars>>

Destruction(c) ==
  DestroyHandle(c) \/ DestructorCall(c) \/ Release(c) \/ Free(c)

-----------------------------------------------------------------------------

\* What goes on without the application.
Running ==
  \/ \E w \in Workers : WritePiece(w) \/ WriteEnd(w)
  \/ System /\ written' = written /\ UNCHANGED ostreamVars
  \/ \E w \in Workers : SpuriousWakeup(w) /\ UNCHANGED ostreamVars

LifetimeNext ==
  \/ Running /\ UNCHANGED lifetimeVars
  \/ Application /\ UNCHANGED <<ostreamVars, lifetimeVars>>
  \/ \E c, d \in Clients : CopyHandle(c, d)
  \/ \E c \in Clients : Destruction(c)
  \/ freed /\ UNCHANGED <<allVars, lifetimeVars>>

LifetimeSpec == LifetimeInit /\ [][LifetimeNext]_<<allVars, lifetimeVars>>

-----------------------------------------------------------------------------
(* What the destruction guarantees                                         *)

\* Neither a thread of the logger nor a call outlives the implementation: when
\* its members are destroyed no handle points to it, no thread is in a call,
\* every worker has ended and been joined, and so has the killer, whichever
\* threads drop the last handles and whatever they had signalled.
NothingOutlivesLogger ==
  freed =>
    /\ handles = {} /\ \A t \in Threads : pc[t] = "idle"
    /\ m_vWorkers = {} /\ \A w \in Workers : wpc[w] = "off"
    /\ m_oKillerThread = 0
    /\ m_oWorkerMutex = NoThread /\ m_oKillerMutex = NoThread

\* A destructor stops the engine under nobody's feet: a thread that still has
\* its handle, and has not begun to destroy it, sees no stop() but its own,
\* another holder's, or one they signalled.
DestructorsStopTheLast ==
  [][\A c \in Clients : todo[c] # <<>> /\ pc[c] # "stopWorkers" /\ pc'[c] = "stopWorkers" =>
       \A d \in Clients : ~Holds(d)]_<<allVars, lifetimeVars>>
=============================================================================
