----------------------------- MODULE LoggerHandle -----------------------------
(***************************************************************************)
(* BasicLogger (include/cpptrail/base_logger.h): handles that share one    *)
(* logger implementation by std::shared_ptr.  The destructor of a handle   *)
(* looks at use_count() and, if it sees 1, stops and joins the logger; the *)
(* release of the last pointer runs the destructor of the implementation,  *)
(* which for the ostream loggers (include/cpptrail/ostream_logger.h) stops *)
(* and joins once more.  Each handle belongs to a thread of its own, so    *)
(* its calls and its destruction interleave with those of the others.      *)
(*                                                                         *)
(* The implementation is the engine of AsyncLogger, reduced to what its    *)
(* destruction depends on: whether the pool runs, and the killer thread.   *)
(* The calls are steps: the engine serialises them under its locks.        *)
(***************************************************************************)
EXTENDS Naturals, FiniteSets

CONSTANTS
  Handles,    \* the handle objects a program may create
  ImplStops   \* whether the implementation's destructor calls stop() and join()

ASSUME ConstantsAssumption == ImplStops \in BOOLEAN

VARIABLES
  pc,         \* the life of each handle object
  m_pLogger,  \* whether the handle points to the implementation
  running,    \* whether the worker pool runs
  killer,     \* the killer thread: none, running, or ended and not joined
  impl,       \* the implementation: alive, under destruction, destroyed
  terminated  \* a joinable std::thread was destroyed: the process is gone

vars == <<pc, m_pLogger, running, killer, impl, terminated>>

engineVars == <<running, killer>>
implVars == <<impl, terminated>>

HandleSteps ==
  {"unborn", "idle", "stop", "join", "release", "implStop", "implJoin",
   "implFree", "gone"}

Owners == {h \in Handles : m_pLogger[h]}

\* The type invariant; it also says that no handle points to a dying logger or
\* calls through an empty pointer, in its destructor or out of it.
TypeOK ==
  /\ pc \in [Handles -> HandleSteps]
  /\ m_pLogger \in [Handles -> BOOLEAN]
  /\ running \in BOOLEAN
  /\ killer \in {"none", "running", "ended"}
  /\ impl \in {"alive", "dying", "destroyed"}
  /\ terminated \in BOOLEAN
  /\ Owners # {} => impl = "alive"
  /\ \A h \in Handles : pc[h] \in {"stop", "join"} => m_pLogger[h]

\* std::make_shared builds the implementation for its first handle.
Init ==
  /\ \E h \in Handles :
       /\ pc = [g \in Handles |-> IF g = h THEN "idle" ELSE "unborn"]
       /\ m_pLogger = [g \in Handles |-> g = h]
  /\ running = FALSE
  /\ killer = "none"
  /\ impl = "alive"
  /\ terminated = FALSE

use_count(h) == IF m_pLogger[h] THEN Cardinality(Owners) ELSE 0

At(h, step) == ~terminated /\ pc[h] = step

Goto(h, step) == pc' = [pc EXCEPT ![h] = step]

-----------------------------------------------------------------------------
(* Copies, moves and assignments                                           *)

\* g is constructed as a copy of h, which may have been moved from.
CopyConstruct(h, g) ==
  /\ At(h, "idle") /\ At(g, "unborn")
  /\ Goto(g, "idle")
  /\ m_pLogger' = [m_pLogger EXCEPT ![g] = m_pLogger[h]]
  /\ UNCHANGED <<engineVars, implVars>>

MoveConstruct(h, g) ==
  /\ At(h, "idle") /\ At(g, "unborn")
  /\ Goto(g, "idle")
  /\ m_pLogger' = [m_pLogger EXCEPT ![g] = m_pLogger[h], ![h] = FALSE]
  /\ UNCHANGED <<engineVars, implVars>>

\* The pointer of h goes; with the last one the implementation starts to die,
\* on the thread of h.
DropLast(h) ==
  IF Owners = {h} THEN impl' = "dying" ELSE UNCHANGED impl

AfterDrop(h, rest) ==
  IF Owners # {h} THEN rest ELSE IF ImplStops THEN "implStop" ELSE "implFree"

\* h is assigned a handle of another logger, or an empty one: its pointer is
\* released with no look at use_count().
AssignAway(h) ==
  /\ At(h, "idle") /\ m_pLogger[h]
  /\ m_pLogger' = [m_pLogger EXCEPT ![h] = FALSE]
  /\ DropLast(h)
  /\ Goto(h, AfterDrop(h, "idle"))
  /\ UNCHANGED <<engineVars, terminated>>

\* g, which does not own the logger, is assigned a copy of h, or h is moved
\* into it.
AssignFrom(h, g) ==
  /\ At(h, "idle") /\ At(g, "idle")
  /\ m_pLogger[h] /\ ~m_pLogger[g]
  /\ m_pLogger' \in {[m_pLogger EXCEPT ![g] = TRUE],
                     [m_pLogger EXCEPT ![g] = TRUE, ![h] = FALSE]}
  /\ UNCHANGED <<pc, engineVars, implVars>>

-----------------------------------------------------------------------------
(* The calls a handle forwards                                             *)

\* What the engine does: start(), stop() and join() wait for the killer.
EngineStart == killer # "running" /\ killer' = "none" /\ running' = TRUE
EngineStop == killer # "running" /\ killer' = "none" /\ running' = FALSE
EngineSignalStop == killer # "running" /\ killer' = "running" /\ UNCHANGED running
EngineJoin == killer # "running" /\ killer' = "none" /\ UNCHANGED running

Forward(h) ==
  /\ At(h, "idle") /\ m_pLogger[h]
  /\ EngineStart \/ EngineStop \/ EngineSignalStop \/ EngineJoin
  /\ UNCHANGED <<pc, m_pLogger, implVars>>

\* The killer thread runs the body of stop().
KillerEnds ==
  /\ ~terminated
  /\ killer = "running"
  /\ killer' = "ended"
  /\ running' = FALSE
  /\ UNCHANGED <<pc, m_pLogger, implVars>>

-----------------------------------------------------------------------------
(* Destruction                                                             *)

\* Mutant of SeesLastHandle: the test is off by one.
SeesLastHandleOffByOne(h) == m_pLogger[h] /\ use_count(h) <= 2

\* Mutant of SeesLastHandle: a handle that was moved from is not excluded.
SeesLastHandleOrNone(h) == use_count(h) <= 1

SeesLastHandle(h) == m_pLogger[h] /\ use_count(h) = 1

\* ~BasicLogger() reads use_count().
DestroyHandle(h) ==
  /\ At(h, "idle")
  /\ Goto(h, IF SeesLastHandle(h) THEN "stop" ELSE "release")
  /\ UNCHANGED <<m_pLogger, engineVars, implVars>>

DestroyStop(h) ==
  /\ At(h, "stop")
  /\ EngineStop
  /\ Goto(h, "join")
  /\ UNCHANGED <<m_pLogger, implVars>>

DestroyJoin(h) ==
  /\ At(h, "join")
  /\ EngineJoin
  /\ Goto(h, "release")
  /\ UNCHANGED <<m_pLogger, implVars>>

\* The member m_pLogger is destroyed.
Release(h) ==
  /\ At(h, "release")
  /\ IF m_pLogger[h]
     THEN DropLast(h) /\ Goto(h, AfterDrop(h, "gone"))
     ELSE UNCHANGED impl /\ Goto(h, "gone")
  /\ m_pLogger' = [m_pLogger EXCEPT ![h] = FALSE]
  /\ UNCHANGED <<engineVars, terminated>>

\* Mutant of ImplStop: the destructor of the implementation only joins.
ImplOnlyJoins(h) ==
  /\ At(h, "implStop")
  /\ EngineJoin
  /\ Goto(h, "implJoin")
  /\ UNCHANGED <<m_pLogger, implVars>>

\* ~Impl() of the ostream loggers: stop(), then join().
ImplStop(h) ==
  /\ At(h, "implStop")
  /\ EngineStop
  /\ Goto(h, "implJoin")
  /\ UNCHANGED <<m_pLogger, implVars>>

ImplJoin(h) ==
  /\ At(h, "implJoin")
  /\ EngineJoin
  /\ Goto(h, "implFree")
  /\ UNCHANGED <<m_pLogger, implVars>>

\* The members of the engine are destroyed; a std::thread that was not joined
\* calls std::terminate.
ImplFree(h) ==
  /\ At(h, "implFree")
  /\ impl' = "destroyed"
  /\ terminated' = (running \/ killer # "none")
  /\ Goto(h, "gone")
  /\ UNCHANGED <<m_pLogger, engineVars>>

Destruction(h) ==
  \/ DestroyHandle(h) \/ DestroyStop(h) \/ DestroyJoin(h) \/ Release(h)
  \/ ImplStop(h) \/ ImplJoin(h) \/ ImplFree(h)

Next ==
  \/ \E h, g \in Handles :
       CopyConstruct(h, g) \/ MoveConstruct(h, g) \/ AssignFrom(h, g)
  \/ \E h \in Handles : AssignAway(h) \/ Forward(h) \/ Destruction(h)
  \/ KillerEnds

Spec == Init /\ [][Next]_vars

-----------------------------------------------------------------------------
(* What the handles guarantee                                              *)

\* However the handles are copied, moved, assigned and destroyed, and
\* whichever thread drops the last one while a signalStop() is under way, no
\* thread of the logger outlives it.
CleanDestruction == ~terminated

\* The destruction of a handle stops the logger under nobody's feet: when it
\* does, no other handle points to it.
OthersKeepRunning ==
  [][\A h \in Handles :
       pc[h] = "stop" /\ pc'[h] = "join" => Owners = {h}]_vars

-----------------------------------------------------------------------------
(* What the repository says of the handles and the code does not do        *)

\* The destructor of the last handle stops the logger before it destroys the
\* implementation.
LastHandleStops ==
  [][\A h \in Handles :
       pc[h] = "release" /\ pc'[h] \in {"implStop", "implFree"} =>
         ~running /\ killer = "none"]_vars
=============================================================================
