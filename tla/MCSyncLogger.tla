---------------------------- MODULE MCSyncLogger ----------------------------
(* Model checking of the synchronous logger.                               *)
EXTENDS SyncLogger, TLC

CONSTANT cout

\* Every logger writes to a stream of its own, which has its name.
OwnStreams == [l \in Loggers |-> l]

\* Two SyncCoutLogger objects, both on std::cout.
BothOnCout == [l \in Loggers |-> cout]

\* No definition tells one thread, one message or one logger from another.
Symmetric ==
  Permutations(Clients) \cup Permutations(Messages) \cup Permutations(Loggers)
=============================================================================
