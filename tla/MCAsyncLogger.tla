---------------------------- MODULE MCAsyncLogger ----------------------------
(* Model checking of the engine and of its refinement of LogStream.        *)
EXTENDS AsyncLoggerRefinement, TLC

\* The application threads, the slots of the pool and the messages are
\* interchangeable: no definition tells them apart.
Symmetric ==
  Permutations(Clients) \cup Permutations(Workers) \cup Permutations(Messages)
=============================================================================
