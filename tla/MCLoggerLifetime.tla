--------------------------- MODULE MCLoggerLifetime ---------------------------
(* Model checking of the asynchronous ostream logger, over its lifetime.   *)
EXTENDS LoggerLifetime, TLC

\* No definition tells one thread, or one message, from another.
Symmetric == Permutations(Clients) \cup Permutations(Messages)
=============================================================================
