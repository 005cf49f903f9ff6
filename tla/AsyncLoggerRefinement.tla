------------------------ MODULE AsyncLoggerRefinement ------------------------
(***************************************************************************)
(* The engine implements the abstract stream: what log() queues is what    *)
(* the stream accepts, what work(message) writes is what it delivers, and  *)
(* everything else the threads do is invisible.  With one worker this is   *)
(* the order in which ostream_logger.h says its messages are processed.    *)
(***************************************************************************)
EXTENDS AsyncLogger

\* The pool is a vector of threads.
ASSUME WorkersAssumption == IsFiniteSet(Workers)

Stream == INSTANCE LogStream WITH
  Capacity <- MaxEntryCount,
  Lag      <- Cardinality(Workers)

\* Every behaviour of the engine is a behaviour of LogStream: the queue, the
\* hand-over to the workers and the restarts never reorder the messages by
\* more than the number of workers, duplicate one or invent one.
ImplementsStream == Stream!Spec
=============================================================================
