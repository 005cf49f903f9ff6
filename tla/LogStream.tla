------------------------------ MODULE LogStream ------------------------------
(***************************************************************************)
(* What an application may expect of a logger with a queue: a stream of    *)
(* messages, each of which reaches the sink at most once and never before  *)
(* it was accepted, nearly in the order of acceptance.  At most Lag - 1    *)
(* messages accepted earlier may still be undelivered when one is          *)
(* delivered; with Lag = 1 the stream is first in, first out.              *)
(***************************************************************************)
EXTENDS Naturals, Sequences, FiniteSets, SequencesExt

CONSTANTS
  Messages,  \* what may be logged
  Capacity,  \* how many messages may be accepted and not yet under way
  Lag        \* how many messages may be under way to the sink

VARIABLES
  accepted,  \* the messages accepted, in order
  written    \* the messages delivered, in order

\* The positions of the stream whose message the sink has not received.
Pending == {i \in DOMAIN accepted : accepted[i] \notin ToSet(written)}

Init == accepted = <<>> /\ written = <<>>

Accept(m) ==
  /\ m \notin ToSet(accepted)
  /\ Cardinality(Pending) < Capacity + Lag
  /\ accepted' = Append(accepted, m)
  /\ UNCHANGED written

Deliver(i) ==
  /\ i \in Pending
  /\ Cardinality({k \in Pending : k < i}) < Lag
  /\ written' = Append(written, accepted[i])
  /\ UNCHANGED accepted

Next ==
  \/ \E m \in Messages : Accept(m)
  \/ \E i \in DOMAIN accepted : Deliver(i)

Spec == Init /\ [][Next]_<<accepted, written>>
=============================================================================
