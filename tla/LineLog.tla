------------------------------- MODULE LineLog -------------------------------
(***************************************************************************)
(* What an application may expect of a logger that writes on the caller's  *)
(* thread: every stream is a log of whole lines, each written in one step  *)
(* while the sink is not stopped.  A line shows a reading of the clock no  *)
(* earlier than that of the line before it.  The text of a message appears *)
(* in its first line and no other, while its copies go to one logger.      *)
(***************************************************************************)
EXTENDS Naturals, Sequences

CONSTANTS
  Streams,   \* where the lines go
  Messages,  \* what may be logged
  Times      \* what a clock may show

VARIABLES
  lines,  \* the lines of each stream
  open,   \* whether the sink of a stream may be written to
  now,    \* what the clock shows, and how often it has been set back
  shared  \* the messages that two loggers have taken copies of

logVars == <<lines, open, now, shared>>

LogInit ==
  /\ lines = [s \in Streams |-> <<>>]
  /\ open \in [Streams -> BOOLEAN]
  /\ now = [setBacks |-> 0, time |-> 0]
  /\ shared = {}

NotLater(r, q) ==
  r.setBacks < q.setBacks \/ (r.setBacks = q.setBacks /\ r.time <= q.time)

\* A reading a line may show when it follows all the lines of log.
MayShow(log, r) ==
  NotLater(r, now) /\ \A i \in DOMAIN log : NotLater(log[i].time, r)

\* A text a line of m may show after the lines of log.
MayRead(log, m, text) ==
  m \in shared
    \/ text = IF \E i \in DOMAIN log : log[i].of = m THEN "empty" ELSE "whole"

WriteLine(s, m) ==
  /\ lines'[s] # lines[s]
  /\ open[s]
  /\ UNCHANGED <<open, now, shared>>
  /\ \E r \in [setBacks : 0..now.setBacks, time : Times],
        text \in {"whole", "empty", "torn"} :
       /\ lines' = [lines EXCEPT ![s] =
            Append(@, [of |-> m, time |-> r, text |-> text])]
       /\ MayShow(lines[s], r) /\ MayRead(lines[s], m, text)

\* A sink opens or closes.
Switch(s) ==
  /\ open' = [open EXCEPT ![s] = ~@]
  /\ UNCHANGED <<lines, now, shared>>

\* The clock shows another time, later or earlier.
Pass ==
  /\ now' # now
  /\ UNCHANGED <<lines, open, shared>>
  /\ \E t \in Times :
       now' = [setBacks |-> IF t < now.time THEN now.setBacks + 1 ELSE now.setBacks,
               time |-> t]

\* A second logger takes a copy.
Share(m) ==
  /\ shared' = shared \cup {m}
  /\ UNCHANGED <<lines, open, now>>

LogNext ==
  \/ Pass
  \/ \E m \in Messages : Share(m)
  \/ \E s \in Streams : Switch(s) \/ \E m \in Messages : WriteLine(s, m)

LogSpec == LogInit /\ [][LogNext]_logVars
=============================================================================
