------------------------ MODULE MCAsyncLoggerLiveness ------------------------
(***************************************************************************)
(* Liveness of the engine when the environment acts a bounded number of    *)
(* times.  std::mutex promises no fairness, so with endless calls one      *)
(* caller may starve another; with finitely many, weak fairness of the     *)
(* threads (the operating system runs what can run) is enough.             *)
(***************************************************************************)
EXTENDS AsyncLogger

CONSTANT MaxEvents  \* how many calls and spurious wake-ups there may be

ASSUME MaxEventsAssumption == MaxEvents \in Nat

VARIABLE events     \* how many there have been

BoundedInit == Init /\ events = 0

BoundedNext ==
  \/ System /\ UNCHANGED events
  \/ /\ events < MaxEvents
     /\ events' = events + 1
     /\ Environment

BoundedSpec == BoundedInit /\ [][BoundedNext]_<<vars, events>> /\ Fairness

\* No worker stays blocked while the flag is down: notify_all() reached it, or
\* a spurious wake-up did.
NoWorkerOversleeps ==
  \A w \in Workers : []<>(wpc[w] # "wait" \/ m_bWorkerEngineOn)

\* Everyone gets out: unless a worker missed the notification of a stop, every
\* call that entered the logger returns and every killer ends.  The two
\* life-cycle locks, the joins under them and the queue lock never leave the
\* threads waiting for each other.
CallsReturn ==
  NoWorkerOversleeps =>
    \A t \in Threads : (pc[t] # "idle") ~> (pc[t] = "idle")
=============================================================================
