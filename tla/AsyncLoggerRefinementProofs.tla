--------------------- MODULE AsyncLoggerRefinementProofs ---------------------
(***************************************************************************)
(* The engine implements the abstract stream, for any number of threads,   *)
(* workers and messages.  What is under way to the sink is in the hands of *)
(* as many workers; the rest is in the queue.                              *)
(***************************************************************************)
EXTENDS AsyncLoggerRefinement, AsyncLoggerDelivery, FiniteSetTheorems

LEMMA ListSets ==
  ASSUME TypeInv
  PROVE  /\ ToSet(accepted) = {accepted[i] : i \in 1..Len(accepted)}
         /\ ToSet(written) = {written[i] : i \in 1..Len(written)}
         /\ DOMAIN accepted = 1..Len(accepted)
         /\ Len(accepted) \in Nat
  BY DEF TypeInv, TypeOK, EntriesTypeOK, ToSet

\* The instance and this module count alike.
LEMMA SameCardinality == ASSUME NEW S PROVE Stream!Cardinality(S) = Cardinality(S)
  BY DEF Stream!Cardinality, Cardinality

LEMMA PendingIs ==
  ASSUME TypeInv
  PROVE  Stream!Pending =
           {i \in 1..Len(accepted) : \A j \in 1..Len(written) : written[j] # accepted[i]}
  BY ListSets DEF Stream!Pending, Stream!ToSet, ToSet

\* Positions whose entries some workers have in their hands are no more than
\* those workers.
LEMMA Carried ==
  ASSUME TypeInv, DeliveryInv,
         NEW T \in SUBSET (1..Len(accepted)), NEW W \in SUBSET Workers,
         \A i \in T : \E w \in W : oEntry[w] = accepted[i]
  PROVE  IsFiniteSet(T) /\ Cardinality(T) <= Cardinality(W)
<1> DEFINE carrier == [i \in T |-> CHOOSE w \in W : oEntry[w] = accepted[i]]
<1>1. \A i \in T : carrier[i] \in W /\ oEntry[carrier[i]] = accepted[i]
  OBVIOUS
<1>2. \A i, j \in T : carrier[i] = carrier[j] => i = j
  BY <1>1 DEF DeliveryInv, AcceptedInv
<1>3. carrier \in [T -> W]
  BY <1>1
<1>4. carrier \in Injection(T, W)
  <2> HIDE DEF carrier
  <2> QED
    BY <1>2, <1>3 DEF Injection, IsInjective
<1>5. IsFiniteSet(W)
  BY WorkersAssumption, FS_Subset
<1> HIDE DEF carrier
<1> QED
  BY <1>4, <1>5, FS_Injection

\* An entry that left the queue and is not with the sink is in some hands.
LEMMA UnderWay ==
  ASSUME TypeInv, DeliveryInv, NEW i \in Stream!Pending, i <= Popped
  PROVE  \E w \in Workers : oEntry[w] = accepted[i]
<1>1. /\ i \in 1..Len(accepted)
      /\ \A j \in 1..Len(written) : written[j] # accepted[i]
  BY PendingIs
<1>2. Popped \in 0..Len(accepted)
  BY DEF Popped, DeliveryInv, QueueInv, TypeInv, TypeOK, EntriesTypeOK
<1>3. i \in 1..Popped
  BY <1>1, <1>2
<1> QED
  BY <1>1, <1>3 DEF DeliveryInv, DeliveredInv

\* What is neither in a queue of MaxEntryCount nor with the sink is in the
\* hands of the workers.
LEMMA PendingBound ==
  ASSUME TypeInv, DeliveryInv
  PROVE  /\ IsFiniteSet(Stream!Pending)
         /\ Cardinality(Stream!Pending) <= Len(m_qEntryQueue) + Cardinality(Workers)
<1> DEFINE T == {i \in Stream!Pending : i <= Popped}
           Q == (Popped + 1)..Len(accepted)
<1>1. /\ Popped \in Nat /\ Len(accepted) \in Nat /\ Len(m_qEntryQueue) \in Nat
      /\ Len(accepted) - Popped = Len(m_qEntryQueue)
  BY DEF Popped, DeliveryInv, QueueInv, TypeInv, TypeOK, EntriesTypeOK
<1>2. Stream!Pending \subseteq 1..Len(accepted)
  BY PendingIs
<1>3. IsFiniteSet(T) /\ Cardinality(T) <= Cardinality(Workers)
  BY <1>2, UnderWay, Carried
<1>4. IsFiniteSet(Q) /\ Cardinality(Q) = Len(m_qEntryQueue)
  <2>1. Popped + 1 \in Int /\ Len(accepted) \in Int
    BY <1>1
  <2>2. /\ IsFiniteSet(Q)
        /\ Cardinality(Q) = IF Popped + 1 > Len(accepted) THEN 0
                            ELSE Len(accepted) - (Popped + 1) + 1
    BY <2>1, FS_Interval
  <2> HIDE DEF Q
  <2> QED
    BY <1>1, <2>2
<1>5. Stream!Pending \subseteq T \cup Q
  BY <1>1, <1>2
<1>6. /\ IsFiniteSet(T \cup Q)
      /\ Cardinality(T \cup Q) <= Cardinality(T) + Cardinality(Q)
  <2>1. /\ IsFiniteSet(T \cup Q) /\ IsFiniteSet(T \cap Q)
        /\ Cardinality(T \cup Q) =
             Cardinality(T) + Cardinality(Q) - Cardinality(T \cap Q)
    BY <1>3, <1>4, FS_Union, FS_Intersection
  <2>2. /\ Cardinality(T) \in Nat /\ Cardinality(Q) \in Nat
        /\ Cardinality(T \cap Q) \in Nat
    BY <1>3, <1>4, <2>1, FS_CardinalityType
  <2> QED
    BY <2>1, <2>2
<1>7. /\ IsFiniteSet(Stream!Pending)
      /\ Cardinality(Stream!Pending) <= Cardinality(T \cup Q)
  BY <1>5, <1>6, FS_Subset
<1>8. /\ Cardinality(T) \in Nat /\ Cardinality(Workers) \in Nat
      /\ Cardinality(Stream!Pending) \in Nat /\ Cardinality(T \cup Q) \in Nat
  BY <1>3, <1>6, <1>7, FS_CardinalityType, WorkersAssumption
<1> HIDE DEF T, Q
<1> QED
  BY <1>1, <1>3, <1>4, <1>6, <1>7, <1>8

-----------------------------------------------------------------------------
(* The two steps that show                                                 *)

LEMMA PushAccepts ==
  ASSUME TypeInv, DeliveryInv, NEW c \in Clients, LogPush(c)
  PROVE  [Stream!Next]_<<accepted, written>>
<1>1. CASE accepted' = accepted
  BY <1>1 DEF LogPush
<1>2. CASE HasRoom /\ accepted' = Append(accepted, oMessage[c])
  <2>1. pc[c] = "push"
    BY DEF LogPush, At
  <2>2. oMessage[c] \in Messages
    BY <2>1 DEF TypeInv, HandsFull
  <2>3. oMessage[c] \notin ToSet(accepted)
    BY <2>1, ListSets DEF DeliveryInv, AcceptedInv
  <2>4. Cardinality(Stream!Pending) < MaxEntryCount + Cardinality(Workers)
    <3>1. Len(m_qEntryQueue) \in Nat /\ Len(m_qEntryQueue) + 1 <= MaxEntryCount
      BY <1>2 DEF HasRoom, TypeInv, TypeOK, EntriesTypeOK
    <3>2. Cardinality(Stream!Pending) \in Nat /\ Cardinality(Workers) \in Nat
      BY PendingBound, FS_CardinalityType, WorkersAssumption
    <3> QED
      BY <3>1, <3>2, PendingBound, ConstantsAssumption
  <2>5. written' = written
    BY DEF LogPush
  <2>6. Stream!Accept(oMessage[c])
    BY <1>2, <2>3, <2>4, <2>5, SameCardinality DEF Stream!Accept, Stream!ToSet, ToSet
  <2> QED
    BY <2>2, <2>6 DEF Stream!Next
<1> QED
  BY <1>1, <1>2 DEF LogPush

LEMMA WriteDelivers ==
  ASSUME TypeInv, DeliveryInv, NEW w \in Workers, WorkerWrite(w)
  PROVE  [Stream!Next]_<<accepted, written>>
<1>1. oEntry[w] # NoMessage
  BY ConstantsAssumption DEF WorkerWrite, WorkerAt, TypeInv, HandsFull
<1>2. PICK i \in 1..Popped : accepted[i] = oEntry[w]
  BY <1>1 DEF DeliveryInv, DeliveredInv
<1>3. Popped \in 0..Len(accepted) /\ Len(accepted) \in Nat
  BY DEF Popped, DeliveryInv, QueueInv, TypeInv, TypeOK, EntriesTypeOK
<1>4. i \in Stream!Pending
  BY <1>1, <1>2, <1>3, PendingIs DEF DeliveryInv, DeliveredInv
<1> DEFINE Before == {k \in Stream!Pending : k < i}
<1>5. Cardinality(Before) < Cardinality(Workers)
  <2>1. Before \subseteq 1..Len(accepted)
    BY PendingIs
  <2>2. \A k \in Before : \E v \in Workers \ {w} : oEntry[v] = accepted[k]
    <3> SUFFICES ASSUME NEW k \in Before
                 PROVE  \E v \in Workers \ {w} : oEntry[v] = accepted[k]
      OBVIOUS
    <3>1. k \in 1..Len(accepted) /\ k < i /\ k <= Popped /\ i \in 1..Len(accepted)
      BY <1>3, <2>1
    <3>2. PICK v \in Workers : oEntry[v] = accepted[k]
      BY <3>1, UnderWay
    <3>3. accepted[k] # accepted[i]
      BY <3>1 DEF DeliveryInv, AcceptedInv
    <3> QED
      BY <1>2, <3>2, <3>3
  <2>3. IsFiniteSet(Before) /\ Cardinality(Before) <= Cardinality(Workers \ {w})
    <3> HIDE DEF Before
    <3> QED
      BY <2>1, <2>2, Carried
  <2>4. /\ IsFiniteSet(Workers \ {w})
        /\ Cardinality(Workers \ {w}) = Cardinality(Workers) - 1
    BY WorkersAssumption, FS_RemoveElement
  <2>5. /\ Cardinality(Before) \in Nat /\ Cardinality(Workers) \in Nat
    BY <2>3, WorkersAssumption, FS_CardinalityType
  <2> HIDE DEF Before
  <2> QED
    BY <2>3, <2>4, <2>5
<1>6. written' = Append(written, accepted[i]) /\ accepted' = accepted
  BY <1>2 DEF WorkerWrite, logVars
<1>7. Stream!Deliver(i)
  <2> HIDE DEF Before
  <2>1. Before = {k \in Stream!Pending : k < i}
    BY DEF Before
  <2> QED
    BY <2>1, <1>4, <1>5, <1>6, SameCardinality DEF Stream!Deliver
<1>8. i \in DOMAIN accepted
  BY <1>3, ListSets
<1> QED
  BY <1>7, <1>8 DEF Stream!Next

\* Every other step of a thread leaves the stream as it is.
LEMMA StreamStep ==
  TypeInv /\ DeliveryInv /\ [Next]_vars => [Stream!Next]_<<accepted, written>>
<1> SUFFICES ASSUME TypeInv, DeliveryInv, [Next]_vars
             PROVE  [Stream!Next]_<<accepted, written>>
  OBVIOUS
<1>1. ASSUME NEW c \in Clients, NEW m \in Messages, Log(c, m)
      PROVE  UNCHANGED <<accepted, written>>
  BY <1>1 DEF Log
<1>2. ASSUME NEW w \in Workers, WorkerAcquire(w)
      PROVE  UNCHANGED <<accepted, written>>
  BY <1>2 DEF WorkerAcquire, logVars
<1> QED
  BY <1>1, <1>2, EntrySteps, PushAccepts, WriteDelivers

\* Whatever the threads of the application and of the logger do, the messages
\* run through it as a stream of bounded backlog, each once at most and
\* overtaken by fewer others than there are workers.
THEOREM StreamImplemented == Spec => ImplementsStream
<1>1. Init => Stream!Init
  BY DEF Init, Stream!Init
<1> QED
  BY <1>1, StreamStep, DeliverySafe, PTL
     DEF Spec, ImplementsStream, Stream!Spec
=============================================================================
