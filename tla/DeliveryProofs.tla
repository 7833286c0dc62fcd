--------------------------- MODULE DeliveryProofs ---------------------------
(***************************************************************************)
(* What follows from Delivery's promise alone.  Consumer and Pipeline      *)
(* implement it (ConsumerProofs, PipelineProofs), so what is proved here   *)
(* holds of both.                                                          *)
(***************************************************************************)
EXTENDS Delivery, TLAPS

\* events.raw is keyed by event_id, and every id has one partition.
Keyed == PartitionOf \in [Events -> Partitions]

Typed ==
  /\ log \in [Partitions -> Seq(Message)]
  /\ acked \in [Partitions -> Nat]

\* consumer/main.py:106-109, an offset "is only committed after the message has
\* been durably handled": a restart from it skips no message that is neither
\* stored nor in the DLQ.
AckedAreSafe ==
  \A p \in Partitions :
    acked[p] <= Len(log[p]) /\ \A n \in 1..acked[p] : Safe(p, n)

\* A row of the events table, and an entry of the DLQ, is that of a message that
\* was published: neither is made up on the way.
NothingFromNowhere ==
  /\ \A e \in stored : \E p \in Partitions : \E n \in Published(p) :
       log[p][n] = [event |-> e, kind |-> "valid"]
  /\ \A s \in dead : s[1] \in Partitions /\ s[2] \in Published(s[1])

\* All the messages of an event are in its own partition, so they are
\* acknowledged one after another (app/kafka/producer.py:46, the key is the event id).
OnePartitionPerEvent ==
  \A p \in Partitions : \A n \in Published(p) : PartitionOf[log[p][n].event] = p

\* Nothing is taken back: what was published stays where it is, a row or an
\* entry stays, and a partition is acknowledged one message at a time.
Forward ==
  /\ stored \subseteq stored' /\ dead \subseteq dead'
  /\ \A p \in Partitions :
       /\ acked'[p] \in {acked[p], acked[p] + 1}
       /\ Len(log[p]) <= Len(log'[p])
       /\ \A n \in Published(p) : log'[p][n] = log[p][n]

Kept == Typed /\ AckedAreSafe /\ NothingFromNowhere /\ OnePartitionPerEvent

-----------------------------------------------------------------------------
(* The operations                                                          *)

LEMMA Places ==
  ASSUME Typed, NEW p \in Partitions
  PROVE  /\ Len(log[p]) \in Nat /\ acked[p] \in Nat
         /\ \A n \in Published(p) : log[p][n] \in Message
BY DEF Typed, Published

\* A message goes to the end of its partition.
LEMMA PublishForward ==
  ASSUME Keyed, Typed, NEW m \in Message, Publish(m)
  PROVE  /\ Typed' /\ Forward
         /\ LET q == PartitionOf[m.event] IN
              /\ q \in Partitions
              /\ Len(log'[q]) = Len(log[q]) + 1
              /\ log'[q][Len(log[q]) + 1] = m
              /\ \A p \in Partitions \ {q} : log'[p] = log[p]
<1> DEFINE q == PartitionOf[m.event]
<1>1. q \in Partitions
  BY DEF Keyed, Message
<1>2. /\ log \in [Partitions -> Seq(Message)]
      /\ log' = [log EXCEPT ![q] = Append(@, m)]
      /\ UNCHANGED <<acked, stored, dead>>
  BY DEF Typed, Publish
<1>3. Typed'
  BY <1>1, <1>2 DEF Typed
<1>4. /\ Len(log'[q]) = Len(log[q]) + 1
      /\ log'[q][Len(log[q]) + 1] = m
      /\ \A n \in 1..Len(log[q]) : log'[q][n] = log[q][n]
  BY <1>1, <1>2
<1>5. \A p \in Partitions \ {q} : log'[p] = log[p]
  BY <1>1, <1>2
<1>6. Forward
  <2> SUFFICES ASSUME NEW p \in Partitions
               PROVE  /\ acked'[p] \in {acked[p], acked[p] + 1}
                      /\ Len(log[p]) <= Len(log'[p])
                      /\ \A n \in Published(p) : log'[p][n] = log[p][n]
    BY <1>2 DEF Forward
  <2>1. Len(log[p]) \in Nat
    BY Places
  <2> QED
    BY <1>2, <1>4, <1>5, <2>1 DEF Published
<1> QED
  BY <1>1, <1>3, <1>4, <1>5, <1>6

LEMMA StepForward ==
  ASSUME Keyed, Typed, [Next]_vars
  PROVE  Typed' /\ Forward
<1>1. CASE \E m \in Message : Publish(m)
  BY <1>1, PublishForward
<1>2. CASE \E p \in Partitions : \E n \in Published(p) : Store(p, n) \/ Bury(p, n)
  BY <1>2, Places DEF Store, Bury, Typed, Forward
<1>3. CASE \E p \in Partitions : Ack(p)
  BY <1>3, Places DEF Ack, Typed, Forward
<1>4. CASE UNCHANGED vars
  BY <1>4, Places DEF vars, Typed, Forward
<1> QED
  BY <1>1, <1>2, <1>3, <1>4 DEF Next

\* What is safe stays safe: no step takes a row or an entry away.
LEMMA SafeStays ==
  ASSUME Typed, Forward, NEW p \in Partitions, NEW n \in Published(p), Safe(p, n)
  PROVE  Safe(p, n)' /\ n \in Published(p)'
<1>1. Len(log[p]) \in Nat /\ Len(log[p]) <= Len(log'[p]) /\ log'[p][n] = log[p][n]
  BY Places DEF Forward
<1> QED
  BY <1>1 DEF Safe, Forward, Published

-----------------------------------------------------------------------------
(* The invariant                                                           *)

LEMMA KeptInit == Init => Kept
BY DEF Init, Kept, Typed, AckedAreSafe, NothingFromNowhere, OnePartitionPerEvent, Published

\* Acknowledged messages are safe: the next one was when it was acknowledged.
LEMMA AckedAreSafeKept ==
  ASSUME Keyed, Kept, [Next]_vars
  PROVE  AckedAreSafe'
<1>1. Typed /\ Typed' /\ Forward
  BY StepForward DEF Kept
<1> SUFFICES ASSUME NEW p \in Partitions
             PROVE  /\ acked'[p] <= Len(log'[p])
                    /\ \A n \in 1..acked'[p] : Safe(p, n)'
  BY DEF AckedAreSafe
<1>2. /\ Len(log[p]) \in Nat /\ Len(log'[p]) \in Nat /\ acked[p] \in Nat
      /\ Len(log[p]) <= Len(log'[p])
  BY <1>1, Places DEF Typed, Forward
<1>3. acked[p] <= Len(log[p]) /\ \A n \in 1..acked[p] : Safe(p, n)
  BY DEF Kept, AckedAreSafe
<1>4. \A n \in Published(p) : Safe(p, n) => Safe(p, n)'
  BY <1>1, SafeStays
<1>5. CASE acked'[p] = acked[p]
  BY <1>2, <1>3, <1>4, <1>5 DEF Published
<1>6. CASE acked'[p] # acked[p]
  <2>1. PICK q \in Partitions : Ack(q)
    BY <1>6 DEF Next, Publish, Store, Bury, vars
  <2>2. /\ acked'[p] = acked[p] + 1
        /\ acked[p] + 1 \in Published(p) /\ Safe(p, acked[p] + 1)
    BY <1>1, <1>6, <2>1 DEF Ack, Typed
  <2> QED
    BY <1>2, <1>3, <1>4, <2>2 DEF Published
<1> QED
  BY <1>5, <1>6

\* A row comes from the message it was stored for, and messages stay.
LEMMA NothingFromNowhereKept ==
  ASSUME Keyed, Kept, [Next]_vars
  PROVE  NothingFromNowhere'
<1>1. Typed /\ Forward
  BY StepForward DEF Kept
<1>2. ASSUME NEW p \in Partitions
      PROVE  Published(p) \subseteq Published(p)'
  BY <1>1, Places, StepForward DEF Forward, Published, Typed
<1> DEFINE hasRow(e) == \E p \in Partitions : \E n \in Published(p) :
                          log[p][n] = [event |-> e, kind |-> "valid"]
           hasRowNext(e) == \E p \in Partitions : \E n \in Published(p)' :
                              log'[p][n] = [event |-> e, kind |-> "valid"]
<1>3. \A e : hasRow(e) => hasRowNext(e)
  BY <1>1, <1>2 DEF Forward
<1>4. \A e \in stored' : e \in stored \/ hasRow(e)
  <2> SUFFICES ASSUME NEW e \in stored', e \notin stored
               PROVE  hasRow(e)
    OBVIOUS
  <2>1. PICK p \in Partitions : \E n \in Published(p) : Store(p, n)
    BY DEF Next, Publish, Ack, Bury, vars
  <2>2. PICK n \in Published(p) : Store(p, n)
    BY <2>1
  <2>3. log[p][n].kind = "valid" /\ e = log[p][n].event
    BY <2>2 DEF Store
  <2>4. log[p][n] \in Message
    BY <1>1, Places
  <2>5. log[p][n] = [event |-> e, kind |-> "valid"]
    BY <2>3, <2>4 DEF Message
  <2> QED BY <2>5
<1>5. \A s \in dead' : s[1] \in Partitions /\ s[2] \in Published(s[1])
  <2> SUFFICES ASSUME NEW s \in dead', s \notin dead
               PROVE  s[1] \in Partitions /\ s[2] \in Published(s[1])
    BY DEF Kept, NothingFromNowhere
  <2>1. PICK p \in Partitions : \E n \in Published(p) : Bury(p, n)
    BY DEF Next, Publish, Ack, Store, vars
  <2>2. PICK n \in Published(p) : Bury(p, n)
    BY <2>1
  <2>3. s = <<p, n>>
    BY <2>2 DEF Bury
  <2> QED BY <2>3
<1>6. \A e \in stored' : hasRowNext(e)
  BY <1>3, <1>4 DEF Kept, NothingFromNowhere
<1> QED
  BY <1>2, <1>5, <1>6 DEF NothingFromNowhere

\* A new message is on the partition of its event.
LEMMA OnePartitionKept ==
  ASSUME Keyed, Kept, [Next]_vars
  PROVE  OnePartitionPerEvent'
<1>1. Typed /\ Forward
  BY StepForward DEF Kept
<1> SUFFICES ASSUME NEW p \in Partitions, NEW n \in Published(p)'
             PROVE  PartitionOf[log'[p][n].event] = p
  BY DEF OnePartitionPerEvent
<1>2. CASE n \in Published(p)
  BY <1>1, <1>2 DEF Forward, Kept, OnePartitionPerEvent
<1>3. CASE n \notin Published(p)
  <2>1. PICK m \in Message : Publish(m)
    BY <1>3 DEF Next, Store, Bury, Ack, vars, Published
  <2> DEFINE q == PartitionOf[m.event]
  <2>2. /\ Len(log'[q]) = Len(log[q]) + 1
        /\ log'[q][Len(log[q]) + 1] = m
        /\ \A r \in Partitions \ {q} : log'[r] = log[r]
    BY <1>1, <2>1, PublishForward
  <2>3. p = q
    BY <1>3, <2>2 DEF Published
  <2>4. n = Len(log[p]) + 1
    BY <1>1, <1>3, <2>2, <2>3, Places DEF Published
  <2> QED
    BY <2>2, <2>3, <2>4
<1> QED
  BY <1>2, <1>3

LEMMA KeptStep == Keyed /\ Kept /\ [Next]_vars => Kept'
BY StepForward, AckedAreSafeKept, NothingFromNowhereKept, OnePartitionKept DEF Kept

LEMMA KeptHolds == ASSUME Keyed PROVE Spec => []Kept
BY KeptInit, KeptStep, PTL DEF Spec

-----------------------------------------------------------------------------
(* Theorems                                                                *)

\* Acknowledging in order and only what is safe keeps the whole acknowledged
\* prefix safe (consumer/main.py:106-109).
THEOREM PromiseKeepsAcked == ASSUME Keyed PROVE Spec => []AckedAreSafe
<1>1. Kept => AckedAreSafe
  BY DEF Kept
<1> QED
  BY <1>1, KeptHolds, PTL

\* Every row and every DLQ entry is that of a published message.
THEOREM PromiseInventsNothing == ASSUME Keyed PROVE Spec => []NothingFromNowhere
<1>1. Kept => NothingFromNowhere
  BY DEF Kept
<1> QED
  BY <1>1, KeptHolds, PTL

\* An event is never on two partitions (app/kafka/producer.py:46).
THEOREM PromiseKeepsPartitions == ASSUME Keyed PROVE Spec => []OnePartitionPerEvent
<1>1. Kept => OnePartitionPerEvent
  BY DEF Kept
<1> QED
  BY <1>1, KeptHolds, PTL

\* Logs, rows, entries and acknowledgements only go forward.
THEOREM PromiseGoesForward == ASSUME Keyed PROVE Spec => [][Forward]_vars
<1>1. Kept /\ [Next]_vars => [Forward]_vars
  BY StepForward DEF Kept
<1> QED
  BY <1>1, KeptHolds, PTL DEF Spec
=============================================================================
