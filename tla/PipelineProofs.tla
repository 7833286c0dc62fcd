--------------------------- MODULE PipelineProofs ---------------------------
(***************************************************************************)
(* Proofs about Pipeline: what the API's answers stand for, and that the   *)
(* API, the consumer and the replay script together keep the promise of    *)
(* Delivery, for any partitions, events, requests and bounds.              *)
(***************************************************************************)
EXTENDS Pipeline, FiniteSetTheorems, TLAPS

\* The consumer acknowledges nothing that is neither stored nor dead.
AckedSafe ==
  \A p \in Partitions :
    acked[p] <= Len(log[p]) /\ \A n \in 1..acked[p] : D!Safe(p, n)

\* Whatever was published again passes EventCreate.
ReplayedValid == \A s \in replayed : Replayable(s)

Inv ==
  /\ TypeOK
  /\ AckedSafe
  /\ ReplayedValid
  /\ AcceptedNeverOvercounts
  /\ ConflictMeansStored

\* Logs, rows and DLQ entries are only added to.
Grows ==
  /\ stored \subseteq stored' /\ dead \subseteq dead'
  /\ log' \in [Partitions -> Seq(D!Message)]
  /\ \A p \in Partitions :
       /\ Len(log[p]) <= Len(log'[p])
       /\ \A n \in 1..Len(log[p]) : log'[p][n] = log[p][n]

-----------------------------------------------------------------------------
(* Lemmas about a message that is published                                *)

\* It goes to the end of the log of its partition.
LEMMA PublishAppends ==
  ASSUME TypeOK, NEW m \in D!Message, D!Publish(m)
  PROVE  /\ Grows
         /\ LET p == PartitionOf[m.event] IN
              /\ p \in Partitions
              /\ Len(log'[p]) = Len(log[p]) + 1
              /\ log'[p][Len(log[p]) + 1] = m
              /\ \A q \in Partitions \ {p} : log'[q] = log[q]
<1> DEFINE p == PartitionOf[m.event]
<1>1. p \in Partitions
  BY PipelineConstants DEF D!Message
<1>2. /\ log \in [Partitions -> Seq(D!Message)]
      /\ log' = [log EXCEPT ![p] = Append(@, m)]
      /\ stored' = stored /\ dead' = dead
  BY DEF TypeOK, D!Publish
<1>3. log' \in [Partitions -> Seq(D!Message)]
  BY <1>1, <1>2
<1>4. /\ Len(log'[p]) = Len(log[p]) + 1
      /\ log'[p][Len(log[p]) + 1] = m
      /\ \A n \in 1..Len(log[p]) : log'[p][n] = log[p][n]
  BY <1>1, <1>2
<1>5. \A q \in Partitions \ {p} : log'[q] = log[q]
  BY <1>1, <1>2
<1> QED
  BY <1>1, <1>2, <1>3, <1>4, <1>5 DEF Grows

\* The copies of an event are places in its log, a finite set.
LEMMA CopiesFinite ==
  ASSUME TypeOK, NEW e \in Events
  PROVE  IsFiniteSet(Copies(e)) /\ Cardinality(Copies(e)) \in Nat
<1>1. PartitionOf[e] \in Partitions
  BY PipelineConstants
<1>2. Len(log[PartitionOf[e]]) \in Nat
  BY <1>1 DEF TypeOK
<1>3. IsFiniteSet(1..Len(log[PartitionOf[e]]))
  BY <1>2, FS_Interval
<1>4. Copies(e) \subseteq 1..Len(log[PartitionOf[e]])
  BY DEF Copies
<1> QED
  BY <1>3, <1>4, FS_Subset, FS_CardinalityType

\* The same in the next state.
LEMMA CopiesFiniteNext ==
  ASSUME TypeOK', NEW e \in Events
  PROVE  IsFiniteSet(Copies(e)') /\ Cardinality(Copies(e)') \in Nat
<1>1. Len(log'[PartitionOf[e]]) \in Nat
  BY PipelineConstants DEF TypeOK
<1>2. IsFiniteSet(1..Len(log'[PartitionOf[e]]))
  BY <1>1, FS_Interval
<1>3. Copies(e)' \subseteq 1..Len(log'[PartitionOf[e]])
  BY DEF Copies
<1> QED
  BY <1>2, <1>3, FS_Subset, FS_CardinalityType

\* No event loses a copy.
LEMMA CopiesKept ==
  ASSUME TypeOK, TypeOK', Grows, NEW e \in Events
  PROVE  Cardinality(Copies(e)) <= Cardinality(Copies(e)')
<1>1. PartitionOf[e] \in Partitions
  BY PipelineConstants
<1>2. Copies(e) \subseteq Copies(e)'
  BY <1>1 DEF Copies, Grows, TypeOK
<1>3. IsFiniteSet(Copies(e)')
  BY CopiesFiniteNext
<1> QED
  BY <1>2, <1>3, FS_Subset

\* A valid message is one more copy of its event.
LEMMA CopyAdded ==
  ASSUME TypeOK, NEW e \in Events, PublishValid(e)
  PROVE  Cardinality(Copies(e)') = Cardinality(Copies(e)) + 1
<1> DEFINE m == [event |-> e, kind |-> "valid"]
           l == log[PartitionOf[e]]
<1>1. m \in D!Message /\ D!Publish(m)
  BY DEF D!Message, Kinds, PublishValid
<1>2. /\ PartitionOf[e] \in Partitions
      /\ Len(log'[PartitionOf[e]]) = Len(l) + 1
      /\ log'[PartitionOf[e]][Len(l) + 1] = m
      /\ \A n \in 1..Len(l) : log'[PartitionOf[e]][n] = l[n]
  BY <1>1, PublishAppends DEF Grows
<1>3. Len(l) \in Nat
  BY <1>2 DEF TypeOK
<1>4. Copies(e)' = Copies(e) \cup {Len(l) + 1}
  BY <1>2, <1>3 DEF Copies
<1>5. Len(l) + 1 \notin Copies(e)
  BY <1>3 DEF Copies
<1> QED
  BY <1>4, <1>5, CopiesFinite, FS_AddElement

-----------------------------------------------------------------------------
(* What a growing log keeps                                                *)

\* A place in the log stays one and keeps its message.
LEMMA PlacesKept ==
  ASSUME TypeOK, Grows, NEW s, InLog(s)
  PROVE  InLog(s)' /\ MessageAt(s)' = MessageAt(s)
BY DEF TypeOK, Grows, InLog, MessageAt

\* What was acknowledged safely stays safe.
LEMMA AckedKept ==
  ASSUME TypeOK, AckedSafe, Grows, acked' = acked
  PROVE  AckedSafe'
<1> SUFFICES ASSUME NEW p \in Partitions
             PROVE  /\ acked[p] <= Len(log'[p])
                    /\ \A n \in 1..acked[p] : D!Safe(p, n)'
  BY DEF AckedSafe
<1>1. acked[p] <= Len(log[p]) /\ Len(log[p]) <= Len(log'[p])
  BY DEF AckedSafe, Grows
<1>2. /\ acked[p] \in Nat /\ Len(log[p]) \in Nat
      /\ log'[p] \in Seq(D!Message)
  BY DEF TypeOK, Grows
<1>3. ASSUME NEW n \in 1..acked[p]
      PROVE  D!Safe(p, n)'
  <2>1. n \in 1..Len(log[p])
    BY <1>1, <1>2
  <2>2. log'[p][n] = log[p][n]
    BY <2>1 DEF Grows
  <2> QED
    BY <2>2 DEF AckedSafe, Grows, D!Safe
<1> QED
  BY <1>1, <1>2, <1>3

\* The answers 202 still have their copies.
LEMMA AcceptedKept ==
  ASSUME TypeOK, TypeOK', AcceptedNeverOvercounts, Grows, accepted' = accepted
  PROVE  AcceptedNeverOvercounts'
<1> SUFFICES ASSUME NEW e \in Events
             PROVE  accepted[e] <= Cardinality(Copies(e)')
  BY DEF AcceptedNeverOvercounts
<1>1. accepted[e] <= Cardinality(Copies(e))
  BY DEF AcceptedNeverOvercounts
<1>2. Cardinality(Copies(e)) <= Cardinality(Copies(e)')
  BY CopiesKept
<1>3. Cardinality(Copies(e)) \in Nat /\ Cardinality(Copies(e)') \in Nat
  BY CopiesFinite, CopiesFiniteNext
<1> QED
  BY <1>1, <1>2, <1>3 DEF TypeOK

\* A step that changes none of the logs, rows and entries.
LEMMA SameGrows ==
  ASSUME TypeOK, UNCHANGED deliveryVars
  PROVE  Grows
BY DEF TypeOK, Grows, deliveryVars

-----------------------------------------------------------------------------
(* Types                                                                   *)

\* What a step does to the table, the API and the script, types apart from
\* those of the logs.
StepTyped ==
  /\ acked' \in [Partitions -> Nat] /\ stored' \subseteq Events
  /\ \A s \in dead' : s \in dead \/ InLog(s)'
  /\ dlq' \in Seq(dead') /\ Len(dlq) <= Len(dlq')
  /\ \A i \in 1..Len(dlq) : dlq'[i] = dlq[i]
  /\ precheck' \in BOOLEAN /\ stage' \in [Requests -> Stages]
  /\ subject' \in [Requests -> Events] /\ accepted' \in [Events -> Nat]
  /\ conflicts' \subseteq Events
  /\ \A i \in listed' : i \in 1..Len(dlq) /\ Replayable(dlq[i])
  /\ \A s \in replayed' : s \in replayed \/ (InLog(s)' /\ Replayable(s)')
  /\ posts' \in 0..MaxPosts /\ budget' \in 0..MaxFaults

\* Such a step keeps the types if the logs grow.
LEMMA TypesKept ==
  ASSUME TypeOK, Grows, StepTyped
  PROVE  TypeOK'
<1>1. \A s : InLog(s) => InLog(s)' /\ MessageAt(s)' = MessageAt(s)
  BY PlacesKept
<1>2. \A s \in dead' \cup replayed' : InLog(s)'
  BY <1>1 DEF TypeOK, StepTyped
<1>3. ASSUME NEW i \in listed'
      PROVE  i \in 1..Len(dlq') /\ Replayable(dlq[i])'
  <2>1. i \in 1..Len(dlq) /\ Replayable(dlq[i]) /\ dlq'[i] = dlq[i]
    BY DEF StepTyped
  <2>2. Len(dlq) \in Nat /\ Len(dlq') \in Nat /\ Len(dlq) <= Len(dlq')
    BY DEF TypeOK, StepTyped
  <2>3. InLog(dlq[i])
    BY <2>1 DEF TypeOK
  <2>4. MessageAt(dlq[i])' = MessageAt(dlq[i])
    BY <2>1, <2>3, <1>1 DEF MessageAt
  <2> QED
    BY <2>1, <2>2, <2>4 DEF Replayable
<1>4. log' \in [Partitions -> Seq(D!Message)]
  BY DEF Grows
<1> QED
  BY <1>2, <1>3, <1>4 DEF TypeOK, StepTyped

\* What was published again stays valid.
LEMMA ReplayedKept ==
  ASSUME TypeOK, ReplayedValid, Grows, StepTyped
  PROVE  ReplayedValid'
<1> SUFFICES ASSUME NEW s \in replayed', s \in replayed
             PROVE  Replayable(s)'
  BY DEF StepTyped, ReplayedValid
<1>1. InLog(s) /\ Replayable(s)
  BY DEF TypeOK, ReplayedValid
<1> QED
  BY <1>1, PlacesKept DEF Replayable

-----------------------------------------------------------------------------
(* The invariant, action by action                                         *)

\* A growing step that acknowledges and accepts nothing.
LEMMA Preserved ==
  ASSUME Inv, Grows, StepTyped, acked' = acked, accepted' = accepted,
         conflicts' \subseteq conflicts \cup stored
  PROVE  Inv'
<1>1. TypeOK'
  BY TypesKept DEF Inv
<1>2. AckedSafe'
  BY AckedKept DEF Inv
<1>3. AcceptedNeverOvercounts'
  BY <1>1, AcceptedKept DEF Inv
<1>4. ConflictMeansStored' /\ ReplayedValid'
  BY ReplayedKept DEF Inv, ConflictMeansStored, Grows
<1> QED
  BY <1>1, <1>2, <1>3, <1>4 DEF Inv

\* The steps of the API and of the script that publish nothing.
LEMMA QuietSteps ==
  ASSUME Inv,
         \/ \E r \in Requests : Conflict(r) \/ Pass(r) \/ CheckFails(r)
         \/ \E r \in Requests, e \in Events : Post(r, e)
         \/ Replay \/ ReplayFails
  PROVE  Inv'
<1> USE DEF Inv
<1>1. /\ UNCHANGED <<deliveryVars, dlq, precheck, accepted, replayed>>
      /\ stage' \in [Requests -> Stages] /\ subject' \in [Requests -> Events]
      /\ conflicts' \subseteq conflicts \cup stored
      /\ listed' \subseteq listed \cup {i \in 1..Len(dlq) : Replayable(dlq[i])}
      /\ posts' \in 0..MaxPosts /\ budget' \in 0..MaxFaults
  <2>1. CASE \E r \in Requests : Conflict(r) \/ Pass(r) \/ CheckFails(r)
    <3>1. PICK r \in Requests : Conflict(r) \/ Pass(r) \/ CheckFails(r)
      BY <2>1
    <3>2. CASE Conflict(r)
      BY <3>2 DEF Conflict, TypeOK, Goto, Stages, bounds, scriptVars
    <3>3. CASE Pass(r)
      BY <3>3 DEF Pass, TypeOK, Goto, Stages, bounds, scriptVars
    <3>4. CASE CheckFails(r)
      BY <3>4, PipelineConstants
      DEF CheckFails, TypeOK, Goto, Stages, Spend, scriptVars
    <3> QED
      BY <3>1, <3>2, <3>3, <3>4
  <2>2. CASE \E r \in Requests, e \in Events : Post(r, e)
    BY <2>2, PipelineConstants DEF Post, TypeOK, Goto, Stages, scriptVars
  <2>3. CASE Replay
    BY <2>3, PipelineConstants DEF Replay, Oldest, TypeOK, Spend, apiVars
  <2>4. CASE ReplayFails
    BY <2>4, PipelineConstants DEF ReplayFails, TypeOK, Spend, apiVars
  <2> QED
    BY <2>1, <2>2, <2>3, <2>4
<1>2. Grows
  BY <1>1, SameGrows
<1>3. StepTyped
  BY <1>1 DEF TypeOK, StepTyped, deliveryVars
<1> QED
  BY <1>1, <1>2, <1>3, Preserved DEF deliveryVars

\* The steps that publish and accept nothing.
LEMMA PublishingSteps ==
  ASSUME Inv,
         \/ \E r \in Requests : PublishAgain(r) \/ PublishFails(r)
         \/ \E e \in Events : Stray(e)
         \/ Republish
  PROVE  Inv'
<1> USE DEF Inv
<1>1. ASSUME NEW m \in D!Message, D!Publish(m),
             UNCHANGED <<dlq, precheck, subject, accepted, conflicts>>,
             stage' \in [Requests -> Stages],
             listed' \subseteq listed,
             \A s \in replayed' : s \in replayed \/ (s = NextSlot(m.event) /\ m.kind = "valid"),
             posts' \in 0..MaxPosts, budget' \in 0..MaxFaults
      PROVE  Inv'
  <2>1. Grows
    BY <1>1, PublishAppends
  <2>2. UNCHANGED <<acked, stored, dead>>
    BY <1>1 DEF D!Publish
  <2>3. \A s \in replayed' : s \in replayed \/ (InLog(s)' /\ Replayable(s)')
    <3>1. /\ PartitionOf[m.event] \in Partitions
          /\ Len(log'[PartitionOf[m.event]]) = Len(log[PartitionOf[m.event]]) + 1
          /\ log'[PartitionOf[m.event]][Len(log[PartitionOf[m.event]]) + 1] = m
      BY <1>1, PublishAppends
    <3>2. Len(log[PartitionOf[m.event]]) \in Nat
      BY <3>1 DEF TypeOK
    <3>3. ASSUME NEW s, s = NextSlot(m.event), m.kind = "valid"
          PROVE  InLog(s)' /\ Replayable(s)'
      BY <3>1, <3>2, <3>3 DEF InLog, NextSlot, Replayable, MessageAt
    <3> QED
      BY <1>1, <3>3
  <2>4. StepTyped
    BY <1>1, <2>2, <2>3 DEF TypeOK, StepTyped
  <2> QED
    BY <1>1, <2>1, <2>2, <2>4, Preserved
<1> DEFINE valid(e) == [event |-> e, kind |-> "valid"]
<1>2. \A e \in Events : valid(e) \in D!Message
  BY DEF D!Message, Kinds
<1>3. CASE \E r \in Requests : PublishAgain(r)
  <2>1. PICK r \in Requests : PublishAgain(r)
    BY <1>3
  <2>2. /\ subject[r] \in Events /\ D!Publish(valid(subject[r]))
        /\ UNCHANGED <<dlq, precheck, stage, subject, accepted, conflicts, listed, replayed>>
        /\ posts' \in 0..MaxPosts /\ budget' \in 0..MaxFaults
    BY <2>1, PipelineConstants
    DEF PublishAgain, PublishValid, Spend, TypeOK, apiVars, scriptVars
  <2> QED
    BY <2>2, <1>1, <1>2 DEF TypeOK
<1>4. CASE \E r \in Requests : PublishFails(r)
  <2>1. PICK r \in Requests : PublishFails(r)
    BY <1>4
  <2>2. /\ subject[r] \in Events
        /\ UNCHANGED deliveryVars \/ D!Publish(valid(subject[r]))
        /\ UNCHANGED <<dlq, precheck, subject, accepted, conflicts, listed, replayed>>
        /\ stage' \in [Requests -> Stages]
        /\ posts' \in 0..MaxPosts /\ budget' \in 0..MaxFaults
    BY <2>1, PipelineConstants
    DEF PublishFails, PublishValid, Goto, Stages, Spend, TypeOK, scriptVars
  <2>3. CASE UNCHANGED deliveryVars
    <3>1. Grows
      BY <2>3, SameGrows
    <3>2. StepTyped
      BY <2>2, <2>3 DEF TypeOK, StepTyped, deliveryVars
    <3> QED
      BY <2>2, <2>3, <3>1, <3>2, Preserved DEF deliveryVars
  <2>4. CASE D!Publish(valid(subject[r]))
    BY <2>2, <2>4, <1>1, <1>2
  <2> QED
    BY <2>2, <2>3, <2>4
<1>5. CASE \E e \in Events : Stray(e)
  <2>1. PICK e \in Events : Stray(e)
    BY <1>5
  <2> DEFINE m == [event |-> e, kind |-> "refused"]
  <2>2. /\ m \in D!Message /\ D!Publish(m)
        /\ UNCHANGED <<dlq, precheck, stage, subject, accepted, conflicts, listed, replayed>>
        /\ posts' \in 0..MaxPosts /\ budget' \in 0..MaxFaults
    BY <2>1, PipelineConstants
    DEF Stray, TypeOK, apiVars, scriptVars, D!Message, Kinds
  <2> QED
    BY <2>2, <1>1 DEF TypeOK
<1>6. CASE Republish
  <2>1. PICK i \in listed :
          /\ D!Publish(MessageAt(dlq[i]))
          /\ replayed' = replayed \cup {NextSlot(MessageAt(dlq[i]).event)}
          /\ listed' = listed \ {i}
          /\ UNCHANGED <<dlq, apiVars, bounds>>
    BY <1>6 DEF Republish
  <2>2. InLog(dlq[i])
    BY DEF TypeOK
  <2>3. MessageAt(dlq[i]) \in D!Message /\ MessageAt(dlq[i]).kind = "valid"
    BY <2>2 DEF InLog, MessageAt, TypeOK, Replayable
  <2> QED
    BY <2>1, <2>3, <1>1 DEF TypeOK, apiVars, bounds
<1> QED
  BY <1>3, <1>4, <1>5, <1>6

\* The answer 202: one more accepted, and one more copy.
LEMMA AcceptStep ==
  ASSUME Inv, NEW r \in Requests, Accept(r)
  PROVE  Inv'
<1> USE DEF Inv
<1> DEFINE e == subject[r]
           m == [event |-> e, kind |-> "valid"]
<1>1. /\ e \in Events /\ PublishValid(e)
      /\ accepted' = [accepted EXCEPT ![e] = @ + 1]
      /\ UNCHANGED <<dlq, precheck, subject, conflicts, listed, replayed, posts, budget>>
      /\ stage' \in [Requests -> Stages]
  BY DEF Accept, TypeOK, Goto, Stages, scriptVars, bounds
<1>2. /\ m \in D!Message /\ D!Publish(m)
      /\ UNCHANGED <<acked, stored, dead>>
  BY <1>1 DEF D!Message, D!Publish, Kinds, PublishValid
<1>3. Grows
  BY <1>2, PublishAppends
<1>4. StepTyped
  BY <1>1, <1>2 DEF TypeOK, StepTyped
<1>5. TypeOK' /\ AckedSafe' /\ ReplayedValid'
  BY <1>2, <1>3, <1>4, TypesKept, AckedKept, ReplayedKept
<1>6. ASSUME NEW x \in Events
      PROVE  accepted'[x] <= Cardinality(Copies(x)')
  <2>1. /\ accepted[x] <= Cardinality(Copies(x)) /\ accepted[x] \in Nat
        /\ Cardinality(Copies(x)) \in Nat /\ Cardinality(Copies(x)') \in Nat
    BY <1>5, CopiesFinite, CopiesFiniteNext DEF AcceptedNeverOvercounts, TypeOK
  <2>2. CASE x = e
    <3>1. Cardinality(Copies(x)') = Cardinality(Copies(x)) + 1
      BY <1>1, <2>2, CopyAdded
    <3>2. accepted'[x] = accepted[x] + 1
      BY <1>1, <2>2 DEF TypeOK
    <3> QED
      BY <2>1, <3>1, <3>2
  <2>3. CASE x # e
    <3>1. Cardinality(Copies(x)) <= Cardinality(Copies(x)')
      BY <1>3, <1>5, CopiesKept
    <3>2. accepted'[x] = accepted[x]
      BY <1>1, <2>3 DEF TypeOK
    <3> QED
      BY <2>1, <3>1, <3>2
  <2> QED
    BY <2>2, <2>3
<1>7. ConflictMeansStored'
  BY <1>1, <1>2 DEF ConflictMeansStored
<1> QED
  BY <1>5, <1>6, <1>7 DEF AcceptedNeverOvercounts

\* The consumer stores or buries a message, or acknowledges the next one.
LEMMA ConsumerSteps ==
  ASSUME Inv, NEW p \in Partitions, Consume(p)
  PROVE  Inv'
<1> USE DEF Inv
<1>1. CASE \E n \in 1..Len(log[p]) : Store(p, n)
  <2>1. PICK n \in 1..Len(log[p]) : Store(p, n)
    BY <1>1
  <2>2. /\ stored' = stored \cup {log[p][n].event}
        /\ UNCHANGED <<log, acked, dead, dlq, apiVars, scriptVars, bounds>>
    BY <2>1 DEF Store, D!Store
  <2>3. log[p][n].event \in Events
    <3>1. log[p] \in Seq(D!Message)
      BY DEF TypeOK
    <3>2. log[p][n] \in D!Message
      BY <3>1
    <3> QED
      BY <3>2 DEF D!Message
  <2>4. Grows
    BY <2>2 DEF Grows, TypeOK
  <2>5. StepTyped
    BY <2>2, <2>3 DEF StepTyped, TypeOK, apiVars, scriptVars, bounds
  <2> QED
    BY <2>2, <2>4, <2>5, Preserved DEF apiVars
<1>2. CASE \E n \in 1..Len(log[p]) : Bury(p, n)
  <2>1. PICK n \in 1..Len(log[p]) : Bury(p, n)
    BY <1>2
  <2>2. /\ dead' = dead \cup {<<p, n>>} /\ dlq' = Append(dlq, <<p, n>>)
        /\ UNCHANGED <<log, acked, stored, apiVars, scriptVars, posts>>
        /\ budget' \in 0..MaxFaults
    BY <2>1, PipelineConstants DEF Bury, D!Bury, Spend, TypeOK
  <2>3. InLog(<<p, n>>)'
    BY <2>2 DEF InLog
  <2>4. /\ dlq' \in Seq(dead') /\ Len(dlq') = Len(dlq) + 1
        /\ \A i \in 1..Len(dlq) : dlq'[i] = dlq[i]
        /\ Len(dlq) \in Nat
    <3>1. dlq \in Seq(dead')
      BY <2>2 DEF TypeOK
    <3> QED
      BY <2>2, <3>1
  <2>5. Grows
    BY <2>2 DEF Grows, TypeOK
  <2>6. StepTyped
    <3>1. \A s \in dead' : s \in dead \/ InLog(s)'
      <4> SUFFICES ASSUME NEW s \in dead', s \notin dead
                   PROVE  InLog(s)'
        OBVIOUS
      <4>1. s = <<p, n>>
        BY <2>2
      <4> QED
        BY <2>3, <4>1
    <3>2. UNCHANGED <<acked, stored, precheck, stage, subject, accepted, conflicts,
                      listed, replayed, posts>>
      BY <2>2 DEF apiVars, scriptVars
    <3> QED
      BY <2>2, <2>4, <3>1, <3>2 DEF StepTyped, TypeOK
  <2> QED
    BY <2>2, <2>5, <2>6, Preserved DEF apiVars
<1>3. CASE Ack(p)
  <2>1. /\ acked[p] + 1 \in 1..Len(log[p]) /\ D!Safe(p, acked[p] + 1)
        /\ acked' = [acked EXCEPT ![p] = @ + 1]
        /\ UNCHANGED <<log, stored, dead, dlq, apiVars, scriptVars, bounds>>
    BY <1>3 DEF Ack, D!Ack, D!Published
  <2>2. Grows
    BY <2>1 DEF Grows, TypeOK
  <2>3. StepTyped
    BY <2>1 DEF StepTyped, TypeOK, apiVars, scriptVars, bounds
  <2>4. TypeOK' /\ ReplayedValid'
    BY <2>2, <2>3, TypesKept, ReplayedKept
  <2>5. AckedSafe'
    <3> SUFFICES ASSUME NEW q \in Partitions
                 PROVE  /\ acked'[q] <= Len(log[q])
                        /\ \A n \in 1..acked'[q] : D!Safe(q, n)
      BY <2>1 DEF AckedSafe, D!Safe
    <3>1. CASE q = p
      BY <2>1, <3>1 DEF AckedSafe, TypeOK
    <3>2. CASE q # p
      BY <2>1, <3>2 DEF AckedSafe, TypeOK
    <3> QED
      BY <3>1, <3>2
  <2>6. AcceptedNeverOvercounts'
    BY <2>1, <2>2, <2>4, AcceptedKept DEF apiVars
  <2>7. ConflictMeansStored'
    BY <2>1 DEF ConflictMeansStored, apiVars
  <2> QED
    BY <2>4, <2>5, <2>6, <2>7
<1> QED
  BY <1>1, <1>2, <1>3 DEF Consume

-----------------------------------------------------------------------------
(* Theorems                                                                *)

\* The invariant holds at the start.
LEMMA InitInv == Init => Inv
<1> SUFFICES ASSUME Init
             PROVE  Inv
  OBVIOUS
<1>1. TypeOK
  BY PipelineConstants DEF Init, D!Init, TypeOK, Stages
<1>2. AcceptedNeverOvercounts
  BY <1>1, CopiesFinite DEF Init, AcceptedNeverOvercounts
<1>3. AckedSafe /\ ReplayedValid /\ ConflictMeansStored
  BY DEF Init, D!Init, AckedSafe, ReplayedValid, ConflictMeansStored
<1> QED
  BY <1>1, <1>2, <1>3 DEF Inv

\* Every step keeps it.
LEMMA NextInv == Inv /\ [Next]_vars => Inv'
<1> SUFFICES ASSUME Inv, [Next]_vars
             PROVE  Inv'
  OBVIOUS
<1>1. CASE \E r \in Requests : Serve(r)
  <2>1. PICK r \in Requests : Serve(r)
    BY <1>1
  <2>2. CASE Conflict(r) \/ Pass(r) \/ CheckFails(r)
    BY <2>2, QuietSteps
  <2>3. CASE Accept(r)
    BY <2>3, AcceptStep
  <2>4. CASE PublishAgain(r) \/ PublishFails(r)
    BY <2>4, PublishingSteps
  <2> QED
    BY <2>1, <2>2, <2>3, <2>4 DEF Serve
<1>2. CASE \E r \in Requests, e \in Events : Post(r, e)
  BY <1>2, QuietSteps
<1>3. CASE \E e \in Events : Stray(e)
  BY <1>3, PublishingSteps
<1>4. CASE \E p \in Partitions : Consume(p)
  BY <1>4, ConsumerSteps
<1>5. CASE Replay \/ ReplayFails
  BY <1>5, QuietSteps
<1>6. CASE Republish
  BY <1>6, PublishingSteps
<1>7. CASE UNCHANGED vars
  <2>1. Grows /\ UNCHANGED <<acked, accepted, conflicts, stored>>
    BY <1>7, SameGrows DEF vars, Inv, deliveryVars, apiVars
  <2>2. StepTyped
    BY <1>7 DEF vars, deliveryVars, apiVars, scriptVars, bounds, Inv, TypeOK, StepTyped
  <2> QED
    BY <2>1, <2>2, Preserved
<1> QED
  BY <1>1, <1>2, <1>3, <1>4, <1>5, <1>6, <1>7 DEF Next

\* Inv is an invariant of the pipeline.
LEMMA Invariance == Spec => []Inv
BY InitInv, NextInv, PTL DEF Spec

\* The types hold: the rows that the script has listed pass EventCreate, and what
\* the table and the script name are places of the topic (replay_dlq.py:58-77).
THEOREM PipelineTypes == Spec => []TypeOK
<1>1. Inv => TypeOK
  BY DEF Inv
<1> QED
  BY <1>1, Invariance, PTL

\* No answer 202 lacks its own message on the topic (events.py:68-70), for any
\* number of requests, faults and replays.
THEOREM CountedArePublished == Spec => []AcceptedNeverOvercounts
<1>1. Inv => AcceptedNeverOvercounts
  BY DEF Inv
<1> QED
  BY <1>1, Invariance, PTL

\* An accepted event is stored, on the topic or in the DLQ: no duplicate, lost
\* acknowledgement, stale check or interrupted replay loses one.
THEOREM AcceptedSurvives == Spec => []NoAcceptedEventLost
<1>1. Inv => NoAcceptedEventLost
  <2> SUFFICES ASSUME Inv, NEW e \in Events, accepted[e] > 0
               PROVE  \/ e \in stored
                      \/ \E n \in Copies(e) :
                           n > acked[PartitionOf[e]] \/ <<PartitionOf[e], n>> \in dead
    BY DEF NoAcceptedEventLost
  <2>1. PartitionOf[e] \in Partitions
    BY PipelineConstants
  <2>2. Cardinality(Copies(e)) # 0
    BY DEF Inv, TypeOK, AcceptedNeverOvercounts
  <2>3. PICK n \in Copies(e) : TRUE
    BY <2>2, FS_EmptySet
  <2>4. CASE n <= acked[PartitionOf[e]]
    <3>1. n \in 1..acked[PartitionOf[e]]
      BY <2>1, <2>4 DEF Copies, Inv, TypeOK
    <3>2. D!Safe(PartitionOf[e], n)
      BY <2>1, <3>1 DEF Inv, AckedSafe
    <3> QED
      BY <3>2 DEF D!Safe, Copies
  <2>5. n \in Nat /\ acked[PartitionOf[e]] \in Nat
    BY <2>1 DEF Copies, Inv, TypeOK
  <2> QED
    BY <2>4, <2>5
<1> QED
  BY <1>1, Invariance, PTL

\* A 409 was given for a stored event only, however stale the check.
THEOREM ConflictIsFinal == Spec => []ConflictMeansStored
<1>1. Inv => ConflictMeansStored
  BY DEF Inv
<1> QED
  BY <1>1, Invariance, PTL

\* The replay script brings nothing back into the DLQ by itself
\* (replay_dlq.py:58-60).
THEOREM ReplayEnds == Spec => ReplayNeverLoops
<1> DEFINE A == \A s \in replayed :
                  Len(dlq') > Len(dlq) /\ dlq'[Len(dlq')] = s => budget' < budget
<1>1. Inv /\ [Next]_vars => [A]_vars
  <2> SUFFICES ASSUME Inv, Next, NEW s \in replayed,
                      Len(dlq') > Len(dlq), dlq'[Len(dlq')] = s
               PROVE  budget' < budget
    OBVIOUS
  <2>1. Len(dlq) \in Nat /\ budget \in Nat
    BY PipelineConstants DEF Inv, TypeOK
  <2>2. dlq' # dlq
    BY <2>1
  <2>3. PICK p \in Partitions : \E n \in 1..Len(log[p]) : Bury(p, n)
    BY <2>2 DEF Next, Serve, Post, Conflict, Pass, CheckFails, Accept, PublishAgain,
                PublishFails, Stray, Consume, Store, Ack, Replay, Republish, ReplayFails
  <2>4. PICK n \in 1..Len(log[p]) : Bury(p, n)
    BY <2>3
  <2>5. dlq'[Len(dlq')] = <<p, n>>
    BY <2>4 DEF Bury, Inv, TypeOK
  <2>6. log[p][n].kind = "valid"
    BY <2>5 DEF Inv, ReplayedValid, Replayable, MessageAt
  <2> QED
    BY <2>1, <2>4, <2>6 DEF Bury, Spend
<1> QED
  BY <1>1, Invariance, PTL DEF Spec, ReplayNeverLoops

-----------------------------------------------------------------------------
(* The pipeline implements what Delivery promises                          *)

\* The API and the script publish messages that Delivery knows, or leave the
\* topic, the rows and the entries alone.
LEMMA ProducersDeliver ==
  ASSUME Inv,
         \/ \E r \in Requests : Serve(r) \/ \E e \in Events : Post(r, e)
         \/ \E e \in Events : Stray(e)
         \/ Replay \/ Republish \/ ReplayFails
  PROVE  D!Next \/ UNCHANGED deliveryVars
<1>1. ASSUME NEW m \in D!Message, D!Publish(m)
      PROVE  D!Next
  BY <1>1 DEF D!Next
<1>2. ASSUME NEW e \in Events, PublishValid(e)
      PROVE  D!Next
  <2>1. [event |-> e, kind |-> "valid"] \in D!Message
    BY DEF D!Message, Kinds
  <2> QED
    BY <2>1, <1>1, <1>2 DEF PublishValid
<1>3. CASE \E r \in Requests : Serve(r)
  <2>1. PICK r \in Requests : Serve(r)
    BY <1>3
  <2>2. subject[r] \in Events
    BY DEF Inv, TypeOK
  <2>3. CASE Conflict(r) \/ Pass(r) \/ CheckFails(r)
    BY <2>3 DEF Conflict, Pass, CheckFails
  <2>4. CASE Accept(r) \/ PublishAgain(r)
    BY <2>2, <2>4, <1>2 DEF Accept, PublishAgain
  <2>5. CASE PublishFails(r)
    BY <2>2, <2>5, <1>2 DEF PublishFails
  <2> QED
    BY <2>1, <2>3, <2>4, <2>5 DEF Serve
<1>4. CASE \E r \in Requests, e \in Events : Post(r, e)
  BY <1>4 DEF Post
<1>5. CASE \E e \in Events : Stray(e)
  <2>1. PICK e \in Events : Stray(e)
    BY <1>5
  <2>2. [event |-> e, kind |-> "refused"] \in D!Message
    BY DEF D!Message, Kinds
  <2> QED
    BY <2>1, <2>2, <1>1 DEF Stray
<1>6. CASE Replay \/ ReplayFails
  BY <1>6 DEF Replay, ReplayFails
<1>7. CASE Republish
  <2>1. PICK i \in listed : D!Publish(MessageAt(dlq[i]))
    BY <1>7 DEF Republish
  <2>2. InLog(dlq[i])
    BY DEF Inv, TypeOK
  <2>3. MessageAt(dlq[i]) \in D!Message
    BY <2>2 DEF InLog, MessageAt, Inv, TypeOK
  <2> QED
    BY <2>1, <2>3, <1>1
<1> QED
  BY <1>3, <1>4, <1>5, <1>6, <1>7

\* The consumer's steps are those of Delivery.
LEMMA ConsumerDelivers ==
  ASSUME NEW p \in Partitions, Consume(p)
  PROVE  D!Next
<1>1. CASE Ack(p)
  BY <1>1 DEF Ack, D!Next
<1>2. CASE \E n \in 1..Len(log[p]) : Store(p, n) \/ Bury(p, n)
  <2>1. PICK n \in 1..Len(log[p]) : D!Store(p, n) \/ D!Bury(p, n)
    BY <1>2 DEF Store, Bury
  <2> QED
    BY <2>1 DEF D!Next, D!Published
<1> QED
  BY <1>1, <1>2 DEF Consume

\* The composition of the API, the consumer and the script keeps the promise of
\* Delivery, at least once and in order (README.md's Decisions 4 and 6): neither
\* a retried publish nor a replay does to the topic, the events table or the DLQ
\* what Delivery does not allow.
THEOREM PipelineDelivers == Spec => D!Spec
<1>1. Init => D!Init
  BY DEF Init
<1>2. Inv /\ [Next]_vars => [D!Next]_D!vars
  <2> SUFFICES ASSUME Inv, [Next]_vars
               PROVE  D!Next \/ UNCHANGED deliveryVars
    BY DEF deliveryVars, D!vars
  <2>1. CASE UNCHANGED vars
    BY <2>1 DEF vars
  <2>2. CASE \E p \in Partitions : Consume(p)
    BY <2>2, ConsumerDelivers
  <2>3. CASE /\ Next
             /\ ~ \E p \in Partitions : Consume(p)
    BY <2>3, ProducersDeliver DEF Next
  <2> QED
    BY <2>1, <2>2, <2>3
<1> QED
  BY <1>1, <1>2, Invariance, PTL DEF Spec, D!Spec

-----------------------------------------------------------------------------
(* What the pipeline inherits from Delivery                                *)

P == INSTANCE DeliveryProofs

LEMMA KeyedHere == P!Keyed
BY PipelineConstants DEF P!Keyed

LEMMA PromiseHere == Spec => P!Spec
<1>1. D!Init => P!Init
  BY DEF D!Init, P!Init
<1>2. [D!Next]_D!vars => [P!Next]_P!vars
  BY DEF D!Next, P!Next, D!vars, P!vars, D!Message, P!Message, D!Publish, P!Publish,
         D!Store, P!Store, D!Bury, P!Bury, D!Ack, P!Ack, D!Published, P!Published,
         D!Safe, P!Safe
<1> QED
  BY <1>1, <1>2, PipelineDelivers, PTL DEF D!Spec, P!Spec

\* A row of the events table is that of an event whose valid message is on the
\* topic: the duplicates that retries and replays publish make no row up.
THEOREM RowsComeFromTopic == Spec => [](\A e \in stored : Copies(e) # {})
<1>1. Spec => []P!NothingFromNowhere
  BY KeyedHere, PromiseHere, P!PromiseInventsNothing, PTL
<1>2. Spec => []P!OnePartitionPerEvent
  BY KeyedHere, PromiseHere, P!PromiseKeepsPartitions, PTL
<1>3. P!NothingFromNowhere /\ P!OnePartitionPerEvent => \A e \in stored : Copies(e) # {}
  <2> SUFFICES ASSUME P!NothingFromNowhere, P!OnePartitionPerEvent, NEW e \in stored
               PROVE  Copies(e) # {}
    OBVIOUS
  <2>1. PICK p \in Partitions : \E n \in 1..Len(log[p]) :
          log[p][n] = [event |-> e, kind |-> "valid"]
    BY DEF P!NothingFromNowhere, P!Published
  <2>2. PICK n \in 1..Len(log[p]) : log[p][n] = [event |-> e, kind |-> "valid"]
    BY <2>1
  <2>3. PartitionOf[e] = p
    BY <2>2 DEF P!OnePartitionPerEvent, P!Published
  <2> QED
    BY <2>2, <2>3 DEF Copies
<1> QED
  BY <1>1, <1>2, <1>3, PTL
=============================================================================
