--------------------------- MODULE ConsumerProofs ---------------------------
(***************************************************************************)
(* Consumer's type invariant, its offset safety and its refinement of      *)
(* Delivery, for every set of instances, partitions and events and every   *)
(* bound.                                                                  *)
(*                                                                         *)
(* CommittedAreSettled is not inductive: a commit advances every assigned  *)
(* partition to the instance's position.  Inv adds what makes that sound:  *)
(* members' assignments are disjoint (OneOwner), a member's position runs  *)
(* at most one message ahead of the committed offset and that message is   *)
(* the one in hand (AtMostOneUncommitted, AheadInHand), and whoever is     *)
(* about to commit has settled the message in hand (HandSettled).          *)
(* Three properties are proved apart, from Inv and an invariant of their   *)
(* own: DlqMessagesHaveRows with RowsAhead, PersistedNeverOvercounts with  *)
(* Counted (the table is finite and has a row for every count), and        *)
(* HandlerFailureMeansOutage with IdleHand (an instance that waits for a   *)
(* message has none in hand).  What follows from the refinement alone is   *)
(* proved once, in DeliveryProofs.                                         *)
(***************************************************************************)
EXTENDS Consumer, SumProofs

\* The coordinator gives a partition to one member of the group.
OneOwner ==
  \A c, d \in Members : c # d => assigned[c] \cap assigned[d] = {}

\* Nobody has fetched past the end of the log.
PositionInLog ==
  \A c \in Consumers : \A p \in assigned[c] : position[c][p] <= Len(log[p])

\* An instance handling a message has a published one in hand.
HandInLog ==
  \A c \in Consumers : pc[c] \in Handling =>
    hand[c] \in Slots /\ hand[c][2] <= Len(log[hand[c][1]])

\* The uncommitted message of a member that is handling one is that one.
AheadInHand ==
  \A c \in Members : \A p \in Ahead(c) :
    pc[c] \in Handling => hand[c] = <<p, position[c][p]>>

\* process_message returns normally only for a settled message, and publishes
\* to the DLQ topic only after its row.
HandSettled ==
  \A c \in Consumers :
    /\ pc[c] = "committing" => Settled(hand[c])
    /\ pc[c] = "dlq_publish" => dlqRows[hand[c]] > 0

\* An instance that waits to retry has an attempt left.
AttemptLeft ==
  \A c \in Consumers : pc[c] = "backoff" => attempt[c] < MaxRetries

Inv ==
  /\ TypeOK
  /\ HandInLog
  /\ PositionInLog
  /\ AttemptLeft
  /\ OneOwner
  /\ AheadInHand
  /\ HandSettled
  /\ AtMostOneUncommitted
  /\ CommittedAreSettled

-----------------------------------------------------------------------------
USE ConstantsAssumption DEF vars, brokerVars, storeVars, procVars, groupVars

\* The message an instance is handling is a message of the log.
LEMMA HandTyped ==
  ASSUME TypeOK, HandInLog, NEW c \in Consumers, pc[c] \in Handling
  PROVE  hand[c] \in Slots /\ Current(c) \in Message
BY DEF TypeOK, HandInLog, Current, MessageAt, Slots

\* A settled message stays settled: rows and DLQ entries are only added.
LEMMA SettledStays ==
  ASSUME TypeOK, TypeOK', NEW s \in Slots, Settled(s),
         MessageAt(s)' = MessageAt(s),
         rows \subseteq rows',
         dlqRows'[s] >= dlqRows[s], dlqTopic'[s] >= dlqTopic[s]
  PROVE  Settled(s)'
BY DEF Settled, TypeOK

\* Publishing appends: the messages already in the log stay where they are.
LEMMA PublishAppends ==
  ASSUME TypeOK, NEW e \in Events, NEW k \in Kinds, Publish(e, k)
  PROVE  \A q \in Partitions :
           /\ Len(log'[q]) >= Len(log[q])
           /\ \A n \in 1..Len(log[q]) : log'[q][n] = log[q][n]
<1> DEFINE m == [event |-> e, kind |-> k]
<1>1. m \in Message
  BY DEF Message
<1> SUFFICES ASSUME NEW q \in Partitions
             PROVE  /\ Len(log'[q]) >= Len(log[q])
                    /\ \A n \in 1..Len(log[q]) : log'[q][n] = log[q][n]
  OBVIOUS
<1>2. log[q] \in Seq(Message)
  BY DEF TypeOK
<1>3. log'[q] = log[q] \/ log'[q] = Append(log[q], m)
  BY DEF Publish, TypeOK
<1> HIDE DEF m
<1> QED
  BY <1>1, <1>2, <1>3

\* Committed offsets are within the log.
LEMMA CommittedInLog ==
  ASSUME TypeOK, CommittedAreSettled, NEW p \in Partitions
  PROVE  committed[p] <= Len(log[p])
<1>1. CASE committed[p] = 0
  BY <1>1 DEF TypeOK
<1>2. CASE committed[p] # 0
  <2>1. committed[p] \in 1..committed[p]
    BY <1>2 DEF TypeOK
  <2> QED BY <2>1 DEF CommittedAreSettled
<1> QED BY <1>1, <1>2

\* A member that waits for a message has committed all it fetched.
LEMMA PollingNotAhead ==
  ASSUME AtMostOneUncommitted, NEW c \in Members, pc[c] = "polling",
         NEW p \in assigned[c]
  PROVE  position[c][p] = committed[p]
BY DEF AtMostOneUncommitted, Ahead, Handling

\* What was settled stays settled while the log is untouched and rows and DLQ
\* entries are only added.
StoreGrows ==
  /\ log' = log /\ committed' = committed
  /\ rows \subseteq rows'
  /\ \A s \in Slots : dlqRows'[s] >= dlqRows[s] /\ dlqTopic'[s] >= dlqTopic[s]

\* Steps that only add to the stores keep what was settled settled.
LEMMA StoreGrowsSettled ==
  ASSUME TypeOK, TypeOK', StoreGrows
  PROVE  /\ \A s \in Slots : Settled(s) => Settled(s)'
         /\ CommittedAreSettled => CommittedAreSettled'
<1>1. \A s \in Slots : Settled(s) => Settled(s)'
  BY SettledStays DEF StoreGrows, MessageAt
<1>2. ASSUME CommittedAreSettled, NEW p \in Partitions, NEW n \in 1..committed[p]
      PROVE  n <= Len(log[p]) /\ Settled(<<p, n>>)'
  <2>1. <<p, n>> \in Slots
    BY DEF TypeOK, Slots
  <2> QED BY <1>1, <1>2, <2>1 DEF CommittedAreSettled
<1> QED
  BY <1>1, <1>2 DEF CommittedAreSettled, StoreGrows

\* What commit() covers: the positions of the assigned partitions, hence at
\* most one message, the settled one in hand, and no other member's.
LEMMA CommitCovers ==
  ASSUME Inv, NEW c \in Members, pc[c] = "committing", CommitPositions(c)
  PROVE  /\ \A p \in Partitions :
              \/ committed'[p] = committed[p]
              \/ committed'[p] = committed[p] + 1 /\ hand[c] = <<p, committed[p] + 1>>
         /\ \A p \in assigned[c] : committed'[p] = position[c][p]
         /\ \A d \in Members : d # c =>
              \A p \in assigned[d] : committed'[p] = committed[p]
<1>1. c \in Consumers /\ assigned[c] \subseteq Partitions
  BY DEF Inv, TypeOK, Members
<1>2. \A p \in Partitions :
        committed'[p] = IF p \in assigned[c] THEN position[c][p] ELSE committed[p]
  BY DEF CommitPositions
<1>3. \A p \in assigned[c] : position[c][p] # committed[p] =>
        position[c][p] = committed[p] + 1 /\ hand[c] = <<p, position[c][p]>>
  BY DEF Inv, AtMostOneUncommitted, AheadInHand, Ahead, Handling
<1>4. \A d \in Members : d # c => \A p \in assigned[d] : p \notin assigned[c]
  BY DEF Inv, OneOwner
<1>5. \A d \in Members : assigned[d] \subseteq Partitions
  BY DEF Inv, TypeOK, Members
<1> QED
  BY <1>1, <1>2, <1>3, <1>4, <1>5

\* After a commit everything below the committed offsets is settled.
LEMMA CommitSettled ==
  ASSUME Inv, NEW c \in Members, pc[c] = "committing", CommitPositions(c),
         UNCHANGED <<log, storeVars>>
  PROVE  CommittedAreSettled'
<1>1. c \in Consumers
  BY DEF Members
<1>2. hand[c] \in Slots /\ hand[c][2] <= Len(log[hand[c][1]]) /\ Settled(hand[c])
  BY <1>1 DEF Inv, HandInLog, HandSettled, Handling
<1> SUFFICES ASSUME NEW p \in Partitions, NEW n \in 1..committed'[p]
             PROVE  n <= Len(log[p]) /\ Settled(<<p, n>>)
  BY DEF CommittedAreSettled, Settled, MessageAt
<1>3. committed[p] \in Nat
  BY DEF Inv, TypeOK
<1>4. CASE n \in 1..committed[p]
  BY <1>4 DEF Inv, CommittedAreSettled
<1>5. CASE n \notin 1..committed[p]
  <2>1. hand[c] = <<p, n>>
    BY <1>3, <1>5, CommitCovers
  <2> QED BY <1>2, <2>1
<1> QED
  BY <1>4, <1>5

\* The steps of an instance that is handling a message leave the group, the
\* offsets and its hand alone, so what relates those carries over.
LEMMA HandlingMoves ==
  ASSUME Inv, NEW c \in Consumers, pc[c] \in Handling,
         NEW l \in Handling \cup {"closing"}, Goto(c, l),
         UNCHANGED <<log, committed, hand, groupVars>>
  PROVE  HandInLog' /\ PositionInLog' /\ OneOwner' /\ AheadInHand' /\ AtMostOneUncommitted'
<1>0. TypeOK /\ HandInLog /\ PositionInLog /\ OneOwner /\ AheadInHand /\ AtMostOneUncommitted
  BY DEF Inv
<1>1. \A d \in Consumers : pc'[d] = IF d = c THEN l ELSE pc[d]
  BY <1>0 DEF Goto, TypeOK
<1>2. Members' = Members /\ Members \subseteq Consumers /\ \A d \in Members : Ahead(d)' = Ahead(d)
  BY DEF Members, Ahead
<1>3. \A d \in Consumers : pc'[d] \in Handling => pc[d] \in Handling
  BY <1>1
<1>4. HandInLog'
  BY <1>0, <1>3 DEF HandInLog
<1>5. PositionInLog' /\ OneOwner'
  BY <1>0, <1>2 DEF PositionInLog, OneOwner
<1>6. AheadInHand'
  BY <1>0, <1>2, <1>3 DEF AheadInHand
<1>7. AtMostOneUncommitted'
  <2>1. \A d \in Members : Ahead(d) # {} => pc'[d] \in Handling \cup {"closing"}
    BY <1>0, <1>1, <1>2 DEF AtMostOneUncommitted
  <2> QED BY <1>0, <1>2, <2>1 DEF AtMostOneUncommitted
<1> QED
  BY <1>4, <1>5, <1>6, <1>7

\* Such a step keeps what was settled settled; only the instance itself may
\* come to "committing" or "dlq_publish".
LEMMA HandlingSettles ==
  ASSUME Inv, TypeOK', NEW c \in Consumers, NEW l \in Labels, Goto(c, l),
         UNCHANGED hand, StoreGrows,
         l = "committing" => Settled(hand[c])',
         l = "dlq_publish" => dlqRows'[hand[c]] > 0
  PROVE  HandSettled' /\ CommittedAreSettled'
<1>0. TypeOK /\ HandInLog /\ HandSettled /\ CommittedAreSettled
  BY DEF Inv
<1>1. CommittedAreSettled'
  BY <1>0, StoreGrowsSettled
<1>2. \A d \in Consumers : pc'[d] = IF d = c THEN l ELSE pc[d]
  BY <1>0 DEF Goto, TypeOK
<1>3. ASSUME NEW d \in Consumers, d # c, pc[d] = "committing"
      PROVE  Settled(hand[d])'
  <2>1. hand[d] \in Slots /\ Settled(hand[d])
    BY <1>0, <1>3, HandTyped DEF HandSettled, Handling
  <2>2. \A s \in Slots : Settled(s) => Settled(s)'
    BY <1>0, StoreGrowsSettled
  <2> QED BY <2>1, <2>2 DEF Settled, MessageAt
<1>4. ASSUME NEW d \in Consumers, d # c, pc[d] = "dlq_publish"
      PROVE  dlqRows'[hand[d]] > 0
  <2>1. hand[d] \in Slots /\ dlqRows[hand[d]] > 0
    BY <1>0, <1>4, HandTyped DEF HandSettled, Handling
  <2>2. dlqRows[hand[d]] \in Nat /\ dlqRows'[hand[d]] \in Nat /\ dlqRows'[hand[d]] >= dlqRows[hand[d]]
    BY <1>0, <2>1 DEF StoreGrows, TypeOK
  <2> QED BY <2>1, <2>2
<1>5. ASSUME NEW d \in Consumers, pc'[d] = "committing" PROVE Settled(hand[d])'
  BY <1>2, <1>3, <1>5
<1>6. \A d \in Consumers : pc'[d] = "dlq_publish" => dlqRows'[hand'[d]] > 0
  BY <1>2, <1>4
<1> QED
  BY <1>1, <1>5, <1>6 DEF HandSettled

\* Publish: the log grows at its end, and what Inv says of older messages stands.
LEMMA PublishInv ==
  ASSUME Inv, NEW e \in Events, NEW k \in Kinds, Publish(e, k)
  PROVE  Inv'
<1>0. /\ TypeOK /\ HandInLog /\ PositionInLog /\ AttemptLeft /\ OneOwner
      /\ AheadInHand /\ AtMostOneUncommitted /\ HandSettled /\ CommittedAreSettled
  BY DEF Inv
<1>1. TypeOK'
  <2> DEFINE p == PartitionOf[e]
             m == [event |-> e, kind |-> k]
  <2>1. p \in Partitions /\ m \in Message
    BY DEF Message
  <2>2. log' = [log EXCEPT ![p] = Append(log[p], m)] /\ Len(log[p]) < MaxLog
    BY DEF Publish
  <2>3. Append(log[p], m) \in Seq(Message) /\ Len(Append(log[p], m)) <= MaxLog
    BY <1>0, <2>1, <2>2 DEF TypeOK
  <2>4. log' \in [Partitions -> Seq(Message)]
        /\ \A q \in Partitions : Len(log'[q]) <= MaxLog
    <3> HIDE DEF p, m
    <3> QED BY <1>0, <2>1, <2>2, <2>3 DEF TypeOK
  <2> QED
    BY <1>0, <2>4 DEF TypeOK, Publish
<1>2. HandInLog'
  <2> SUFFICES ASSUME NEW d \in Consumers, pc[d] \in Handling
               PROVE  hand[d] \in Slots /\ hand[d][2] <= Len(log'[hand[d][1]])
    BY DEF HandInLog, Publish
  <2>1. /\ hand[d] \in Slots /\ hand[d][1] \in Partitions /\ hand[d][2] \in Nat
        /\ hand[d][2] <= Len(log[hand[d][1]])
    BY <1>0 DEF HandInLog, Slots
  <2>2. \A q \in Partitions : Len(log[q]) \in Nat /\ Len(log'[q]) \in Nat
    BY <1>0, <1>1 DEF TypeOK
  <2>3. \A q \in Partitions : Len(log'[q]) >= Len(log[q])
    BY <1>0, PublishAppends
  <2> QED BY <2>1, <2>2, <2>3
<1>3. PositionInLog'
  BY <1>0 DEF TypeOK, PositionInLog, Publish
<1>4. AttemptLeft'
  BY <1>0 DEF TypeOK, AttemptLeft, Publish
<1>5. OneOwner'
  BY <1>0 DEF TypeOK, OneOwner, Members, Publish
<1>6. AheadInHand'
  BY <1>0 DEF TypeOK, AheadInHand, AtMostOneUncommitted, Members, Ahead, Handling, Publish
<1>7. AtMostOneUncommitted'
  BY <1>0 DEF TypeOK, AtMostOneUncommitted, Members, Ahead, Handling, Publish
<1>8. HandSettled'
  <2> SUFFICES ASSUME NEW d \in Consumers
               PROVE  /\ pc[d] = "committing" => Settled(hand[d])'
                      /\ pc[d] = "dlq_publish" => dlqRows[hand[d]] > 0
    BY DEF HandSettled, Publish
  <2>1. ASSUME pc[d] = "committing" PROVE Settled(hand[d])'
    <3>1. /\ hand[d] \in Slots /\ hand'[d] = hand[d]
          /\ MessageAt(hand[d])' = MessageAt(hand[d])
      BY <1>0, <2>1, PublishAppends DEF HandInLog, Handling, Publish, MessageAt, Slots
    <3> QED BY <1>0, <2>1, <3>1 DEF HandSettled, Publish, Settled
  <2> QED BY <1>0, <2>1 DEF HandSettled
<1>9. CommittedAreSettled'
  <2> SUFFICES ASSUME NEW p \in Partitions, NEW n \in 1..committed[p]
               PROVE  n <= Len(log'[p]) /\ Settled(<<p, n>>)'
    BY DEF CommittedAreSettled, Publish
  <2>1. n \in 1..Len(log[p]) /\ Settled(<<p, n>>)
    BY <1>0 DEF CommittedAreSettled, TypeOK
  <2>2. log'[p][n] = log[p][n] /\ Len(log'[p]) >= Len(log[p])
    BY <1>0, <2>1, PublishAppends
  <2> QED
    BY <1>0, <1>1, <2>1, <2>2 DEF Settled, MessageAt, Publish, TypeOK
<1> QED
  BY <1>1, <1>2, <1>3, <1>4, <1>5, <1>6, <1>7, <1>8, <1>9 DEF Inv

\* Rebalance: assignments are disjoint again and every position is the committed offset.
LEMMA RebalanceInv ==
  ASSUME Inv, NEW S \in SUBSET Running, NEW owner \in [Partitions -> S], Rebalance(S, owner)
  PROVE  Inv'
<1>0. /\ TypeOK /\ HandInLog /\ PositionInLog /\ AttemptLeft /\ OneOwner
      /\ AheadInHand /\ AtMostOneUncommitted /\ HandSettled /\ CommittedAreSettled
  BY DEF Inv
<1>1. TypeOK'
  BY <1>0 DEF TypeOK, Labels, Rebalance, Running, Members
<1>2. HandInLog'
  BY <1>0 DEF TypeOK, HandInLog, Handling, Rebalance, Running, Members
<1>3. PositionInLog'
  BY <1>0, CommittedInLog DEF TypeOK, PositionInLog, Rebalance
<1>4. AttemptLeft'
  BY <1>0 DEF TypeOK, AttemptLeft, Rebalance, Running, Members
<1>5. OneOwner'
  BY <1>0 DEF TypeOK, OneOwner, Members, Rebalance, Running
<1>6. AheadInHand'
  BY <1>0 DEF TypeOK, AheadInHand, AtMostOneUncommitted, Members, Ahead, Handling, Rebalance, Running
<1>7. AtMostOneUncommitted'
  BY <1>0 DEF TypeOK, AtMostOneUncommitted, Members, Ahead, Handling, Rebalance, Running
<1>8. HandSettled'
  BY <1>0 DEF TypeOK, HandSettled, Settled, MessageAt, Rebalance, Running, Members
<1>9. CommittedAreSettled'
  BY <1>0 DEF TypeOK, CommittedAreSettled, Settled, MessageAt, Rebalance, Running, Members
<1> QED
  BY <1>1, <1>2, <1>3, <1>4, <1>5, <1>6, <1>7, <1>8, <1>9 DEF Inv

\* SessionExpires: one member fewer to speak of.
LEMMA SessionExpiresInv ==
  ASSUME Inv, NEW c \in Consumers, SessionExpires(c)
  PROVE  Inv'
<1>0. /\ TypeOK /\ HandInLog /\ PositionInLog /\ AttemptLeft /\ OneOwner
      /\ AheadInHand /\ AtMostOneUncommitted /\ HandSettled /\ CommittedAreSettled
  BY DEF Inv
<1>1. TypeOK'
  BY <1>0 DEF TypeOK, Labels, SessionExpires, Spend
<1>2. HandInLog'
  BY <1>0 DEF TypeOK, HandInLog, Handling, SessionExpires, Spend
<1>3. PositionInLog'
  BY <1>0 DEF TypeOK, PositionInLog, SessionExpires, Spend
<1>4. AttemptLeft'
  BY <1>0 DEF TypeOK, AttemptLeft, SessionExpires, Spend
<1>5. OneOwner'
  BY <1>0 DEF TypeOK, OneOwner, Members, SessionExpires, Spend
<1>6. AheadInHand'
  BY <1>0 DEF TypeOK, AheadInHand, AtMostOneUncommitted, Members, Ahead, Handling, SessionExpires, Spend
<1>7. AtMostOneUncommitted'
  BY <1>0 DEF TypeOK, AtMostOneUncommitted, Members, Ahead, Handling, SessionExpires, Spend
<1>8. HandSettled'
  BY <1>0 DEF TypeOK, HandSettled, Settled, MessageAt, SessionExpires, Spend
<1>9. CommittedAreSettled'
  BY <1>0 DEF TypeOK, CommittedAreSettled, Settled, MessageAt, SessionExpires, Spend
<1> QED
  BY <1>1, <1>2, <1>3, <1>4, <1>5, <1>6, <1>7, <1>8, <1>9 DEF Inv

\* Start: the instance has nothing in hand and is not a member.
LEMMA StartInv ==
  ASSUME Inv, NEW c \in Consumers, Start(c)
  PROVE  Inv'
<1>0. /\ TypeOK /\ HandInLog /\ PositionInLog /\ AttemptLeft /\ OneOwner
      /\ AheadInHand /\ AtMostOneUncommitted /\ HandSettled /\ CommittedAreSettled
  BY DEF Inv
<1>1. TypeOK'
  BY <1>0 DEF TypeOK, Labels, Start, Goto
<1>2. HandInLog'
  BY <1>0 DEF TypeOK, HandInLog, Handling, Start, Goto
<1>3. PositionInLog'
  BY <1>0 DEF TypeOK, PositionInLog, Start, Goto
<1>4. AttemptLeft'
  BY <1>0 DEF TypeOK, AttemptLeft, Start, Goto
<1>5. OneOwner'
  BY <1>0 DEF TypeOK, OneOwner, Members, Start, Goto
<1>6. AheadInHand'
  BY <1>0 DEF TypeOK, AheadInHand, AtMostOneUncommitted, Members, Ahead, Handling, Start, Goto
<1>7. AtMostOneUncommitted'
  BY <1>0 DEF TypeOK, AtMostOneUncommitted, Members, Ahead, Handling, Start, Goto
<1>8. HandSettled'
  BY <1>0 DEF TypeOK, HandSettled, Settled, MessageAt, Start, Goto
<1>9. CommittedAreSettled'
  BY <1>0 DEF TypeOK, CommittedAreSettled, Settled, MessageAt, Start, Goto
<1> QED
  BY <1>1, <1>2, <1>3, <1>4, <1>5, <1>6, <1>7, <1>8, <1>9 DEF Inv

\* Signal: no part of Inv looks at the stop signal.
LEMMA SignalInv ==
  ASSUME Inv, NEW c \in Consumers, Signal(c)
  PROVE  Inv'
<1>0. /\ TypeOK /\ HandInLog /\ PositionInLog /\ AttemptLeft /\ OneOwner
      /\ AheadInHand /\ AtMostOneUncommitted /\ HandSettled /\ CommittedAreSettled
  BY DEF Inv
<1>1. TypeOK'
  BY <1>0 DEF TypeOK, Labels, Signal, Spend
<1>2. HandInLog'
  BY <1>0 DEF TypeOK, HandInLog, Handling, Signal, Spend
<1>3. PositionInLog'
  BY <1>0 DEF TypeOK, PositionInLog, Signal, Spend
<1>4. AttemptLeft'
  BY <1>0 DEF TypeOK, AttemptLeft, Signal, Spend
<1>5. OneOwner'
  BY <1>0 DEF TypeOK, OneOwner, Members, Signal, Spend
<1>6. AheadInHand'
  BY <1>0 DEF TypeOK, AheadInHand, AtMostOneUncommitted, Members, Ahead, Handling, Signal, Spend
<1>7. AtMostOneUncommitted'
  BY <1>0 DEF TypeOK, AtMostOneUncommitted, Members, Ahead, Handling, Signal, Spend
<1>8. HandSettled'
  BY <1>0 DEF TypeOK, HandSettled, Settled, MessageAt, Signal, Spend
<1>9. CommittedAreSettled'
  BY <1>0 DEF TypeOK, CommittedAreSettled, Settled, MessageAt, Signal, Spend
<1> QED
  BY <1>1, <1>2, <1>3, <1>4, <1>5, <1>6, <1>7, <1>8, <1>9 DEF Inv

\* Kill: the instance leaves the group with whatever it had in hand.
LEMMA KillInv ==
  ASSUME Inv, NEW c \in Consumers, Kill(c)
  PROVE  Inv'
<1>0. /\ TypeOK /\ HandInLog /\ PositionInLog /\ AttemptLeft /\ OneOwner
      /\ AheadInHand /\ AtMostOneUncommitted /\ HandSettled /\ CommittedAreSettled
  BY DEF Inv
<1>1. TypeOK'
  BY <1>0 DEF TypeOK, Labels, Kill, Exit, Goto, Count, ZeroMetrics, Spend, Metrics
<1>2. HandInLog'
  BY <1>0 DEF TypeOK, HandInLog, Handling, Kill, Exit, Goto, Count, ZeroMetrics, Spend
<1>3. PositionInLog'
  BY <1>0 DEF TypeOK, PositionInLog, Kill, Exit, Goto, Count, ZeroMetrics, Spend
<1>4. AttemptLeft'
  BY <1>0 DEF TypeOK, AttemptLeft, Kill, Exit, Goto, Count, ZeroMetrics, Spend
<1>5. OneOwner'
  BY <1>0 DEF TypeOK, OneOwner, Members, Kill, Exit, Goto, Count, ZeroMetrics, Spend
<1>6. AheadInHand'
  BY <1>0 DEF TypeOK, AheadInHand, AtMostOneUncommitted, Members, Ahead, Handling, Kill, Exit, Goto, Count, ZeroMetrics, Spend
<1>7. AtMostOneUncommitted'
  BY <1>0 DEF TypeOK, AtMostOneUncommitted, Members, Ahead, Handling, Kill, Exit, Goto, Count, ZeroMetrics, Spend
<1>8. HandSettled'
  BY <1>0 DEF TypeOK, HandSettled, Settled, MessageAt, Kill, Exit, Goto, Count, ZeroMetrics, Spend
<1>9. CommittedAreSettled'
  BY <1>0 DEF TypeOK, CommittedAreSettled, Settled, MessageAt, Kill, Exit, Goto, Count, ZeroMetrics, Spend
<1> QED
  BY <1>1, <1>2, <1>3, <1>4, <1>5, <1>6, <1>7, <1>8, <1>9 DEF Inv

\* Close: the same, and nothing is committed.
LEMMA CloseInv ==
  ASSUME Inv, NEW c \in Consumers, Close(c)
  PROVE  Inv'
<1>0. /\ TypeOK /\ HandInLog /\ PositionInLog /\ AttemptLeft /\ OneOwner
      /\ AheadInHand /\ AtMostOneUncommitted /\ HandSettled /\ CommittedAreSettled
  BY DEF Inv
<1>1. TypeOK'
  BY <1>0 DEF TypeOK, Labels, Close, Exit, Goto, Count, ZeroMetrics, Metrics
<1>2. HandInLog'
  BY <1>0 DEF TypeOK, HandInLog, Handling, Close, Exit, Goto, Count, ZeroMetrics
<1>3. PositionInLog'
  BY <1>0 DEF TypeOK, PositionInLog, Close, Exit, Goto, Count, ZeroMetrics
<1>4. AttemptLeft'
  BY <1>0 DEF TypeOK, AttemptLeft, Close, Exit, Goto, Count, ZeroMetrics
<1>5. OneOwner'
  BY <1>0 DEF TypeOK, OneOwner, Members, Close, Exit, Goto, Count, ZeroMetrics
<1>6. AheadInHand'
  BY <1>0 DEF TypeOK, AheadInHand, AtMostOneUncommitted, Members, Ahead, Handling, Close, Exit, Goto, Count, ZeroMetrics
<1>7. AtMostOneUncommitted'
  BY <1>0 DEF TypeOK, AtMostOneUncommitted, Members, Ahead, Handling, Close, Exit, Goto, Count, ZeroMetrics
<1>8. HandSettled'
  BY <1>0 DEF TypeOK, HandSettled, Settled, MessageAt, Close, Exit, Goto, Count, ZeroMetrics
<1>9. CommittedAreSettled'
  BY <1>0 DEF TypeOK, CommittedAreSettled, Settled, MessageAt, Close, Exit, Goto, Count, ZeroMetrics
<1> QED
  BY <1>1, <1>2, <1>3, <1>4, <1>5, <1>6, <1>7, <1>8, <1>9 DEF Inv

\* Fetch: the position runs ahead by the one message that comes to hand.
LEMMA FetchInv ==
  ASSUME Inv, NEW c \in Consumers, NEW p \in Partitions, Fetch(c, p)
  PROVE  Inv'
<1>0. /\ TypeOK /\ HandInLog /\ PositionInLog /\ AttemptLeft /\ OneOwner
      /\ AheadInHand /\ AtMostOneUncommitted /\ HandSettled /\ CommittedAreSettled
  BY DEF Inv
<1>1. TypeOK'
  <2>1. position[c][p] + 1 \in 1..MaxLog
    BY <1>0 DEF TypeOK, Fetch, Deliverable
  <2>2. position' \in [Consumers -> [Partitions -> 0..MaxLog]]
    BY <1>0, <2>1 DEF TypeOK, Fetch, Advance
  <2>3. hand' \in [Consumers -> Slots \cup {NoSlot}]
    BY <1>0, <2>1 DEF TypeOK, Fetch, Slots
  <2>4. pc' \in [Consumers -> Labels]
    BY <1>0 DEF TypeOK, Fetch, Goto, FirstStep, Labels
  <2>5. attempt' \in [Consumers -> 0..MaxRetries]
    BY <1>0 DEF TypeOK, Fetch
  <2> QED
    BY <1>0, <2>2, <2>3, <2>4, <2>5 DEF TypeOK, Fetch
<1>2. HandInLog'
  <2>1. hand'[c] = <<p, position[c][p] + 1>> /\ position[c][p] + 1 \in 1..MaxLog
        /\ position[c][p] + 1 <= Len(log[p])
    BY <1>0 DEF Fetch, Deliverable, TypeOK
  <2> SUFFICES ASSUME NEW d \in Consumers, pc'[d] \in Handling
               PROVE  hand'[d] \in Slots /\ hand'[d][2] <= Len(log'[hand'[d][1]])
    BY DEF HandInLog
  <2>2. CASE d = c
    BY <2>1, <2>2 DEF Fetch, Slots
  <2>3. CASE d # c
    BY <1>0, <2>3 DEF Fetch, Goto, HandInLog, TypeOK
  <2> QED BY <2>2, <2>3
<1>3. PositionInLog'
  BY <1>0 DEF TypeOK, PositionInLog, Fetch, Deliverable, Advance, FirstStep, Goto
<1>4. AttemptLeft'
  BY <1>0 DEF TypeOK, AttemptLeft, Fetch, Deliverable, Advance, FirstStep, Goto
<1>5. OneOwner'
  BY <1>0 DEF TypeOK, OneOwner, Members, Fetch, Deliverable, Advance, FirstStep, Goto
<1>6. AheadInHand'
  <2> SUFFICES ASSUME NEW d \in Members, NEW q \in Ahead(d)', pc'[d] \in Handling
               PROVE  hand'[d] = <<q, position'[d][q]>>
    BY DEF AheadInHand, Fetch, Members
  <2>1. CASE d = c
    <3>1. q \in assigned[c] /\ position'[c][q] # committed[q]
      BY <2>1 DEF Ahead, Fetch
    <3>2. position[c][q] = committed[q]
      BY <1>0, <2>1, <3>1, PollingNotAhead DEF Fetch
    <3>3. q = p
      BY <1>0, <3>1, <3>2 DEF Fetch, Advance, TypeOK
    <3> QED BY <1>0, <2>1, <3>3 DEF Fetch, Advance, TypeOK, Deliverable
  <2>2. CASE d # c
    BY <1>0, <2>2 DEF AheadInHand, Ahead, Fetch, Advance, Goto, TypeOK, Members
  <2> QED BY <2>1, <2>2
<1>7. AtMostOneUncommitted'
  <2> SUFFICES ASSUME NEW d \in Members
               PROVE  /\ Ahead(d)' # {} => pc'[d] \in Handling \cup {"closing"}
                      /\ \A q \in Ahead(d)' : position'[d][q] = committed[q] + 1
                      /\ \A q, r \in Ahead(d)' : q = r
    BY DEF AtMostOneUncommitted, Fetch, Members
  <2>1. CASE d = c
    <3>1. \A q \in assigned[c] : position[c][q] = committed[q]
      BY <1>0, <2>1, PollingNotAhead DEF Fetch
    <3>2. \A q \in Ahead(c)' : q = p /\ position'[c][q] = committed[q] + 1
      BY <1>0, <3>1 DEF Ahead, Advance, Fetch, TypeOK
    <3>3. pc'[c] \in Handling \cup {"closing"}
      BY <1>0 DEF Fetch, FirstStep, Goto, Handling, TypeOK
    <3> QED BY <2>1, <3>2, <3>3
  <2>2. CASE d # c
    BY <1>0, <2>2 DEF AtMostOneUncommitted, Ahead, Fetch, Advance, Goto, TypeOK, Members
  <2> QED BY <2>1, <2>2
<1>8. HandSettled'
  BY <1>0 DEF TypeOK, HandSettled, Settled, MessageAt, Fetch, Deliverable, Advance, FirstStep, Goto
<1>9. CommittedAreSettled'
  BY <1>0 DEF TypeOK, CommittedAreSettled, Settled, MessageAt, Fetch, Deliverable, Advance, FirstStep, Goto
<1> QED
  BY <1>1, <1>2, <1>3, <1>4, <1>5, <1>6, <1>7, <1>8, <1>9 DEF Inv

\* SeeShutdown: a message fetched and dropped is ahead of the offset, and the
\* instance is closing, so that it commits no more.
LEMMA SeeShutdownInv ==
  ASSUME Inv, NEW c \in Consumers, SeeShutdown(c)
  PROVE  Inv'
<1>0. /\ TypeOK /\ HandInLog /\ PositionInLog /\ AttemptLeft /\ OneOwner
      /\ AheadInHand /\ AtMostOneUncommitted /\ HandSettled /\ CommittedAreSettled
  BY DEF Inv
<1>1. TypeOK'
  <2>1. position' \in [Consumers -> [Partitions -> 0..MaxLog]]
    <3>1. CASE UNCHANGED position
      BY <1>0, <3>1 DEF TypeOK
    <3>2. ASSUME NEW p \in Partitions, Deliverable(c, p), Advance(c, p)
          PROVE  position' \in [Consumers -> [Partitions -> 0..MaxLog]]
      <4>1. position[c][p] + 1 \in 0..MaxLog
        BY <1>0, <3>2 DEF TypeOK, Deliverable
      <4> QED BY <1>0, <3>2, <4>1 DEF TypeOK, Advance
    <3> QED BY <3>1, <3>2 DEF SeeShutdown
  <2>2. pc' \in [Consumers -> Labels]
    BY <1>0 DEF TypeOK, SeeShutdown, Goto, Labels
  <2> QED
    BY <1>0, <2>1, <2>2 DEF TypeOK, SeeShutdown
<1>2. HandInLog'
  BY <1>0 DEF TypeOK, HandInLog, Handling, SeeShutdown, Deliverable, Advance, Goto
<1>3. PositionInLog'
  <2>1. CASE UNCHANGED position
    BY <1>0, <2>1 DEF SeeShutdown, PositionInLog
  <2>2. ASSUME NEW p \in Partitions, Deliverable(c, p), Advance(c, p)
        PROVE  PositionInLog'
    BY <1>0, <2>2 DEF SeeShutdown, PositionInLog, Deliverable, Advance, TypeOK
  <2> QED BY <2>1, <2>2 DEF SeeShutdown
<1>4. AttemptLeft'
  BY <1>0 DEF TypeOK, AttemptLeft, SeeShutdown, Deliverable, Advance, Goto
<1>5. OneOwner'
  BY <1>0 DEF TypeOK, OneOwner, Members, SeeShutdown, Deliverable, Advance, Goto
<1>6. AheadInHand'
  BY <1>0 DEF TypeOK, AheadInHand, AtMostOneUncommitted, Members, Ahead, Handling, SeeShutdown, Deliverable, Advance, Goto
<1>7. AtMostOneUncommitted'
  <2>1. CASE UNCHANGED position
    BY <1>0, <2>1 DEF SeeShutdown, Goto, AtMostOneUncommitted, Members, Ahead, TypeOK
  <2>2. ASSUME NEW p \in Partitions, Deliverable(c, p), Advance(c, p)
        PROVE  AtMostOneUncommitted'
    <3> SUFFICES ASSUME NEW d \in Members
                 PROVE  /\ Ahead(d)' # {} => pc'[d] \in Handling \cup {"closing"}
                        /\ \A q \in Ahead(d)' : position'[d][q] = committed[q] + 1
                        /\ \A q, r \in Ahead(d)' : q = r
      BY DEF AtMostOneUncommitted, SeeShutdown, Members
    <3>1. CASE d = c
      <4>1. \A q \in assigned[c] : position[c][q] = committed[q]
        BY <1>0, <3>1, PollingNotAhead DEF SeeShutdown
      <4>2. \A q \in Ahead(c)' : q = p /\ position'[c][q] = committed[q] + 1
        BY <1>0, <2>2, <4>1 DEF Ahead, Advance, SeeShutdown, TypeOK
      <4>3. pc'[c] = "closing"
        BY <1>0 DEF SeeShutdown, Goto, TypeOK
      <4> QED BY <3>1, <4>2, <4>3
    <3>2. CASE d # c
      BY <1>0, <2>2, <3>2 DEF AtMostOneUncommitted, Ahead, SeeShutdown, Advance, Goto, TypeOK, Members
    <3> QED BY <3>1, <3>2
  <2> QED BY <2>1, <2>2 DEF SeeShutdown
<1>8. HandSettled'
  BY <1>0 DEF TypeOK, HandSettled, Settled, MessageAt, SeeShutdown, Deliverable, Advance, Goto
<1>9. CommittedAreSettled'
  BY <1>0 DEF TypeOK, CommittedAreSettled, Settled, MessageAt, SeeShutdown, Deliverable, Advance, Goto
<1> QED
  BY <1>1, <1>2, <1>3, <1>4, <1>5, <1>6, <1>7, <1>8, <1>9 DEF Inv

\* InsertSucceeds: the row settles the message in hand.
LEMMA InsertSucceedsInv ==
  ASSUME Inv, NEW c \in Consumers, InsertSucceeds(c)
  PROVE  Inv'
<1>0. /\ TypeOK /\ HandInLog /\ PositionInLog /\ AttemptLeft /\ OneOwner
      /\ AheadInHand /\ AtMostOneUncommitted /\ HandSettled /\ CommittedAreSettled
  BY DEF Inv
<1>1. TypeOK'
  <2>1. Current(c) \in Message
    BY <1>0, HandTyped DEF InsertSucceeds, Handling
  <2>2. rows' \in SUBSET Events
    BY <1>0, <2>1 DEF TypeOK, InsertSucceeds, Message
  <2>3. metrics' \in [Consumers -> Metrics]
    <3>1. metrics[c] \in Metrics
      BY <1>0 DEF TypeOK
    <3>2. [metrics[c] EXCEPT !.skipped = @ + 1] \in Metrics
      BY <3>1 DEF Metrics
    <3>3. [metrics[c] EXCEPT !.persisted = @ + 1] \in Metrics
      BY <3>1 DEF Metrics
    <3> QED
      BY <1>0, <3>2, <3>3 DEF TypeOK, InsertSucceeds, Count
  <2>4. pc' \in [Consumers -> Labels]
    BY <1>0 DEF TypeOK, InsertSucceeds, Goto, Labels
  <2> QED
    BY <1>0, <2>2, <2>3, <2>4 DEF TypeOK, InsertSucceeds
<1>2. /\ pc[c] \in Handling /\ hand[c] \in Slots
      /\ UNCHANGED <<log, committed, hand, groupVars>>
  BY <1>0, HandTyped DEF InsertSucceeds, Handling
<1>3. PICK l \in (Handling \cup {"closing"}) \cap Labels : Goto(c, l)
  BY DEF InsertSucceeds, Handling, Labels
<1>4. HandInLog' /\ PositionInLog' /\ OneOwner' /\ AheadInHand' /\ AtMostOneUncommitted'
  BY <1>2, <1>3, HandlingMoves
<1>5. AttemptLeft'
  BY <1>0 DEF TypeOK, AttemptLeft, InsertSucceeds, Goto
<1>6. StoreGrows
  BY <1>0 DEF TypeOK, InsertSucceeds, StoreGrows
<1>7. /\ pc'[c] = "committing" => Settled(hand[c])'
      /\ pc'[c] = "dlq_publish" => dlqRows'[hand[c]] > 0
  <2>1. pc'[c] = "committing" /\ Current(c).event \in rows'
    BY <1>0 DEF TypeOK, InsertSucceeds, Goto
  <2>2. Settled(hand[c])'
    BY <2>1 DEF Settled, Current, MessageAt, InsertSucceeds
  <2> QED BY <2>1, <2>2
<1>8. pc'[c] = l
  BY <1>0, <1>3 DEF TypeOK, Goto
<1>9. HandSettled' /\ CommittedAreSettled'
  BY <1>1, <1>2, <1>3, <1>6, <1>7, <1>8, HandlingSettles
<1> QED
  BY <1>1, <1>4, <1>5, <1>9 DEF Inv

\* InsertFails: an attempt is left before each backoff.
LEMMA InsertFailsInv ==
  ASSUME Inv, NEW c \in Consumers, InsertFails(c)
  PROVE  Inv'
<1>0. /\ TypeOK /\ HandInLog /\ PositionInLog /\ AttemptLeft /\ OneOwner
      /\ AheadInHand /\ AtMostOneUncommitted /\ HandSettled /\ CommittedAreSettled
  BY DEF Inv
<1>1. TypeOK'
  <2>1. Current(c) \in Message
    BY <1>0, HandTyped DEF InsertFails, Handling
  <2>2. rows' \in SUBSET Events
    BY <1>0, <2>1 DEF TypeOK, InsertFails, Message
  <2>3. pc' \in [Consumers -> Labels]
    BY <1>0 DEF TypeOK, InsertFails, Goto, Labels
  <2>4. budget' \in 0..MaxFaults
    BY <1>0 DEF TypeOK, InsertFails, Spend
  <2> QED
    BY <1>0, <2>2, <2>3, <2>4 DEF TypeOK, InsertFails
<1>2. /\ pc[c] \in Handling /\ hand[c] \in Slots
      /\ UNCHANGED <<log, committed, hand, groupVars>>
  BY <1>0, HandTyped DEF InsertFails, Handling
<1>3. PICK l \in (Handling \cup {"closing"}) \cap Labels : Goto(c, l)
  BY DEF InsertFails, Handling, Labels
<1>4. HandInLog' /\ PositionInLog' /\ OneOwner' /\ AheadInHand' /\ AtMostOneUncommitted'
  BY <1>2, <1>3, HandlingMoves
<1>5. AttemptLeft'
  BY <1>0 DEF TypeOK, AttemptLeft, InsertFails, Goto
<1>6. StoreGrows
  BY <1>0 DEF TypeOK, InsertFails, StoreGrows
<1>7. /\ pc'[c] = "committing" => Settled(hand[c])'
      /\ pc'[c] = "dlq_publish" => dlqRows'[hand[c]] > 0
  BY <1>0 DEF TypeOK, InsertFails, Goto
<1>8. pc'[c] = l
  BY <1>0, <1>3 DEF TypeOK, Goto
<1>9. HandSettled' /\ CommittedAreSettled'
  BY <1>1, <1>2, <1>3, <1>6, <1>7, <1>8, HandlingSettles
<1> QED
  BY <1>1, <1>4, <1>5, <1>9 DEF Inv

\* Retry: the attempt that was left is taken.
LEMMA RetryInv ==
  ASSUME Inv, NEW c \in Consumers, Retry(c)
  PROVE  Inv'
<1>0. /\ TypeOK /\ HandInLog /\ PositionInLog /\ AttemptLeft /\ OneOwner
      /\ AheadInHand /\ AtMostOneUncommitted /\ HandSettled /\ CommittedAreSettled
  BY DEF Inv
<1>1. TypeOK'
  <2>1. pc' \in [Consumers -> Labels]
    BY <1>0 DEF TypeOK, Retry, Goto, Labels
  <2>2. attempt' \in [Consumers -> 0..MaxRetries]
    BY <1>0 DEF TypeOK, Retry, AttemptLeft
  <2> QED
    BY <1>0, <2>1, <2>2 DEF TypeOK, Retry
<1>2. /\ pc[c] \in Handling /\ hand[c] \in Slots
      /\ UNCHANGED <<log, committed, hand, groupVars>>
  BY <1>0, HandTyped DEF Retry, Handling
<1>3. PICK l \in (Handling \cup {"closing"}) \cap Labels : Goto(c, l)
  BY DEF Retry, Handling, Labels
<1>4. HandInLog' /\ PositionInLog' /\ OneOwner' /\ AheadInHand' /\ AtMostOneUncommitted'
  BY <1>2, <1>3, HandlingMoves
<1>5. AttemptLeft'
  BY <1>0 DEF TypeOK, AttemptLeft, Retry, Goto
<1>6. StoreGrows
  BY <1>0 DEF TypeOK, Retry, StoreGrows
<1>7. /\ pc'[c] = "committing" => Settled(hand[c])'
      /\ pc'[c] = "dlq_publish" => dlqRows'[hand[c]] > 0
  BY <1>0 DEF TypeOK, Retry, Goto
<1>8. pc'[c] = l
  BY <1>0, <1>3 DEF TypeOK, Goto
<1>9. HandSettled' /\ CommittedAreSettled'
  BY <1>1, <1>2, <1>3, <1>6, <1>7, <1>8, HandlingSettles
<1> QED
  BY <1>1, <1>4, <1>5, <1>9 DEF Inv

\* DlqInsertSucceeds: the row is there before the topic is written.
LEMMA DlqInsertSucceedsInv ==
  ASSUME Inv, NEW c \in Consumers, DlqInsertSucceeds(c)
  PROVE  Inv'
<1>0. /\ TypeOK /\ HandInLog /\ PositionInLog /\ AttemptLeft /\ OneOwner
      /\ AheadInHand /\ AtMostOneUncommitted /\ HandSettled /\ CommittedAreSettled
  BY DEF Inv
<1>1. TypeOK'
  <2>1. hand[c] \in Slots
    BY <1>0, HandTyped DEF DlqInsertSucceeds, Handling
  <2>2. dlqRows' \in [Slots -> Nat]
    BY <1>0, <2>1 DEF TypeOK, DlqInsertSucceeds, AddDlqRow
  <2>3. pc' \in [Consumers -> Labels]
    BY <1>0 DEF TypeOK, DlqInsertSucceeds, Goto, Labels
  <2> QED
    BY <1>0, <2>2, <2>3 DEF TypeOK, DlqInsertSucceeds
<1>2. /\ pc[c] \in Handling /\ hand[c] \in Slots
      /\ UNCHANGED <<log, committed, hand, groupVars>>
  BY <1>0, HandTyped DEF DlqInsertSucceeds, Handling
<1>3. PICK l \in (Handling \cup {"closing"}) \cap Labels : Goto(c, l)
  BY DEF DlqInsertSucceeds, Handling, Labels
<1>4. HandInLog' /\ PositionInLog' /\ OneOwner' /\ AheadInHand' /\ AtMostOneUncommitted'
  BY <1>2, <1>3, HandlingMoves
<1>5. AttemptLeft'
  BY <1>0 DEF TypeOK, AttemptLeft, DlqInsertSucceeds, Goto
<1>6. StoreGrows
  BY <1>0, <1>2 DEF TypeOK, DlqInsertSucceeds, AddDlqRow, StoreGrows
<1>7. /\ pc'[c] = "committing" => Settled(hand[c])'
      /\ pc'[c] = "dlq_publish" => dlqRows'[hand[c]] > 0
  BY <1>0, <1>2 DEF TypeOK, DlqInsertSucceeds, AddDlqRow, Goto
<1>8. pc'[c] = l
  BY <1>0, <1>3 DEF TypeOK, Goto
<1>9. HandSettled' /\ CommittedAreSettled'
  BY <1>1, <1>2, <1>3, <1>6, <1>7, <1>8, HandlingSettles
<1> QED
  BY <1>1, <1>4, <1>5, <1>9 DEF Inv

\* DlqInsertFails: the instance closes; a row may have been added.
LEMMA DlqInsertFailsInv ==
  ASSUME Inv, NEW c \in Consumers, DlqInsertFails(c)
  PROVE  Inv'
<1>0. /\ TypeOK /\ HandInLog /\ PositionInLog /\ AttemptLeft /\ OneOwner
      /\ AheadInHand /\ AtMostOneUncommitted /\ HandSettled /\ CommittedAreSettled
  BY DEF Inv
<1>1. TypeOK'
  <2>1. hand[c] \in Slots
    BY <1>0, HandTyped DEF DlqInsertFails, Handling
  <2>2. dlqRows' \in [Slots -> Nat]
    <3>1. CASE UNCHANGED dlqRows
      BY <1>0, <3>1 DEF TypeOK
    <3>2. CASE AddDlqRow(c)
      BY <1>0, <2>1, <3>2 DEF TypeOK, AddDlqRow
    <3> QED BY <3>1, <3>2 DEF DlqInsertFails
  <2>3. pc' \in [Consumers -> Labels]
    BY <1>0 DEF TypeOK, DlqInsertFails, Goto, Labels
  <2>4. budget' \in 0..MaxFaults
    BY <1>0 DEF TypeOK, DlqInsertFails, Spend
  <2> QED
    BY <1>0, <2>2, <2>3, <2>4 DEF TypeOK, DlqInsertFails
<1>2. /\ pc[c] \in Handling /\ hand[c] \in Slots
      /\ UNCHANGED <<log, committed, hand, groupVars>>
  BY <1>0, HandTyped DEF DlqInsertFails, Handling
<1>3. PICK l \in (Handling \cup {"closing"}) \cap Labels : Goto(c, l)
  BY DEF DlqInsertFails, Handling, Labels
<1>4. HandInLog' /\ PositionInLog' /\ OneOwner' /\ AheadInHand' /\ AtMostOneUncommitted'
  BY <1>2, <1>3, HandlingMoves
<1>5. AttemptLeft'
  BY <1>0 DEF TypeOK, AttemptLeft, DlqInsertFails, Goto
<1>6. StoreGrows
  <2>1. CASE UNCHANGED dlqRows
    BY <1>0, <2>1 DEF DlqInsertFails, StoreGrows, TypeOK
  <2>2. CASE AddDlqRow(c)
    BY <1>0, <1>2, <2>2 DEF DlqInsertFails, AddDlqRow, StoreGrows, TypeOK
  <2> QED BY <2>1, <2>2 DEF DlqInsertFails
<1>7. /\ pc'[c] = "committing" => Settled(hand[c])'
      /\ pc'[c] = "dlq_publish" => dlqRows'[hand[c]] > 0
  BY <1>0 DEF TypeOK, DlqInsertFails, Goto
<1>8. pc'[c] = l
  BY <1>0, <1>3 DEF TypeOK, Goto
<1>9. HandSettled' /\ CommittedAreSettled'
  BY <1>1, <1>2, <1>3, <1>6, <1>7, <1>8, HandlingSettles
<1> QED
  BY <1>1, <1>4, <1>5, <1>9 DEF Inv

\* DlqPublishSucceeds: row and topic together settle the message in hand.
LEMMA DlqPublishSucceedsInv ==
  ASSUME Inv, NEW c \in Consumers, DlqPublishSucceeds(c)
  PROVE  Inv'
<1>0. /\ TypeOK /\ HandInLog /\ PositionInLog /\ AttemptLeft /\ OneOwner
      /\ AheadInHand /\ AtMostOneUncommitted /\ HandSettled /\ CommittedAreSettled
  BY DEF Inv
<1>1. TypeOK'
  <2>1. hand[c] \in Slots
    BY <1>0, HandTyped DEF DlqPublishSucceeds, Handling
  <2>2. dlqTopic' \in [Slots -> Nat]
    BY <1>0, <2>1 DEF TypeOK, DlqPublishSucceeds, AddDlqMessage
  <2>3. pc' \in [Consumers -> Labels]
    BY <1>0 DEF TypeOK, DlqPublishSucceeds, Goto, Labels
  <2>4. metrics' \in [Consumers -> Metrics]
    <3>0. metrics[c] \in Metrics
      BY <1>0 DEF TypeOK
    <3>1. [metrics[c] EXCEPT !.dlq = @ + 1] \in Metrics
      BY <3>0 DEF Metrics
    <3> QED
      BY <1>0, <3>1 DEF TypeOK, DlqPublishSucceeds, Count
  <2> QED
    BY <1>0, <2>2, <2>3, <2>4 DEF TypeOK, DlqPublishSucceeds
<1>2. /\ pc[c] \in Handling /\ hand[c] \in Slots
      /\ UNCHANGED <<log, committed, hand, groupVars>>
  BY <1>0, HandTyped DEF DlqPublishSucceeds, Handling
<1>3. PICK l \in (Handling \cup {"closing"}) \cap Labels : Goto(c, l)
  BY DEF DlqPublishSucceeds, Handling, Labels
<1>4. HandInLog' /\ PositionInLog' /\ OneOwner' /\ AheadInHand' /\ AtMostOneUncommitted'
  BY <1>2, <1>3, HandlingMoves
<1>5. AttemptLeft'
  BY <1>0 DEF TypeOK, AttemptLeft, DlqPublishSucceeds, Goto
<1>6. StoreGrows
  BY <1>0, <1>2 DEF TypeOK, DlqPublishSucceeds, AddDlqMessage, StoreGrows
<1>7. /\ pc'[c] = "committing" => Settled(hand[c])'
      /\ pc'[c] = "dlq_publish" => dlqRows'[hand[c]] > 0
  <2>1. pc'[c] = "committing" /\ dlqRows[hand[c]] > 0
    BY <1>0 DEF TypeOK, HandSettled, DlqPublishSucceeds, Goto
  <2>2. dlqTopic'[hand[c]] > 0 /\ dlqRows' = dlqRows /\ hand' = hand
    BY <1>0, <1>2 DEF TypeOK, DlqPublishSucceeds, AddDlqMessage
  <2> QED BY <2>1, <2>2 DEF Settled
<1>8. pc'[c] = l
  BY <1>0, <1>3 DEF TypeOK, Goto
<1>9. HandSettled' /\ CommittedAreSettled'
  BY <1>1, <1>2, <1>3, <1>6, <1>7, <1>8, HandlingSettles
<1> QED
  BY <1>1, <1>4, <1>5, <1>9 DEF Inv

\* DlqPublishFails: the instance closes; a DLQ message may have been added.
LEMMA DlqPublishFailsInv ==
  ASSUME Inv, NEW c \in Consumers, DlqPublishFails(c)
  PROVE  Inv'
<1>0. /\ TypeOK /\ HandInLog /\ PositionInLog /\ AttemptLeft /\ OneOwner
      /\ AheadInHand /\ AtMostOneUncommitted /\ HandSettled /\ CommittedAreSettled
  BY DEF Inv
<1>1. TypeOK'
  <2>1. hand[c] \in Slots
    BY <1>0, HandTyped DEF DlqPublishFails, Handling
  <2>2. dlqTopic' \in [Slots -> Nat]
    <3>1. CASE UNCHANGED dlqTopic
      BY <1>0, <3>1 DEF TypeOK
    <3>2. CASE AddDlqMessage(c)
      BY <1>0, <2>1, <3>2 DEF TypeOK, AddDlqMessage
    <3> QED BY <3>1, <3>2 DEF DlqPublishFails
  <2>3. pc' \in [Consumers -> Labels]
    BY <1>0 DEF TypeOK, DlqPublishFails, Goto, Labels
  <2>4. budget' \in 0..MaxFaults
    BY <1>0 DEF TypeOK, DlqPublishFails, Spend
  <2> QED
    BY <1>0, <2>2, <2>3, <2>4 DEF TypeOK, DlqPublishFails
<1>2. /\ pc[c] \in Handling /\ hand[c] \in Slots
      /\ UNCHANGED <<log, committed, hand, groupVars>>
  BY <1>0, HandTyped DEF DlqPublishFails, Handling
<1>3. PICK l \in (Handling \cup {"closing"}) \cap Labels : Goto(c, l)
  BY DEF DlqPublishFails, Handling, Labels
<1>4. HandInLog' /\ PositionInLog' /\ OneOwner' /\ AheadInHand' /\ AtMostOneUncommitted'
  BY <1>2, <1>3, HandlingMoves
<1>5. AttemptLeft'
  BY <1>0 DEF TypeOK, AttemptLeft, DlqPublishFails, Goto
<1>6. StoreGrows
  <2>1. CASE UNCHANGED dlqTopic
    BY <1>0, <2>1 DEF DlqPublishFails, StoreGrows, TypeOK
  <2>2. CASE AddDlqMessage(c)
    BY <1>0, <1>2, <2>2 DEF DlqPublishFails, AddDlqMessage, StoreGrows, TypeOK
  <2> QED BY <2>1, <2>2 DEF DlqPublishFails
<1>7. /\ pc'[c] = "committing" => Settled(hand[c])'
      /\ pc'[c] = "dlq_publish" => dlqRows'[hand[c]] > 0
  BY <1>0 DEF TypeOK, DlqPublishFails, Goto
<1>8. pc'[c] = l
  BY <1>0, <1>3 DEF TypeOK, Goto
<1>9. HandSettled' /\ CommittedAreSettled'
  BY <1>1, <1>2, <1>3, <1>6, <1>7, <1>8, HandlingSettles
<1> QED
  BY <1>1, <1>4, <1>5, <1>9 DEF Inv

\* CommitSucceeds: the offset covers the settled message in hand and no other.
LEMMA CommitSucceedsInv ==
  ASSUME Inv, NEW c \in Consumers, CommitSucceeds(c)
  PROVE  Inv'
<1>0. /\ TypeOK /\ HandInLog /\ PositionInLog /\ AttemptLeft /\ OneOwner
      /\ AheadInHand /\ AtMostOneUncommitted /\ HandSettled /\ CommittedAreSettled
  BY DEF Inv
<1>1. TypeOK'
  BY <1>0 DEF TypeOK, Labels, CommitSucceeds, CommitPositions, Goto
<1>2. HandInLog'
  BY <1>0 DEF TypeOK, HandInLog, Handling, CommitSucceeds, CommitPositions, Goto
<1>3. PositionInLog'
  BY <1>0 DEF TypeOK, PositionInLog, CommitSucceeds, CommitPositions, Goto
<1>4. AttemptLeft'
  BY <1>0 DEF TypeOK, AttemptLeft, CommitSucceeds, CommitPositions, Goto
<1>5. OneOwner'
  BY <1>0 DEF TypeOK, OneOwner, Members, CommitSucceeds, CommitPositions, Goto
<1>6. AheadInHand'
  <2>1. c \in Members /\ Ahead(c)' = {}
    BY <1>0, CommitCovers DEF CommitSucceeds, Members, Ahead
  <2>2. ASSUME NEW d \in Members, d # c
        PROVE  Ahead(d)' = Ahead(d) /\ pc'[d] = pc[d] /\ hand'[d] = hand[d]
    BY <1>0, <2>1, <2>2, CommitCovers DEF CommitSucceeds, Goto, Members, Ahead, TypeOK
  <2> QED
    BY <1>0, <2>1, <2>2 DEF AheadInHand, CommitSucceeds, Members
<1>7. AtMostOneUncommitted'
  <2>1. c \in Members /\ Ahead(c)' = {}
    BY <1>0, CommitCovers DEF CommitSucceeds, Members, Ahead
  <2>2. ASSUME NEW d \in Members, d # c
        PROVE  /\ Ahead(d)' = Ahead(d) /\ pc'[d] = pc[d]
               /\ \A p \in assigned[d] : committed'[p] = committed[p]
    BY <1>0, <2>1, <2>2, CommitCovers DEF CommitSucceeds, Goto, Members, Ahead, TypeOK
  <2> QED
    BY <1>0, <2>1, <2>2 DEF AtMostOneUncommitted, CommitSucceeds, Members, Ahead
<1>8. HandSettled'
  BY <1>0 DEF TypeOK, HandSettled, Settled, MessageAt, CommitSucceeds, CommitPositions, Goto
<1>9. CommittedAreSettled'
  BY CommitSettled DEF CommitSucceeds, Members
<1> QED
  BY <1>1, <1>2, <1>3, <1>4, <1>5, <1>6, <1>7, <1>8, <1>9 DEF Inv

\* CommitFails: the same when the commit took effect and its answer was lost.
LEMMA CommitFailsInv ==
  ASSUME Inv, NEW c \in Consumers, CommitFails(c)
  PROVE  Inv'
<1>0. /\ TypeOK /\ HandInLog /\ PositionInLog /\ AttemptLeft /\ OneOwner
      /\ AheadInHand /\ AtMostOneUncommitted /\ HandSettled /\ CommittedAreSettled
  BY DEF Inv
<1>1. TypeOK'
  <2>1. committed' \in [Partitions -> 0..MaxLog]
    BY <1>0 DEF TypeOK, CommitFails, CommitPositions
  <2>2. pc' \in [Consumers -> Labels]
    BY <1>0 DEF TypeOK, CommitFails, Goto, Labels
  <2>3. budget' \in 0..MaxFaults
    BY <1>0 DEF TypeOK, CommitFails, Spend
  <2> QED
    BY <1>0, <2>1, <2>2, <2>3 DEF TypeOK, CommitFails
<1>2. HandInLog'
  BY <1>0 DEF TypeOK, HandInLog, Handling, CommitFails, CommitPositions, Goto, Spend
<1>3. PositionInLog'
  BY <1>0 DEF TypeOK, PositionInLog, CommitFails, CommitPositions, Goto, Spend
<1>4. AttemptLeft'
  BY <1>0 DEF TypeOK, AttemptLeft, CommitFails, CommitPositions, Goto, Spend
<1>5. OneOwner'
  BY <1>0 DEF TypeOK, OneOwner, Members, CommitFails, CommitPositions, Goto, Spend
<1>6. AheadInHand'
  <2>1. pc'[c] = "closing" /\ \A d \in Consumers \ {c} : pc'[d] = pc[d]
    BY <1>0 DEF CommitFails, Goto, TypeOK
  <2>2. ASSUME NEW d \in Members, d # c PROVE Ahead(d)' = Ahead(d)
    BY <2>2, CommitCovers DEF CommitFails, Members, Ahead
  <2> QED
    BY <1>0, <2>1, <2>2 DEF AheadInHand, CommitFails, Members, Handling
<1>7. AtMostOneUncommitted'
  <2>1. pc'[c] = "closing" /\ \A d \in Consumers \ {c} : pc'[d] = pc[d]
    BY <1>0 DEF CommitFails, Goto, TypeOK
  <2>2. CASE UNCHANGED committed
    BY <1>0, <2>1, <2>2 DEF AtMostOneUncommitted, CommitFails, Members, Ahead, Handling
  <2>3. CASE inGroup[c] /\ CommitPositions(c)
    <3>1. c \in Members /\ Ahead(c)' = {}
      BY <2>3, CommitCovers DEF CommitFails, Members, Ahead
    <3>2. ASSUME NEW d \in Members, d # c
          PROVE  /\ Ahead(d)' = Ahead(d)
                 /\ \A p \in assigned[d] : committed'[p] = committed[p]
      BY <2>3, <3>1, <3>2, CommitCovers DEF CommitFails, Members, Ahead
    <3> QED
      BY <1>0, <2>1, <3>1, <3>2 DEF AtMostOneUncommitted, CommitFails, Members, Ahead
  <2> QED BY <2>2, <2>3 DEF CommitFails
<1>8. HandSettled'
  BY <1>0 DEF TypeOK, HandSettled, Settled, MessageAt, CommitFails, CommitPositions, Goto, Spend
<1>9. CommittedAreSettled'
  <2>1. CASE UNCHANGED committed
    BY <1>0, <2>1 DEF CommitFails, CommittedAreSettled, Settled, MessageAt
  <2>2. CASE inGroup[c] /\ CommitPositions(c)
    BY <2>2, CommitSettled DEF CommitFails, Members
  <2> QED BY <2>1, <2>2 DEF CommitFails
<1> QED
  BY <1>1, <1>2, <1>3, <1>4, <1>5, <1>6, <1>7, <1>8, <1>9 DEF Inv

-----------------------------------------------------------------------------

\* Initially nothing is published, committed or assigned.
LEMMA InitInv == Init => Inv
<1> SUFFICES ASSUME Init PROVE Inv
  OBVIOUS
<1>1. TypeOK
  BY DEF Init, TypeOK, Labels, Metrics, ZeroMetrics
<1>2. Members = {} /\ \A c \in Consumers : pc[c] = "down" /\ assigned[c] = {}
  BY DEF Init, Members
<1> QED
  BY <1>1, <1>2 DEF Init, Inv, HandInLog, PositionInLog, AttemptLeft, OneOwner, AheadInHand,
     HandSettled, AtMostOneUncommitted, CommittedAreSettled, Handling

\* A step that changes nothing keeps Inv.
LEMMA StutterInv == Inv /\ UNCHANGED vars => Inv'
<1> SUFFICES ASSUME Inv, UNCHANGED vars PROVE Inv'
  OBVIOUS
<1>1. TypeOK'
  BY DEF Inv, TypeOK
<1>2. HandInLog' /\ PositionInLog' /\ AttemptLeft'
  BY DEF Inv, HandInLog, PositionInLog, AttemptLeft
<1>3. OneOwner' /\ AheadInHand' /\ AtMostOneUncommitted'
  BY DEF Inv, OneOwner, AheadInHand, AtMostOneUncommitted, Members, Ahead
<1>4. HandSettled' /\ CommittedAreSettled'
  BY DEF Inv, HandSettled, CommittedAreSettled, Settled, MessageAt
<1> QED
  BY <1>1, <1>2, <1>3, <1>4 DEF Inv

\* The invariant is inductive.
LEMMA NextInv == Inv /\ [Next]_vars => Inv'
BY StutterInv, PublishInv, RebalanceInv, SessionExpiresInv, StartInv, SignalInv, KillInv,
   CloseInv, FetchInv, SeeShutdownInv, InsertSucceedsInv, InsertFailsInv, RetryInv,
   DlqInsertSucceedsInv, DlqInsertFailsInv, DlqPublishSucceedsInv, DlqPublishFailsInv,
   CommitSucceedsInv, CommitFailsInv DEF Next, Process, Environment

\* So it holds in every state of every behaviour.
LEMMA Invariance == Spec => []Inv
BY InitInv, NextInv, PTL DEF Spec

\* Type correctness: the retry loop never exceeds consumer_max_retries and no
\* offset leaves the log, whatever faults, rebalances and restarts occur.
THEOREM TypeCorrect == Spec => []TypeOK
<1>1. Inv => TypeOK
  BY DEF Inv
<1> QED BY <1>1, Invariance, PTL

\* consumer/main.py:106-110: no committed offset passes a message that was
\* neither stored nor put in the dead letter queue.
THEOREM NoMessageLost == Spec => []CommittedAreSettled
<1>1. Inv => CommittedAreSettled
  BY DEF Inv
<1> QED BY <1>1, Invariance, PTL

\* A crash of one instance redelivers at most one message.
THEOREM BoundedRedelivery == Spec => []AtMostOneUncommitted
<1>1. Inv => AtMostOneUncommitted
  BY DEF Inv
<1> QED BY <1>1, Invariance, PTL

-----------------------------------------------------------------------------
(* Commits go forward, and the refinement of Delivery.                     *)

\* What a committing instance does to the offsets: the group has either
\* settled one message more, or commits what it had.
LEMMA CommitAcks ==
  ASSUME Inv, NEW c \in Consumers, CommitSucceeds(c) \/ CommitFails(c)
  PROVE  \/ committed' = committed
         \/ /\ hand[c] = <<hand[c][1], committed[hand[c][1]] + 1>>
            /\ hand[c] \in Slots
            /\ committed' = [committed EXCEPT ![hand[c][1]] = @ + 1]
<1>1. pc[c] = "committing"
  BY DEF CommitSucceeds, CommitFails
<1>2. hand[c] \in Slots /\ hand[c][1] \in Partitions
  BY <1>1 DEF Inv, HandInLog, Handling, Slots
<1>3. CASE committed' = committed
  BY <1>3
<1>4. CASE committed' # committed
  <2>1. c \in Members /\ CommitPositions(c)
    BY <1>4 DEF CommitSucceeds, CommitFails, Members
  <2>2. \A p \in Partitions :
          \/ committed'[p] = committed[p]
          \/ committed'[p] = committed[p] + 1 /\ hand[c] = <<p, committed[p] + 1>>
    BY <1>1, <2>1, CommitCovers
  <2>3. /\ committed \in [Partitions -> 0..MaxLog]
        /\ committed' = [p \in Partitions |-> committed'[p]]
    BY <2>1 DEF Inv, TypeOK, CommitPositions
  <2>4. PICK p \in Partitions : committed'[p] # committed[p]
    BY <1>4, <2>3
  <2>5. committed'[p] = committed[p] + 1 /\ hand[c] = <<p, committed[p] + 1>>
    BY <2>2, <2>4
  <2>6. \A q \in Partitions : q # p => committed'[q] = committed[q]
    BY <2>2, <2>5
  <2>7. committed' = [committed EXCEPT ![p] = @ + 1]
    BY <2>3, <2>5, <2>6
  <2> QED BY <1>2, <2>5, <2>7
<1> QED
  BY <1>3, <1>4

\* No other action writes the offsets.
LEMMA OnlyCommits ==
  ASSUME Inv, [Next]_vars
  PROVE  committed' = committed \/ \E c \in Consumers : CommitSucceeds(c) \/ CommitFails(c)
BY DEF Next, Process, Environment, Publish, Rebalance, SessionExpires, Start, Signal, Kill,
       Close, Fetch, SeeShutdown, InsertSucceeds, InsertFails, Retry, DlqInsertSucceeds,
       DlqInsertFails, DlqPublishSucceeds, DlqPublishFails

\* No step takes a committed offset back.
LEMMA CommittedForward ==
  Inv /\ [Next]_vars => \A p \in Partitions : committed'[p] >= committed[p]
<1> SUFFICES ASSUME Inv, [Next]_vars, NEW p \in Partitions
             PROVE  committed'[p] >= committed[p]
  OBVIOUS
<1>1. committed \in [Partitions -> 0..MaxLog] /\ committed[p] \in Nat
  BY DEF Inv, TypeOK
<1>2. CASE committed' = committed
  BY <1>1, <1>2
<1>3. ASSUME NEW c \in Consumers, CommitSucceeds(c) \/ CommitFails(c)
      PROVE  committed'[p] >= committed[p]
  <2>1. committed' = committed \/ \E q \in Partitions : committed' = [committed EXCEPT ![q] = @ + 1]
    BY <1>3, CommitAcks DEF Slots
  <2> QED BY <1>1, <2>1
<1> QED
  BY <1>2, <1>3, OnlyCommits

\* A committed offset never goes back, whoever commits: a stale member, a
\* member that rejoined, an instance on its way out.
THEOREM CommitsForward == Spec => CommitNeverRewinds
<1>1. Inv /\ [Next]_vars =>
        [\A p \in Partitions : committed'[p] >= committed[p]]_vars
  BY CommittedForward
<1> QED
  BY <1>1, Invariance, PTL DEF Spec, CommitNeverRewinds

\* The initial states of the consumer are initial states of Delivery.
LEMMA RefinesInit == Init => D!Init
<1> SUFFICES ASSUME Init PROVE Buried = {}
  BY DEF Init, D!Init
<1> QED
  BY DEF Init, Buried

\* A step that leaves the log, the offsets and both stores alone stutters.
LEMMA RefinesStutter ==
  ASSUME UNCHANGED <<log, committed, rows, dlqRows, dlqTopic>>
  PROVE  UNCHANGED D!vars
BY DEF D!vars, Buried

\* Publishing is publishing.
LEMMA RefinesPublish ==
  ASSUME NEW e \in Events, NEW k \in Kinds, Publish(e, k)
  PROVE  D!Next
<1> DEFINE m == [event |-> e, kind |-> k]
<1>1. m \in D!Message /\ m.event = e
  BY DEF D!Message
<1>2. Buried' = Buried
  BY DEF Buried, Publish
<1>3. D!Publish(m)
  BY <1>1, <1>2 DEF D!Publish, Publish
<1> QED
  BY <1>1, <1>3 DEF D!Next

\* The place in the log that an instance's message comes from.
LEMMA HandPublished ==
  ASSUME Inv, NEW c \in Consumers, pc[c] \in Handling
  PROVE  /\ hand[c][1] \in Partitions
         /\ hand[c][2] \in D!Published(hand[c][1])
         /\ hand[c] = <<hand[c][1], hand[c][2]>>
         /\ hand[c] \in Slots
BY DEF Inv, HandInLog, TypeOK, Slots, D!Published

\* insert_event's commit, acknowledged or not, stores the event.
LEMMA RefinesStore ==
  ASSUME Inv, NEW c \in Consumers, InsertSucceeds(c) \/ InsertFails(c)
  PROVE  D!Next \/ UNCHANGED D!vars
<1>1. pc[c] \in Handling /\ UNCHANGED <<log, committed, dlqRows, dlqTopic>>
  BY DEF InsertSucceeds, InsertFails, Handling
<1>2. \/ rows' = rows
      \/ Current(c).kind = "valid" /\ rows' = rows \cup {Current(c).event}
  BY DEF InsertSucceeds, InsertFails
<1>3. CASE rows' = rows
  BY <1>1, <1>3, RefinesStutter
<1>4. CASE Current(c).kind = "valid" /\ rows' = rows \cup {Current(c).event}
  <2>1. Buried' = Buried
    BY <1>1 DEF Buried
  <2>2. D!Store(hand[c][1], hand[c][2])
    BY <1>1, <1>4, <2>1, HandPublished DEF D!Store, Current, MessageAt
  <2> QED BY <1>1, <2>2, HandPublished DEF D!Next
<1> QED
  BY <1>2, <1>3, <1>4

\* The second of DLQHandler.send's two writes to take effect buries the message.
LEMMA RefinesBury ==
  ASSUME Inv, NEW c \in Consumers, pc[c] \in Handling,
         UNCHANGED <<log, committed, rows>>,
         \/ AddDlqRow(c) /\ dlqTopic' = dlqTopic
         \/ AddDlqMessage(c) /\ dlqRows' = dlqRows
  PROVE  D!Next \/ UNCHANGED D!vars
<1>1. dlqRows \in [Slots -> Nat] /\ dlqTopic \in [Slots -> Nat] /\ hand[c] \in Slots
  BY HandPublished DEF Inv, TypeOK
<1>2. Buried' = Buried \/ Buried' = Buried \cup {hand[c]}
  <2>1. \A s \in Slots : s # hand[c] => dlqRows'[s] = dlqRows[s] /\ dlqTopic'[s] = dlqTopic[s]
    BY <1>1 DEF AddDlqRow, AddDlqMessage
  <2>2. dlqRows'[hand[c]] >= dlqRows[hand[c]] /\ dlqTopic'[hand[c]] >= dlqTopic[hand[c]]
    BY <1>1 DEF AddDlqRow, AddDlqMessage
  <2>3. dlqRows' \in [Slots -> Nat] /\ dlqTopic' \in [Slots -> Nat]
    BY <1>1 DEF AddDlqRow, AddDlqMessage
  <2> QED BY <1>1, <2>1, <2>2, <2>3 DEF Buried
<1>3. CASE Buried' = Buried
  BY <1>3 DEF D!vars
<1>4. CASE Buried' = Buried \cup {hand[c]}
  <2>1. D!Bury(hand[c][1], hand[c][2])
    BY <1>4, HandPublished DEF D!Bury
  <2> QED BY <2>1, HandPublished DEF D!Next
<1> QED
  BY <1>2, <1>3, <1>4

\* Each of the four DLQ steps buries the message in hand or changes nothing.
LEMMA RefinesDlq ==
  ASSUME Inv, NEW c \in Consumers,
         \/ DlqInsertSucceeds(c) \/ DlqInsertFails(c)
         \/ DlqPublishSucceeds(c) \/ DlqPublishFails(c)
  PROVE  D!Next \/ UNCHANGED D!vars
<1>1. pc[c] \in Handling /\ UNCHANGED <<log, committed, rows>>
  BY DEF DlqInsertSucceeds, DlqInsertFails, DlqPublishSucceeds, DlqPublishFails, Handling
<1>2. \/ AddDlqRow(c) /\ dlqTopic' = dlqTopic
      \/ AddDlqMessage(c) /\ dlqRows' = dlqRows
      \/ UNCHANGED <<dlqRows, dlqTopic>>
  BY DEF DlqInsertSucceeds, DlqInsertFails, DlqPublishSucceeds, DlqPublishFails
<1> QED
  BY <1>1, <1>2, RefinesBury, RefinesStutter

\* A commit acknowledges at most the message in hand, which is settled.
LEMMA RefinesAck ==
  ASSUME Inv, NEW c \in Consumers, CommitSucceeds(c) \/ CommitFails(c)
  PROVE  D!Next \/ UNCHANGED D!vars
<1>1. pc[c] = "committing" /\ UNCHANGED <<log, rows, dlqRows, dlqTopic>>
  BY DEF CommitSucceeds, CommitFails
<1>2. CASE committed' = committed
  BY <1>1, <1>2, RefinesStutter
<1>3. CASE /\ hand[c] = <<hand[c][1], committed[hand[c][1]] + 1>>
           /\ hand[c] \in Slots
           /\ committed' = [committed EXCEPT ![hand[c][1]] = @ + 1]
  <2> DEFINE p == hand[c][1]
             n == hand[c][2]
  <2>1. p \in Partitions /\ n \in D!Published(p) /\ n = committed[p] + 1 /\ hand[c] = <<p, n>>
    BY <1>1, <1>3, HandPublished DEF Handling
  <2>2. Settled(<<p, n>>) /\ <<p, n>> \in Slots
    BY <1>1, <1>3, <2>1 DEF Inv, HandSettled
  <2>3. D!Safe(p, n)
    BY <2>2 DEF Settled, MessageAt, D!Safe, Buried
  <2>4. Buried' = Buried
    BY <1>1 DEF Buried
  <2>5. D!Ack(p)
    <3> HIDE DEF n
    <3> QED BY <1>1, <1>3, <2>1, <2>3, <2>4 DEF D!Ack
  <2> QED BY <2>1, <2>5 DEF D!Next
<1> QED
  BY <1>2, <1>3, CommitAcks

\* Every step of the consumer group is a step of Delivery or a stutter.
LEMMA RefinesNext ==
  ASSUME Inv, [Next]_vars
  PROVE  D!Next \/ UNCHANGED D!vars
<1>1. ASSUME NEW e \in Events, NEW k \in Kinds, Publish(e, k)
      PROVE  D!Next
  BY <1>1, RefinesPublish
<1>2. ASSUME NEW c \in Consumers,
             \/ InsertSucceeds(c) \/ InsertFails(c)
             \/ DlqInsertSucceeds(c) \/ DlqInsertFails(c)
             \/ DlqPublishSucceeds(c) \/ DlqPublishFails(c)
             \/ CommitSucceeds(c) \/ CommitFails(c)
      PROVE  D!Next \/ UNCHANGED D!vars
  BY <1>2, RefinesStore, RefinesDlq, RefinesAck
<1>3. ASSUME NEW c \in Consumers,
             \/ \E p \in Partitions : Fetch(c, p)
             \/ SeeShutdown(c) \/ Retry(c) \/ Close(c) \/ Start(c)
             \/ Signal(c) \/ Kill(c) \/ SessionExpires(c)
      PROVE  UNCHANGED <<log, committed, rows, dlqRows, dlqTopic>>
  BY <1>3 DEF Fetch, SeeShutdown, Retry, Close, Start, Signal, Kill, SessionExpires
<1>4. ASSUME NEW S \in SUBSET Running, NEW owner \in [Partitions -> S], Rebalance(S, owner)
      PROVE  UNCHANGED <<log, committed, rows, dlqRows, dlqTopic>>
  BY <1>4 DEF Rebalance
<1>5. CASE UNCHANGED vars
  BY <1>5, RefinesStutter
<1> QED
  BY <1>1, <1>2, <1>3, <1>4, <1>5, RefinesStutter DEF Next, Process, Environment

\* The consumer group implements Delivery: messages are acknowledged one at a
\* time, in order, each once it is stored or in the dead letter queue.
THEOREM Refinement == Spec => ImplementsDelivery
<1>1. Inv /\ [Next]_vars => [D!Next]_(D!vars)
  BY RefinesNext
<1> QED
  BY <1>1, RefinesInit, Invariance, PTL DEF Spec, ImplementsDelivery, D!Spec

-----------------------------------------------------------------------------
(* What the group inherits from Delivery                                   *)

P == INSTANCE DeliveryProofs WITH acked <- committed, stored <- rows, dead <- Buried

LEMMA KeyedHere == P!Keyed
BY ConstantsAssumption DEF P!Keyed

LEMMA PromiseHere == Spec => P!Spec
<1>1. D!Init => P!Init
  BY DEF D!Init, P!Init
<1>2. [D!Next]_(D!vars) => [P!Next]_(P!vars)
  BY DEF D!Next, P!Next, D!vars, P!vars, D!Message, P!Message, D!Publish, P!Publish,
         D!Store, P!Store, D!Bury, P!Bury, D!Ack, P!Ack, D!Published, P!Published,
         D!Safe, P!Safe
<1> QED
  BY <1>1, <1>2, Refinement, PTL DEF ImplementsDelivery, D!Spec, P!Spec

\* A row of the events table is that of a valid message of events.raw, in the
\* partition of its event: redeliveries and retries make no row up.
THEOREM RowsComeFromMessages ==
  Spec => [](\A e \in rows : \E n \in 1..Len(log[PartitionOf[e]]) :
               log[PartitionOf[e]][n] = [event |-> e, kind |-> "valid"])
<1> DEFINE fromMessage(e) == \E n \in 1..Len(log[PartitionOf[e]]) :
                               log[PartitionOf[e]][n] = [event |-> e, kind |-> "valid"]
<1>1. Spec => []P!NothingFromNowhere
  BY KeyedHere, PromiseHere, P!PromiseInventsNothing, PTL
<1>2. Spec => []P!OnePartitionPerEvent
  BY KeyedHere, PromiseHere, P!PromiseKeepsPartitions, PTL
<1>3. P!NothingFromNowhere /\ P!OnePartitionPerEvent => \A e \in rows : fromMessage(e)
  <2> SUFFICES ASSUME P!NothingFromNowhere, P!OnePartitionPerEvent, NEW e \in rows
               PROVE  fromMessage(e)
    OBVIOUS
  <2>1. PICK p \in Partitions : \E n \in 1..Len(log[p]) :
          log[p][n] = [event |-> e, kind |-> "valid"]
    BY DEF P!NothingFromNowhere, P!Published
  <2>2. PICK n \in 1..Len(log[p]) : log[p][n] = [event |-> e, kind |-> "valid"]
    BY <2>1
  <2>3. PartitionOf[e] = p
    BY <2>2 DEF P!OnePartitionPerEvent, P!Published
  <2> QED
    BY <2>2, <2>3
<1> QED
  BY <1>1, <1>2, <1>3, PTL

\* consumer.commit() names no offsets (consumer/main.py:110): it commits the
\* position of every assigned partition.  All the same a commit covers one message
\* of one partition, the one that was handled, through every rebalance.
THEOREM CommitCoversOneMessage ==
  Spec => [][\E p \in Partitions : committed' = [committed EXCEPT ![p] = @ + 1]]_committed
<1>1. [D!Next]_(D!vars) =>
        [\E p \in Partitions : committed' = [committed EXCEPT ![p] = @ + 1]]_committed
  BY DEF D!Next, D!vars, D!Publish, D!Store, D!Bury, D!Ack
<1> QED
  BY <1>1, Refinement, PTL DEF ImplementsDelivery, D!Spec

-----------------------------------------------------------------------------
(* The two halves of a DLQ entry                                           *)

\* The instances that have written the row of slot s and not its message.
Publishing(s) == {c \in Consumers : pc[c] = "dlq_publish" /\ hand[c] = s}

\* DlqMessagesHaveRows is not inductive: two instances may be between the halves
\* of an entry for the same slot, and each has a row of its own.
RowsAhead == \A s \in Slots : dlqTopic[s] + Cardinality(Publishing(s)) <= dlqRows[s]

LEMMA PublishingFinite ==
  ASSUME NEW s
  PROVE  /\ IsFiniteSet(Publishing(s)) /\ IsFiniteSet(Publishing(s)')
         /\ Cardinality(Publishing(s)) \in Nat /\ Cardinality(Publishing(s)') \in Nat
<1>1. Publishing(s) \in SUBSET Consumers /\ Publishing(s)' \in SUBSET Consumers
  BY DEF Publishing
<1> QED BY <1>1, FS_Subset, FS_CardinalityType

\* Steps that publish nothing to events.dlq and bring nobody to publishing.
LEMMA QuietRows ==
  ASSUME TypeOK, TypeOK', RowsAhead, UNCHANGED dlqTopic,
         \A s \in Slots : dlqRows'[s] >= dlqRows[s],
         \A d \in Consumers : pc'[d] = "dlq_publish" => pc[d] = "dlq_publish" /\ hand'[d] = hand[d]
  PROVE  RowsAhead'
<1> SUFFICES ASSUME NEW s \in Slots
             PROVE  dlqTopic'[s] + Cardinality(Publishing(s)') <= dlqRows'[s]
  BY DEF RowsAhead
<1>1. Publishing(s)' \subseteq Publishing(s)
  BY DEF Publishing
<1>2. Cardinality(Publishing(s)') <= Cardinality(Publishing(s))
  BY <1>1, PublishingFinite, FS_Subset
<1>3. dlqTopic[s] \in Nat /\ dlqRows[s] \in Nat /\ dlqRows'[s] \in Nat /\ dlqTopic'[s] = dlqTopic[s]
  BY DEF TypeOK
<1>4. dlqTopic[s] + Cardinality(Publishing(s)) <= dlqRows[s] /\ dlqRows'[s] >= dlqRows[s]
  BY DEF RowsAhead
<1> QED BY <1>2, <1>3, <1>4, PublishingFinite

\* The row is written: one more instance may publish, one more row is there.
LEMMA RowWritten ==
  ASSUME TypeOK, HandInLog, RowsAhead, NEW c \in Consumers, DlqInsertSucceeds(c)
  PROVE  RowsAhead'
<1> SUFFICES ASSUME NEW s \in Slots
             PROVE  dlqTopic'[s] + Cardinality(Publishing(s)') <= dlqRows'[s]
  BY DEF RowsAhead
<1>1. /\ pc[c] = "dlq_insert" /\ pc' = [pc EXCEPT ![c] = "dlq_publish"]
      /\ dlqRows' = [dlqRows EXCEPT ![hand[c]] = @ + 1]
      /\ UNCHANGED <<dlqTopic, hand>>
  BY DEF DlqInsertSucceeds, AddDlqRow, Goto
<1>2. dlqTopic[s] \in Nat /\ dlqRows[s] \in Nat /\ hand[c] \in Slots
  BY <1>1, HandTyped DEF TypeOK, Handling
<1>3. dlqTopic[s] + Cardinality(Publishing(s)) <= dlqRows[s]
  BY DEF RowsAhead
<1>4. CASE hand[c] = s
  <2>1. Publishing(s)' = Publishing(s) \cup {c} /\ c \notin Publishing(s)
    BY <1>1, <1>4 DEF Publishing, TypeOK
  <2>2. Cardinality(Publishing(s)') = Cardinality(Publishing(s)) + 1
    BY <2>1, PublishingFinite, FS_AddElement
  <2>3. dlqRows'[s] = dlqRows[s] + 1
    BY <1>1, <1>4 DEF TypeOK
  <2> QED BY <1>1, <1>2, <1>3, <2>2, <2>3, PublishingFinite
<1>5. CASE hand[c] # s
  <2>1. Publishing(s)' = Publishing(s)
    BY <1>1, <1>5 DEF Publishing, TypeOK
  <2>2. dlqRows'[s] = dlqRows[s]
    BY <1>1, <1>2, <1>5 DEF TypeOK
  <2> QED BY <1>1, <1>3, <2>1, <2>2
<1> QED BY <1>4, <1>5

\* The message is published, or not, and its instance publishes no more.
LEMMA MessagePublished ==
  ASSUME TypeOK, HandInLog, RowsAhead, NEW c \in Consumers,
         DlqPublishSucceeds(c) \/ DlqPublishFails(c)
  PROVE  RowsAhead'
<1> SUFFICES ASSUME NEW s \in Slots
             PROVE  dlqTopic'[s] + Cardinality(Publishing(s)') <= dlqRows'[s]
  BY DEF RowsAhead
<1>1. /\ pc[c] = "dlq_publish" /\ UNCHANGED <<dlqRows, hand>>
      /\ UNCHANGED dlqTopic \/ dlqTopic' = [dlqTopic EXCEPT ![hand[c]] = @ + 1]
  BY DEF DlqPublishSucceeds, DlqPublishFails, AddDlqMessage
<1>2. \A d \in Consumers : pc'[d] = "dlq_publish" <=> pc[d] = "dlq_publish" /\ d # c
  BY <1>1 DEF DlqPublishSucceeds, DlqPublishFails, Goto, TypeOK
<1>3. dlqTopic[s] \in Nat /\ dlqRows[s] \in Nat /\ hand[c] \in Slots
  BY <1>1, HandTyped DEF TypeOK, Handling
<1>4. dlqTopic[s] + Cardinality(Publishing(s)) <= dlqRows[s]
  BY DEF RowsAhead
<1>5. CASE hand[c] = s
  <2>1. Publishing(s)' = Publishing(s) \ {c} /\ c \in Publishing(s)
    BY <1>1, <1>2, <1>5 DEF Publishing
  <2>2. Cardinality(Publishing(s)') = Cardinality(Publishing(s)) - 1
    BY <2>1, PublishingFinite, FS_RemoveElement
  <2>3. dlqTopic'[s] \in {dlqTopic[s], dlqTopic[s] + 1}
    BY <1>1, <1>3, <1>5 DEF TypeOK
  <2> QED BY <1>1, <1>3, <1>4, <2>2, <2>3, PublishingFinite
<1>6. CASE hand[c] # s
  <2>1. Publishing(s)' = Publishing(s)
    BY <1>1, <1>2, <1>6 DEF Publishing
  <2>2. dlqTopic'[s] = dlqTopic[s]
    BY <1>1, <1>3, <1>6 DEF TypeOK
  <2> QED BY <1>1, <1>4, <2>1, <2>2
<1> QED BY <1>5, <1>6

LEMMA RowsAheadNext == Inv /\ RowsAhead /\ [Next]_vars => RowsAhead'
<1> SUFFICES ASSUME Inv, RowsAhead, [Next]_vars PROVE RowsAhead'
  OBVIOUS
<1>0. TypeOK /\ HandInLog /\ TypeOK'
  BY NextInv DEF Inv
<1>1. ASSUME UNCHANGED storeVars, UNCHANGED <<pc, hand>>
      PROVE  RowsAhead'
  BY <1>1 DEF RowsAhead, Publishing
<1>2. ASSUME NEW c \in Consumers, NEW l \in Labels \ {"dlq_publish"}, Goto(c, l),
             \A d \in Consumers \ {c} : hand'[d] = hand[d],
             UNCHANGED dlqTopic, \A s \in Slots : dlqRows'[s] >= dlqRows[s]
      PROVE  RowsAhead'
  BY <1>0, <1>2, QuietRows DEF Goto, TypeOK
<1>3. ASSUME UNCHANGED dlqRows
      PROVE  \A s \in Slots : dlqRows'[s] >= dlqRows[s]
  BY <1>0, <1>3 DEF TypeOK
<1>4. CASE UNCHANGED vars \/ (\E e \in Events, k \in Kinds : Publish(e, k))
           \/ (\E S \in SUBSET Running : \E owner \in [Partitions -> S] : Rebalance(S, owner))
  BY <1>1, <1>4 DEF Publish, Rebalance
<1>5. CASE \E c \in Consumers : Signal(c) \/ SessionExpires(c)
  BY <1>1, <1>5 DEF Signal, SessionExpires
<1>6. ASSUME NEW c \in Consumers, Start(c) \/ SeeShutdown(c) \/ Retry(c)
      PROVE  RowsAhead'
  BY <1>2, <1>3, <1>6 DEF Start, SeeShutdown, Retry, Labels
<1>7. ASSUME NEW c \in Consumers, Kill(c) \/ Close(c)
      PROVE  RowsAhead'
  BY <1>0, <1>2, <1>3, <1>7 DEF Kill, Close, Exit, Labels, TypeOK
<1>8. ASSUME NEW c \in Consumers, NEW p \in Partitions, Fetch(c, p)
      PROVE  RowsAhead'
  <2>1. \A k : FirstStep(k) \in Labels \ {"dlq_publish"}
    BY DEF FirstStep, Labels
  <2> QED BY <1>0, <1>2, <1>3, <1>8, <2>1 DEF Fetch, TypeOK
<1>9. ASSUME NEW c \in Consumers, InsertSucceeds(c) \/ InsertFails(c)
      PROVE  RowsAhead'
  BY <1>2, <1>3, <1>9 DEF InsertSucceeds, InsertFails, Labels
<1>10. ASSUME NEW c \in Consumers, CommitSucceeds(c) \/ CommitFails(c)
       PROVE  RowsAhead'
  BY <1>0, <1>2, <1>3, <1>10 DEF CommitSucceeds, CommitFails, Labels, TypeOK
<1>11. ASSUME NEW c \in Consumers, DlqInsertFails(c)
       PROVE  RowsAhead'
  <2>1. hand[c] \in Slots
    BY <1>0, <1>11, HandTyped DEF DlqInsertFails, Handling
  <2>2. \A s \in Slots : dlqRows'[s] >= dlqRows[s]
    <3>1. dlqRows' = dlqRows \/ dlqRows' = [dlqRows EXCEPT ![hand[c]] = @ + 1]
      BY <1>11 DEF DlqInsertFails, AddDlqRow
    <3>2. dlqRows \in [Slots -> Nat]
      BY <1>0 DEF TypeOK
    <3> QED BY <2>1, <3>1, <3>2
  <2> QED BY <1>2, <1>11, <2>2 DEF DlqInsertFails, Labels
<1>12. ASSUME NEW c \in Consumers,
              DlqInsertSucceeds(c) \/ DlqPublishSucceeds(c) \/ DlqPublishFails(c)
       PROVE  RowsAhead'
  BY <1>0, <1>12, RowWritten, MessagePublished
<1> QED BY <1>4, <1>5, <1>6, <1>7, <1>8, <1>9, <1>10, <1>11, <1>12
    DEF Next, Process, Environment

\* app/core/dlq.py:46-62: every message on events.dlq has a row of its own behind
\* it, whichever of the two writes fail and however often a message is redelivered.
THEOREM DlqMessagesHaveRowsHolds == Spec => []DlqMessagesHaveRows
<1>1. Init => RowsAhead
  <2> SUFFICES ASSUME Init, NEW s \in Slots
               PROVE  dlqTopic[s] + Cardinality(Publishing(s)) <= dlqRows[s]
    BY DEF RowsAhead
  <2>1. Publishing(s) = {}
    BY DEF Init, Publishing
  <2> QED BY <2>1, FS_EmptySet DEF Init
<1>2. Inv /\ RowsAhead /\ [Next]_vars => (Inv /\ RowsAhead)'
  BY NextInv, RowsAheadNext
<1>3. Inv /\ RowsAhead => DlqMessagesHaveRows
  <2> SUFFICES ASSUME Inv, RowsAhead, NEW s \in Slots PROVE dlqTopic[s] <= dlqRows[s]
    BY DEF DlqMessagesHaveRows
  <2>1. dlqTopic[s] \in Nat /\ dlqRows[s] \in Nat
    BY DEF Inv, TypeOK
  <2>2. dlqTopic[s] + Cardinality(Publishing(s)) <= dlqRows[s]
    BY DEF RowsAhead
  <2> QED BY <2>1, <2>2, PublishingFinite
<1> QED BY InitInv, <1>1, <1>2, <1>3, PTL DEF Spec

-----------------------------------------------------------------------------
(* The counters of several instances                                       *)

persisted == [c \in Consumers |-> metrics[c].persisted]

\* The table has no more rows than were inserted, so they can be counted.
Counted == IsFiniteSet(rows) /\ SumFunction(persisted) <= Cardinality(rows)

\* Nobody counts a row, and rows are only added.
LEMMA QuietCounters ==
  ASSUME TypeOK, TypeOK', Counted, NEW c \in Consumers,
         \A d \in Consumers : d # c => metrics'[d] = metrics[d],
         metrics'[c].persisted <= metrics[c].persisted,
         rows' = rows \/ \E e : rows' = rows \cup {e}
  PROVE  Counted'
<1>1. persisted \in [Consumers -> Nat] /\ persisted' \in [Consumers -> Nat]
  BY DEF TypeOK, Metrics, persisted
<1>2. /\ persisted[c] = metrics[c].persisted /\ persisted'[c] = metrics'[c].persisted
      /\ \A d \in Consumers : d # c => persisted'[d] = persisted[d]
  BY DEF persisted
<1>3. SumFunction(persisted') + persisted[c] = SumFunction(persisted) + persisted'[c]
  BY <1>1, <1>2, SumChanges
<1>4. IsFiniteSet(rows') /\ Cardinality(rows) <= Cardinality(rows')
  <2>1. IsFiniteSet(rows) /\ Cardinality(rows) \in Nat
    BY FS_CardinalityType DEF Counted
  <2>2. CASE rows' = rows
    BY <2>1, <2>2
  <2>3. ASSUME NEW e, rows' = rows \cup {e}
        PROVE  IsFiniteSet(rows') /\ Cardinality(rows) <= Cardinality(rows')
    <3>1. /\ IsFiniteSet(rows')
          /\ Cardinality(rows') = IF e \in rows THEN Cardinality(rows) ELSE Cardinality(rows) + 1
      BY <2>1, <2>3, FS_AddElement
    <3> QED BY <2>1, <3>1
  <2> QED BY <2>2, <2>3
<1>5. SumFunction(persisted) \in Nat /\ SumFunction(persisted') \in Nat
  BY <1>1, SumTyped
<1>6. Cardinality(rows) \in Nat /\ Cardinality(rows') \in Nat
  BY <1>4, FS_CardinalityType DEF Counted
<1>7. persisted[c] \in Nat /\ persisted'[c] \in Nat /\ persisted'[c] <= persisted[c]
  BY <1>1, <1>2
<1>8. SumFunction(persisted) <= Cardinality(rows)
  BY DEF Counted
<1> DEFINE before == SumFunction(persisted)
           after  == SumFunction(persisted')
           there  == Cardinality(rows)
           now    == Cardinality(rows')
<1> HIDE DEF before, after, there, now
<1>9. after <= now
  BY <1>3, <1>4, <1>5, <1>6, <1>7, <1>8 DEF before, after, there, now
<1> QED BY <1>4, <1>9 DEF Counted, after, now

\* insert_event's RETURNING has a row exactly for a row that is new.
LEMMA InsertCounted ==
  ASSUME TypeOK, TypeOK', Counted, NEW c \in Consumers, InsertSucceeds(c)
  PROVE  Counted'
<1> DEFINE e == Current(c).event
<1>1. metrics[c] \in Metrics
  BY DEF TypeOK
<1>2. CASE e \in rows
  <2>1. rows' = rows
    BY <1>2 DEF InsertSucceeds
  <2>2. metrics' = [metrics EXCEPT ![c] = [metrics[c] EXCEPT !.skipped = @ + 1]]
    BY <1>2 DEF InsertSucceeds, Count
  <2>3. metrics'[c].persisted = metrics[c].persisted
    BY <1>1, <2>2 DEF TypeOK, Metrics
  <2>4. \A d \in Consumers : d # c => metrics'[d] = metrics[d]
    BY <2>2 DEF TypeOK
  <2>5. metrics'[c].persisted <= metrics[c].persisted
    BY <1>1, <2>3 DEF Metrics
  <2> QED BY <2>1, <2>4, <2>5, QuietCounters
<1>3. CASE e \notin rows
  <2>1. rows' = rows \cup {e}
    BY DEF InsertSucceeds
  <2>2. metrics' = [metrics EXCEPT ![c] = [metrics[c] EXCEPT !.persisted = @ + 1]]
    BY <1>3 DEF InsertSucceeds, Count
  <2>3. metrics'[c].persisted = metrics[c].persisted + 1 /\ metrics[c].persisted \in Nat
    BY <1>1, <2>2 DEF TypeOK, Metrics
  <2>4. \A d \in Consumers : d # c => metrics'[d] = metrics[d]
    BY <2>2 DEF TypeOK
  <2>5. persisted \in [Consumers -> Nat] /\ persisted' \in [Consumers -> Nat]
    BY DEF TypeOK, Metrics, persisted
  <2>6. /\ persisted'[c] = persisted[c] + 1 /\ persisted[c] \in Nat
        /\ \A d \in Consumers : d # c => persisted'[d] = persisted[d]
    BY <2>3, <2>4 DEF persisted
  <2>7. SumFunction(persisted') + persisted[c] = SumFunction(persisted) + persisted'[c]
    BY <2>5, <2>6, SumChanges
  <2>8. SumFunction(persisted) \in Nat /\ SumFunction(persisted') \in Nat
    BY <2>5, SumTyped
  <2> HIDE DEF e
  <2>9. IsFiniteSet(rows') /\ Cardinality(rows') = Cardinality(rows) + 1
    BY <1>3, <2>1, FS_AddElement DEF Counted
  <2>10. Cardinality(rows) \in Nat /\ SumFunction(persisted) <= Cardinality(rows)
    BY FS_CardinalityType DEF Counted
  <2> DEFINE before == SumFunction(persisted)
             after  == SumFunction(persisted')
  <2> HIDE DEF before, after
  <2>11. after = before + 1
    BY <2>6, <2>7, <2>8 DEF before, after
  <2>12. after <= Cardinality(rows')
    BY <2>8, <2>9, <2>10, <2>11 DEF before
  <2> QED BY <2>9, <2>12 DEF Counted, after
<1> QED BY <1>2, <1>3

LEMMA CountedNext == Inv /\ Counted /\ [Next]_vars => Counted'
<1> SUFFICES ASSUME Inv, Counted, [Next]_vars PROVE Counted'
  OBVIOUS
<1>0. TypeOK /\ TypeOK'
  BY NextInv DEF Inv
<1>1. ASSUME UNCHANGED <<metrics, rows>>
      PROVE  Counted'
  BY <1>1 DEF Counted, persisted
<1>2. ASSUME NEW c \in Consumers, NEW m \in Metrics, Count(c, m),
             m.persisted <= metrics[c].persisted,
             rows' = rows \/ \E e : rows' = rows \cup {e}
      PROVE  Counted'
  <2>1. metrics'[c] = m /\ \A d \in Consumers : d # c => metrics'[d] = metrics[d]
    BY <1>0, <1>2 DEF Count, TypeOK
  <2> QED BY <1>0, <1>2, <2>1, QuietCounters
<1>3. CASE UNCHANGED vars \/ (\E e \in Events, k \in Kinds : Publish(e, k))
           \/ (\E S \in SUBSET Running : \E owner \in [Partitions -> S] : Rebalance(S, owner))
  BY <1>1, <1>3 DEF Publish, Rebalance
<1>4. ASSUME NEW c \in Consumers,
             \/ Start(c) \/ Signal(c) \/ SessionExpires(c)
             \/ (\E p \in Partitions : Fetch(c, p)) \/ SeeShutdown(c) \/ Retry(c)
             \/ DlqInsertSucceeds(c) \/ DlqInsertFails(c) \/ DlqPublishFails(c)
             \/ CommitSucceeds(c) \/ CommitFails(c)
      PROVE  Counted'
  BY <1>1, <1>4 DEF Start, Signal, SessionExpires, Fetch, SeeShutdown, Retry, DlqInsertSucceeds,
     DlqInsertFails, DlqPublishFails, CommitSucceeds, CommitFails
<1>5. ASSUME NEW c \in Consumers, Kill(c) \/ Close(c)
      PROVE  Counted'
  <2>1. ZeroMetrics \in Metrics /\ ZeroMetrics.persisted <= metrics[c].persisted
    BY <1>0 DEF TypeOK, ZeroMetrics, Metrics
  <2> QED BY <1>2, <1>5, <2>1 DEF Kill, Close, Exit
<1>6. ASSUME NEW c \in Consumers, InsertFails(c)
      PROVE  Counted'
  <2>1. metrics' = metrics /\ (rows' = rows \/ \E e : rows' = rows \cup {e})
    BY <1>6 DEF InsertFails
  <2>2. metrics[c].persisted \in Nat
    BY <1>0 DEF TypeOK, Metrics
  <2> QED BY <1>0, <2>1, <2>2, QuietCounters
<1>7. ASSUME NEW c \in Consumers, DlqPublishSucceeds(c)
      PROVE  Counted'
  <2> DEFINE m == [metrics[c] EXCEPT !.dlq = @ + 1]
  <2>0. metrics[c] \in Metrics
    BY <1>0 DEF TypeOK
  <2>1. m \in Metrics /\ m.persisted <= metrics[c].persisted
    BY <2>0 DEF Metrics
  <2> HIDE DEF m
  <2> QED BY <1>2, <1>7, <2>1 DEF DlqPublishSucceeds, m
<1>8. ASSUME NEW c \in Consumers, InsertSucceeds(c)
      PROVE  Counted'
  BY <1>0, <1>8, InsertCounted
<1> QED BY <1>3, <1>4, <1>5, <1>6, <1>7, <1>8 DEF Next, Process, Environment

\* events_persisted_total, added up over any number of instances, never reports
\* more rows than the table holds, whatever is redelivered, rebalanced or
\* committed without an acknowledgement.
THEOREM PersistedNeverOvercountsHolds == Spec => []PersistedNeverOvercounts
<1>1. Init => Counted
  <2> SUFFICES ASSUME Init PROVE Counted
    OBVIOUS
  <2>1. persisted \in [Consumers -> Nat] /\ \A c \in Consumers : persisted[c] = 0
    BY DEF Init, persisted, ZeroMetrics
  <2>2. SumFunction(persisted) = 0
    BY <2>1, SumTyped
  <2> QED BY <2>2, FS_EmptySet DEF Init, Counted
<1>2. Inv /\ Counted /\ [Next]_vars => (Inv /\ Counted)'
  BY NextInv, CountedNext
<1>3. Counted => PersistedNeverOvercounts
  BY DEF Counted, PersistedNeverOvercounts, persisted
<1> QED BY InitInv, <1>1, <1>2, <1>3, PTL DEF Spec

-----------------------------------------------------------------------------
(* Giving up                                                               *)

\* An instance between messages has none in hand.
IdleHand == \A c \in Consumers : pc[c] \in {"polling", "down"} => hand[c] = NoSlot

LEMMA IdleHandNext == Inv /\ IdleHand /\ [Next]_vars => IdleHand'
<1> SUFFICES ASSUME Inv, IdleHand, [Next]_vars PROVE IdleHand'
  OBVIOUS
<1>0. TypeOK
  BY DEF Inv
<1>1. ASSUME UNCHANGED <<pc, hand>>
      PROVE  IdleHand'
  BY <1>1 DEF IdleHand
<1>2. ASSUME NEW c \in Consumers, NEW l \in Labels, Goto(c, l),
             \A d \in Consumers \ {c} : hand'[d] = hand[d],
             l \in {"polling", "down"} => hand'[c] = NoSlot
      PROVE  IdleHand'
  BY <1>0, <1>2 DEF IdleHand, Goto, TypeOK
<1>3. CASE UNCHANGED vars \/ (\E e \in Events, k \in Kinds : Publish(e, k))
           \/ (\E S \in SUBSET Running : \E owner \in [Partitions -> S] : Rebalance(S, owner))
           \/ (\E c \in Consumers : Signal(c) \/ SessionExpires(c))
  BY <1>1, <1>3 DEF Publish, Rebalance, Signal, SessionExpires
<1>4. ASSUME NEW c \in Consumers, Start(c)
      PROVE  IdleHand'
  BY <1>2, <1>4 DEF Start, Labels, IdleHand
<1>5. ASSUME NEW c \in Consumers, NEW p \in Partitions, Fetch(c, p)
      PROVE  IdleHand'
  <2>1. \A k : FirstStep(k) \in Labels \ {"polling", "down"}
    BY DEF FirstStep, Labels
  <2> QED BY <1>0, <1>2, <1>5, <2>1 DEF Fetch, TypeOK
<1>6. ASSUME NEW c \in Consumers,
             \/ SeeShutdown(c) \/ InsertSucceeds(c) \/ InsertFails(c) \/ Retry(c)
             \/ DlqInsertSucceeds(c) \/ DlqInsertFails(c)
             \/ DlqPublishSucceeds(c) \/ DlqPublishFails(c) \/ CommitFails(c)
      PROVE  IdleHand'
  BY <1>2, <1>6 DEF SeeShutdown, InsertSucceeds, InsertFails, Retry, DlqInsertSucceeds,
     DlqInsertFails, DlqPublishSucceeds, DlqPublishFails, CommitFails, Labels
<1>7. ASSUME NEW c \in Consumers, CommitSucceeds(c) \/ Kill(c) \/ Close(c)
      PROVE  IdleHand'
  BY <1>0, <1>2, <1>7 DEF CommitSucceeds, Kill, Close, Exit, Labels, TypeOK
<1> QED BY <1>3, <1>4, <1>5, <1>6, <1>7 DEF Next, Process, Environment

\* The kinds of message on which process_message raises whatever works.
Hopeless == Kinds \cap (Unrecordable \cup {"malformed"})

\* c ends with a message in hand.
GivesUp(c) ==
  pc[c] \in {"polling"} \cup Handling /\ pc'[c] = "closing" /\ hand'[c] # NoSlot

\* An instance that ends with a message in hand met a fault, was fenced, or has a
\* message that no call could have stored.
GivesUpForReason ==
  [][\A c \in Consumers : GivesUp(c) =>
       budget' < budget \/ ~inGroup[c] \/ Current(c)'.kind \in Hopeless]_vars

LEMMA GivesUpStep ==
  ASSUME Inv, IdleHand, [Next]_vars, NEW c \in Consumers, GivesUp(c)
  PROVE  budget' < budget \/ ~inGroup[c] \/ Current(c)'.kind \in Hopeless
<1>0. TypeOK /\ HandInLog
  BY DEF Inv
<1>1. ASSUME Spend PROVE budget' < budget
  BY <1>0, <1>1 DEF Spend, TypeOK
<1>2. pc[c] # "closing" /\ pc'[c] = "closing" /\ hand'[c] # NoSlot
  BY DEF GivesUp, Handling
<1>3. ASSUME NEW d \in Consumers, NEW l \in Labels, Goto(d, l)
      PROVE  d = c /\ l = "closing"
  BY <1>0, <1>2, <1>3 DEF Goto, TypeOK
<1>4. ASSUME pc' = pc PROVE FALSE
  BY <1>2, <1>4
<1>5. CASE UNCHANGED vars \/ (\E e \in Events, k \in Kinds : Publish(e, k))
           \/ (\E S \in SUBSET Running : \E owner \in [Partitions -> S] : Rebalance(S, owner))
           \/ (\E d \in Consumers : Signal(d) \/ SessionExpires(d))
  BY <1>4, <1>5 DEF Publish, Rebalance, Signal, SessionExpires
<1>6. ASSUME NEW d \in Consumers,
             \/ Start(d) \/ Kill(d) \/ Close(d) \/ InsertSucceeds(d) \/ InsertFails(d)
             \/ Retry(d) \/ DlqInsertSucceeds(d) \/ DlqPublishSucceeds(d)
      PROVE  FALSE
  BY <1>3, <1>6 DEF Start, Kill, Close, Exit, InsertSucceeds, InsertFails, Retry,
     DlqInsertSucceeds, DlqPublishSucceeds, Labels
<1>7. ASSUME NEW d \in Consumers, NEW p \in Partitions, Fetch(d, p)
      PROVE  Current(c)'.kind \in Hopeless
  <2> DEFINE message == log[p][position[d][p] + 1]
  <2>1. position[d][p] + 1 \in 1..Len(log[p]) /\ log[p] \in Seq(Message)
    BY <1>0, <1>7 DEF Fetch, Deliverable, TypeOK
  <2>2. message \in Message
    BY <2>1
  <2>3. message.kind \in Kinds
    BY <2>2 DEF Message
  <2>4. hand'[d] = <<p, position[d][p] + 1>> /\ log' = log
    BY <1>0, <1>7 DEF Fetch, TypeOK
  <2>5. Current(d)' = message
    BY <2>4 DEF Current, MessageAt
  <2> HIDE DEF message
  <2>6. Goto(d, FirstStep(message.kind)) /\ FirstStep(message.kind) \in Labels
    BY <1>7, <2>3 DEF Fetch, message, FirstStep, Labels
  <2>7. d = c /\ FirstStep(message.kind) = "closing"
    BY <1>3, <2>6
  <2>8. message.kind = "malformed"
    BY <2>7 DEF FirstStep
  <2> QED BY <2>3, <2>5, <2>7, <2>8 DEF Hopeless
<1>8. ASSUME NEW d \in Consumers, SeeShutdown(d)
      PROVE  FALSE
  <2>1. d = c
    BY <1>3, <1>8 DEF SeeShutdown, Labels
  <2> QED BY <1>2, <1>8, <2>1 DEF SeeShutdown, IdleHand
<1>9. ASSUME NEW d \in Consumers, DlqInsertFails(d)
      PROVE  Spend \/ Current(c)'.kind \in Hopeless
  <2>1. Current(d) \in Message
    BY <1>0, <1>9, HandTyped DEF DlqInsertFails, Handling
  <2>2. Current(d).kind \in Kinds /\ Current(d)' = Current(d)
    BY <1>9, <2>1 DEF Message, DlqInsertFails, Current, MessageAt
  <2>3. d = c
    BY <1>3, <1>9 DEF DlqInsertFails, Labels
  <2> QED BY <1>9, <2>2, <2>3 DEF DlqInsertFails, Hopeless
<1>10. ASSUME NEW d \in Consumers, DlqPublishFails(d)
       PROVE  Spend
  BY <1>10 DEF DlqPublishFails
<1>11. ASSUME NEW d \in Consumers, CommitSucceeds(d)
       PROVE  FALSE
  <2>1. d = c
    BY <1>3, <1>11 DEF CommitSucceeds, Labels
  <2> QED BY <1>0, <1>2, <1>11, <2>1 DEF CommitSucceeds, TypeOK
<1>12. ASSUME NEW d \in Consumers, CommitFails(d)
       PROVE  Spend \/ ~inGroup[c]
  <2>1. d = c
    BY <1>3, <1>12 DEF CommitFails, Labels
  <2> QED BY <1>12, <2>1 DEF CommitFails
<1> QED BY <1>1, <1>5, <1>6, <1>7, <1>8, <1>9, <1>10, <1>11, <1>12
        DEF Next, Process, Environment

\* An instance gives up on a message (and the container restarts) for one of
\* three reasons: a call failed, the group had dropped the instance, or the message
\* is one that nothing takes.
THEOREM GivesUpForReasonHolds == Spec => GivesUpForReason
<1>1. Init => IdleHand
  BY DEF Init, IdleHand
<1>2. Inv /\ IdleHand /\ [Next]_vars =>
        [\A c \in Consumers : GivesUp(c) =>
           budget' < budget \/ ~inGroup[c] \/ Current(c)'.kind \in Hopeless]_vars
  BY GivesUpStep
<1> QED BY <1>1, <1>2, IdleHandNext, Invariance, PTL DEF Spec, GivesUpForReason

\* consumer/main.py:83-86, "reaching here means the DLQ write failed too": so it
\* does when every message is one that some table takes.  The assumption is
\* needed, as the run consumer_outage_comment shows.
THEOREM HandlerFailureMeansOutageHolds ==
  ASSUME Hopeless = {}
  PROVE  Spec => HandlerFailureMeansOutage
<1>1. [\A c \in Consumers : GivesUp(c) =>
         budget' < budget \/ ~inGroup[c] \/ Current(c)'.kind \in Hopeless]_vars
      => [\A c \in Consumers :
            /\ pc[c] \in {"polling"} \cup Handling
            /\ pc'[c] = "closing"
            /\ hand'[c] # NoSlot
            => budget' < budget \/ ~inGroup[c]]_vars
  BY DEF GivesUp
<1> QED BY <1>1, GivesUpForReasonHolds, PTL DEF GivesUpForReason, HandlerFailureMeansOutage

=============================================================================
