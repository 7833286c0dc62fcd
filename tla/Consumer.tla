------------------------------ MODULE Consumer ------------------------------
(***************************************************************************)
(* The consumer group "event-processors": consumer/main.py's run loop,     *)
(* consumer/processor.py's process_message, consumer/retry.py, the DLQ     *)
(* handler and the two inserts of app/db/repository.py, over the           *)
(* partitions of events.raw.                                               *)
(*                                                                         *)
(* Several instances of the service share the topic's partitions.  An      *)
(* instance is an asyncio program: a step below is what it does between    *)
(* two awaits, and the outcome of the call it awaits is part of the step   *)
(* that ends with it.  A call that reports an error may still have taken   *)
(* effect at the server (a commit whose acknowledgement was lost).         *)
(*                                                                         *)
(* The broker's group coordinator is modelled from how app/kafka/consumer  *)
(* uses it: manual commit, auto_offset_reset earliest, and positions that  *)
(* restart from the committed offset whenever partitions are assigned.     *)
(***************************************************************************)
EXTENDS Naturals, Sequences, FiniteSets, Functions

CONSTANTS
  Consumers,    \* instances of the consumer service
  Partitions,   \* partitions of events.raw
  Events,       \* event ids
  PartitionOf,  \* events.raw is keyed by event_id: the partition of each id
  Kinds,        \* the kinds of message that may be on the topic
  MaxRetries,   \* settings.consumer_max_retries
  MaxLog,       \* bound: messages published to one partition
  MaxFaults     \* bound: faults and stop signals in one behaviour

(***************************************************************************)
(* What process_message and the two tables make of a message:              *)
(*   valid          the events table takes it                              *)
(*   missing_fields a required field is absent or empty                    *)
(*   invalid_id     event_id does not parse as a UUID                      *)
(*   refused        the events table refuses the row, dlq_events takes it  *)
(*   unstorable     both tables refuse it                                  *)
(*   unrecordable   missing fields or an invalid id, in a message that     *)
(*                  dlq_events refuses too (a NUL), or that _fit_column    *)
(*                  has no length of (an event_type of 5)                  *)
(*   malformed      not a JSON object, so that raw_value.get raises, or no *)
(*                  JSON at all, so that getone() does: either way run()   *)
(*                  ends with the message taken and its offset uncommitted *)
(***************************************************************************)
AllKinds == {"valid", "missing_fields", "invalid_id",
             "refused", "unstorable", "unrecordable", "malformed"}

\* What DLQHandler.send cannot record.
Unrecordable == {"unstorable", "unrecordable"}

ASSUME ConstantsAssumption ==
  /\ IsFiniteSet(Consumers)
  /\ Kinds \subseteq AllKinds
  /\ PartitionOf \in [Events -> Partitions]
  /\ MaxRetries \in Nat
  /\ MaxLog \in Nat
  /\ MaxFaults \in Nat

Message == [event : Events, kind : Kinds]

\* A slot is a place in the log: partition p, n-th message (offset n - 1).
Slots == Partitions \X (1..MaxLog)
NoSlot == <<>>

VARIABLES
  log,        \* events.raw: the messages of each partition, in offset order
  committed,  \* committed[p]: how many messages of p the group has committed
  rows,       \* the event ids that have a row in the events table
  dlqRows,    \* dlqRows[s]: rows of dlq_events written for slot s
  dlqTopic    \* dlqTopic[s]: messages of events.dlq published for slot s

VARIABLES
  pc,         \* where each instance is in run() and process_message()
  hand,       \* the slot of the message an instance is handling
  attempt,    \* with_retry's attempt counter
  stopping,   \* shutdown_requested
  metrics     \* the instance's Prometheus counters

VARIABLES
  inGroup,    \* the coordinator accepts the instance's commits
  assigned,   \* the partitions an instance believes it is assigned
  position,   \* its fetch position in each of them
  budget      \* faults and stop signals still to come

brokerVars == <<log, committed>>
storeVars  == <<rows, dlqRows, dlqTopic>>
procVars   == <<pc, hand, attempt, stopping, metrics>>
groupVars  == <<inGroup, assigned, position>>
vars == <<brokerVars, storeVars, procVars, groupVars, budget>>

Labels == {"down", "polling", "inserting", "backoff",
           "dlq_insert", "dlq_publish", "committing", "closing"}

\* Between the fetch of a message and the end of its handling.
Handling == {"inserting", "backoff", "dlq_insert", "dlq_publish", "committing"}

Metrics == [persisted : Nat, skipped : Nat, dlq : Nat]
ZeroMetrics == [persisted |-> 0, skipped |-> 0, dlq |-> 0]

Running == {c \in Consumers : pc[c] # "down"}
Members == {c \in Consumers : inGroup[c]}
Owned == UNION {assigned[c] : c \in Members}

MessageAt(s) == log[s[1]][s[2]]
Current(c) == MessageAt(hand[c])

TypeOK ==
  /\ log \in [Partitions -> Seq(Message)]
  /\ \A p \in Partitions : Len(log[p]) <= MaxLog
  /\ committed \in [Partitions -> 0..MaxLog]
  /\ rows \in SUBSET Events
  /\ dlqRows \in [Slots -> Nat]
  /\ dlqTopic \in [Slots -> Nat]
  /\ pc \in [Consumers -> Labels]
  /\ hand \in [Consumers -> Slots \cup {NoSlot}]
  /\ attempt \in [Consumers -> 0..MaxRetries]
  /\ stopping \in [Consumers -> BOOLEAN]
  /\ metrics \in [Consumers -> Metrics]
  /\ inGroup \in [Consumers -> BOOLEAN]
  /\ assigned \in [Consumers -> SUBSET Partitions]
  /\ position \in [Consumers -> [Partitions -> 0..MaxLog]]
  /\ budget \in 0..MaxFaults

Init ==
  /\ log = [p \in Partitions |-> <<>>]
  /\ committed = [p \in Partitions |-> 0]
  /\ rows = {}
  /\ dlqRows = [s \in Slots |-> 0]
  /\ dlqTopic = [s \in Slots |-> 0]
  /\ pc = [c \in Consumers |-> "down"]
  /\ hand = [c \in Consumers |-> NoSlot]
  /\ attempt = [c \in Consumers |-> 0]
  /\ stopping = [c \in Consumers |-> FALSE]
  /\ metrics = [c \in Consumers |-> ZeroMetrics]
  /\ inGroup = [c \in Consumers |-> FALSE]
  /\ assigned = [c \in Consumers |-> {}]
  /\ position = [c \in Consumers |-> [p \in Partitions |-> 0]]
  /\ budget = MaxFaults

Spend == budget > 0 /\ budget' = budget - 1
Goto(c, label) == pc' = [pc EXCEPT ![c] = label]
Count(c, m) == metrics' = [metrics EXCEPT ![c] = m]

-----------------------------------------------------------------------------
(* The topic and the group coordinator                                     *)

\* A producer (the API, the replay script) appends a message to events.raw.
Publish(e, k) ==
  LET p == PartitionOf[e] IN
  /\ Len(log[p]) < MaxLog
  /\ log' = [log EXCEPT ![p] = Append(@, [event |-> e, kind |-> k])]
  /\ UNCHANGED <<committed, storeVars, procVars, groupVars, budget>>

\* Variant: auto_offset_reset "latest" for a partition with no commit yet.
RebalanceFromLatest(S, owner) ==
  /\ Members \subseteq S
  /\ S # Members \/ Owned # Partitions
  /\ inGroup' = [c \in Consumers |-> c \in S]
  /\ assigned' = [c \in Consumers |->
                    IF c \in S THEN {p \in Partitions : owner[p] = c}
                               ELSE assigned[c]]
  /\ position' = [c \in Consumers |->
                    IF c \in S
                    THEN [p \in Partitions |->
                            IF owner[p] # c THEN 0
                            ELSE IF committed[p] = 0 THEN Len(log[p])
                                 ELSE committed[p]]
                    ELSE position[c]]
  /\ UNCHANGED <<brokerVars, storeVars, procVars, budget>>

\* The members rejoin and the partitions are shared out again among them and
\* the running instances that have asked to join.  Nobody waits for the
\* message an instance has in hand, and every position restarts from the
\* committed offset.
Rebalance(S, owner) ==
  /\ Members \subseteq S
  /\ S # Members \/ Owned # Partitions
  /\ inGroup' = [c \in Consumers |-> c \in S]
  /\ assigned' = [c \in Consumers |->
                    IF c \in S THEN {p \in Partitions : owner[p] = c}
                               ELSE assigned[c]]
  /\ position' = [c \in Consumers |->
                    IF c \in S
                    THEN [p \in Partitions |->
                            IF owner[p] = c THEN committed[p] ELSE 0]
                    ELSE position[c]]
  /\ UNCHANGED <<brokerVars, storeVars, procVars, budget>>

\* The coordinator misses an instance's heartbeats and drops it.  The
\* instance still runs, with the assignment it had.
SessionExpires(c) ==
  /\ inGroup[c]
  /\ Spend
  /\ inGroup' = [inGroup EXCEPT ![c] = FALSE]
  /\ UNCHANGED <<brokerVars, storeVars, procVars, assigned, position>>

-----------------------------------------------------------------------------
(* The process: start, stop, crash                                         *)

\* The container (re)starts: run() up to its loop.
Start(c) ==
  /\ pc[c] = "down"
  /\ Goto(c, "polling")
  /\ UNCHANGED <<brokerVars, storeVars, metrics, hand, attempt, stopping, groupVars, budget>>

\* SIGTERM or SIGINT: only the event is set.
Signal(c) ==
  /\ pc[c] # "down"
  /\ ~stopping[c]
  /\ Spend
  /\ stopping' = [stopping EXCEPT ![c] = TRUE]
  /\ UNCHANGED <<brokerVars, storeVars, pc, hand, attempt, metrics, groupVars>>

\* What a process loses when it ends (its counters too), and the group with it.
Exit(c) ==
  /\ Goto(c, "down")
  /\ hand' = [hand EXCEPT ![c] = NoSlot]
  /\ attempt' = [attempt EXCEPT ![c] = 0]
  /\ stopping' = [stopping EXCEPT ![c] = FALSE]
  /\ inGroup' = [inGroup EXCEPT ![c] = FALSE]
  /\ assigned' = [assigned EXCEPT ![c] = {}]
  /\ position' = [position EXCEPT ![c] = [p \in Partitions |-> 0]]
  /\ Count(c, ZeroMetrics)

\* SIGKILL, a power cut: the process ends wherever it is.
Kill(c) ==
  /\ pc[c] # "down"
  /\ Spend
  /\ Exit(c)
  /\ UNCHANGED <<brokerVars, storeVars>>

\* Variant: enable_auto_commit, with which stop() commits the positions.
CloseAutoCommit(c) ==
  /\ pc[c] = "closing"
  /\ Exit(c)
  /\ committed' = [p \in Partitions |->
                     IF inGroup[c] /\ p \in assigned[c] THEN position[c][p]
                                                        ELSE committed[p]]
  /\ UNCHANGED <<log, storeVars, budget>>

\* The finally block: stop() leaves the group and commits nothing.
Close(c) ==
  /\ pc[c] = "closing"
  /\ Exit(c)
  /\ UNCHANGED <<brokerVars, storeVars, budget>>

-----------------------------------------------------------------------------
(* The loop: fetch, handle, commit                                         *)

\* getone() has a message of p to return.
Deliverable(c, p) == p \in assigned[c] /\ position[c][p] < Len(log[p])
Advance(c, p) == position' = [position EXCEPT ![c][p] = @ + 1]

\* Where process_message goes before its first await.
FirstStep(k) ==
  CASE k \in {"missing_fields", "invalid_id", "unrecordable"} -> "dlq_insert"
    [] k = "malformed" -> "closing"
    [] OTHER -> "inserting"

\* getone() returns a message, or raises as it decodes one, and no shutdown was
\* requested.
Fetch(c, p) ==
  /\ pc[c] = "polling"
  /\ ~stopping[c]
  /\ Deliverable(c, p)
  /\ Advance(c, p)
  /\ hand' = [hand EXCEPT ![c] = <<p, position[c][p] + 1>>]
  /\ attempt' = [attempt EXCEPT ![c] = 0]
  /\ Goto(c, FirstStep(log[p][position[c][p] + 1].kind))
  /\ UNCHANGED <<brokerVars, storeVars, stopping, metrics, inGroup, assigned, budget>>

\* The race is lost to the shutdown event.  If getone() was done as well, the
\* message it returned is dropped, past its position.
SeeShutdown(c) ==
  /\ pc[c] = "polling"
  /\ stopping[c]
  /\ \/ UNCHANGED position
     \/ \E p \in Partitions : Deliverable(c, p) /\ Advance(c, p)
  /\ Goto(c, "closing")
  /\ UNCHANGED <<brokerVars, storeVars, hand, attempt, stopping, metrics,
                 inGroup, assigned, budget>>

\* Variant: the persisted counter ignores insert_event's result.
InsertCountedBlindly(c) ==
  /\ pc[c] = "inserting"
  /\ Current(c).kind = "valid"
  /\ rows' = rows \cup {Current(c).event}
  /\ Count(c, [metrics[c] EXCEPT !.persisted = @ + 1])
  /\ Goto(c, "committing")
  /\ UNCHANGED <<brokerVars, dlqRows, dlqTopic, hand, attempt, stopping,
                 groupVars, budget>>

\* insert_event commits and its result arrives: RETURNING has a row exactly
\* when ON CONFLICT DO NOTHING found no conflict.
InsertSucceeds(c) ==
  LET e == Current(c).event IN
  /\ pc[c] = "inserting"
  /\ Current(c).kind = "valid"
  /\ rows' = rows \cup {e}
  /\ Count(c, IF e \in rows THEN [metrics[c] EXCEPT !.skipped = @ + 1]
                            ELSE [metrics[c] EXCEPT !.persisted = @ + 1])
  /\ Goto(c, "committing")
  /\ UNCHANGED <<brokerVars, dlqRows, dlqTopic, hand, attempt, stopping,
                 groupVars, budget>>

\* Variant: with_retry gives up one attempt too late.
InsertFailsOffByOne(c) ==
  /\ pc[c] = "inserting"
  /\ \/ Current(c).kind # "valid" /\ UNCHANGED <<rows, budget>>
     \/ Spend /\ UNCHANGED rows
  /\ Goto(c, IF attempt[c] > MaxRetries THEN "dlq_insert" ELSE "backoff")
  /\ UNCHANGED <<brokerVars, dlqRows, dlqTopic, hand, attempt, stopping,
                 metrics, groupVars>>

\* insert_event raises: the table refuses the row, or the database or the
\* connection fails, before the commit took effect or after.  The last of the
\* MaxRetries + 1 attempts gives up (RetryExhaustedError).
InsertFails(c) ==
  /\ pc[c] = "inserting"
  /\ \/ Current(c).kind # "valid" /\ UNCHANGED <<rows, budget>>
     \/ Spend /\ UNCHANGED rows
     \/ Spend /\ Current(c).kind = "valid" /\ rows' = rows \cup {Current(c).event}
  /\ Goto(c, IF attempt[c] = MaxRetries THEN "dlq_insert" ELSE "backoff")
  /\ UNCHANGED <<brokerVars, dlqRows, dlqTopic, hand, attempt, stopping,
                 metrics, groupVars>>

\* Variant: with_retry loops while the insert fails.
RetryForEver(c) ==
  /\ pc[c] = "backoff"
  /\ Goto(c, "inserting")
  /\ UNCHANGED <<brokerVars, storeVars, hand, attempt, stopping, metrics,
                 groupVars, budget>>

\* The backoff delay ends and the next attempt begins.
Retry(c) ==
  /\ pc[c] = "backoff"
  /\ attempt' = [attempt EXCEPT ![c] = @ + 1]
  /\ Goto(c, "inserting")
  /\ UNCHANGED <<brokerVars, storeVars, hand, stopping, metrics, groupVars, budget>>

AddDlqRow(c) == dlqRows' = [dlqRows EXCEPT ![hand[c]] = @ + 1]
AddDlqMessage(c) == dlqTopic' = [dlqTopic EXCEPT ![hand[c]] = @ + 1]

\* DLQHandler.send, first half: the dlq_events row is committed.
DlqInsertSucceeds(c) ==
  /\ pc[c] = "dlq_insert"
  /\ Current(c).kind \notin Unrecordable
  /\ AddDlqRow(c)
  /\ Goto(c, "dlq_publish")
  /\ UNCHANGED <<brokerVars, rows, dlqTopic, hand, attempt, stopping, metrics,
                 groupVars, budget>>

\* Variants of insert_dlq_event's failure: the DLQ message is published all the
\* same; a value too long for its column is not trimmed, so that dlq_events
\* refuses it as well.
DlqInsertFailsTo(c, kinds, label) ==
  /\ pc[c] = "dlq_insert"
  /\ \/ Current(c).kind \in kinds /\ UNCHANGED budget
     \/ Spend
  /\ Goto(c, label)
  /\ UNCHANGED <<brokerVars, storeVars, hand, attempt, stopping, metrics, groupVars>>
DlqRowBestEffort(c) == DlqInsertFailsTo(c, Unrecordable, "dlq_publish")
DlqRowUntrimmed(c) == DlqInsertFailsTo(c, Unrecordable \cup {"refused"}, "closing")

\* insert_dlq_event raises, or _fit_column before it, and process_message with
\* it: the loop re-raises.
DlqInsertFails(c) ==
  /\ pc[c] = "dlq_insert"
  /\ \/ Current(c).kind \in Unrecordable /\ UNCHANGED <<dlqRows, budget>>
     \/ Spend /\ UNCHANGED dlqRows
     \/ Spend /\ Current(c).kind \notin Unrecordable /\ AddDlqRow(c)
  /\ Goto(c, "closing")
  /\ UNCHANGED <<brokerVars, rows, dlqTopic, hand, attempt, stopping, metrics,
                 groupVars>>

\* DLQHandler.send, second half: events.dlq acknowledges the message, and
\* process_message counts the write and returns.
DlqPublishSucceeds(c) ==
  /\ pc[c] = "dlq_publish"
  /\ AddDlqMessage(c)
  /\ Count(c, [metrics[c] EXCEPT !.dlq = @ + 1])
  /\ Goto(c, "committing")
  /\ UNCHANGED <<brokerVars, rows, dlqRows, hand, attempt, stopping, groupVars, budget>>

\* send_and_wait raises, the message published or not.
DlqPublishFails(c) ==
  /\ pc[c] = "dlq_publish"
  /\ Spend
  /\ UNCHANGED dlqTopic \/ AddDlqMessage(c)
  /\ Goto(c, "closing")
  /\ UNCHANGED <<brokerVars, rows, dlqRows, hand, attempt, stopping, metrics, groupVars>>

\* Variant: commit the offset after the message just handled.
CommitHandled(c) ==
  committed' = [committed EXCEPT ![hand[c][1]] = hand[c][2]]

\* commit() without arguments: the positions of every assigned partition.
CommitPositions(c) ==
  committed' = [p \in Partitions |->
                  IF p \in assigned[c] THEN position[c][p] ELSE committed[p]]

\* The offsets are committed and the loop tests shutdown_requested again.
CommitSucceeds(c) ==
  /\ pc[c] = "committing"
  /\ inGroup[c]
  /\ CommitPositions(c)
  /\ hand' = [hand EXCEPT ![c] = NoSlot]
  /\ attempt' = [attempt EXCEPT ![c] = 0]
  /\ Goto(c, IF stopping[c] THEN "closing" ELSE "polling")
  /\ UNCHANGED <<log, storeVars, stopping, metrics, groupVars, budget>>

\* Variant: a failed commit is logged and the loop goes on.
CommitFailureIgnored(c) ==
  /\ pc[c] = "committing"
  /\ \/ ~inGroup[c] /\ UNCHANGED budget
     \/ Spend
  /\ Goto(c, "polling")
  /\ UNCHANGED <<brokerVars, storeVars, hand, attempt, stopping, metrics, groupVars>>

\* commit() raises: the coordinator no longer knows the member, or the request
\* or its answer is lost.  Nothing catches it.
CommitFails(c) ==
  /\ pc[c] = "committing"
  /\ \/ ~inGroup[c] /\ UNCHANGED <<committed, budget>>
     \/ Spend /\ UNCHANGED committed
     \/ Spend /\ inGroup[c] /\ CommitPositions(c)
  /\ Goto(c, "closing")
  /\ UNCHANGED <<log, storeVars, hand, attempt, stopping, metrics, groupVars>>

-----------------------------------------------------------------------------
Process(c) ==
  \/ \E p \in Partitions : Fetch(c, p)
  \/ SeeShutdown(c)
  \/ InsertSucceeds(c)
  \/ InsertFails(c)
  \/ Retry(c)
  \/ DlqInsertSucceeds(c)
  \/ DlqInsertFails(c)
  \/ DlqPublishSucceeds(c)
  \/ DlqPublishFails(c)
  \/ CommitSucceeds(c)
  \/ CommitFails(c)
  \/ Close(c)

Environment(c) == Signal(c) \/ Kill(c) \/ SessionExpires(c)

Next ==
  \/ \E e \in Events, k \in Kinds : Publish(e, k)
  \/ \E S \in SUBSET Running : \E owner \in [Partitions -> S] : Rebalance(S, owner)
  \/ \E c \in Consumers : Start(c) \/ Process(c) \/ Environment(c)

Spec == Init /\ [][Next]_vars

-----------------------------------------------------------------------------
(* Properties *)

\* The message of slot s has been durably handled: its event has a row, or it
\* is in dlq_events and on events.dlq.
Settled(s) ==
  \/ MessageAt(s).kind = "valid" /\ MessageAt(s).event \in rows
  \/ dlqRows[s] > 0 /\ dlqTopic[s] > 0

\* consumer/main.py:106-110: an offset is committed only after the message was
\* handled.  Whatever the group went through (crashes, rebalances, stale
\* members, lost acknowledgements, a fetch dropped at shutdown), no message
\* below a committed offset is lost.
CommittedAreSettled ==
  \A p \in Partitions : \A n \in 1..committed[p] :
    n <= Len(log[p]) /\ Settled(<<p, n>>)

\* A member has fetched at most one message it has not committed: the one it
\* is handling, or is exiting for.  So a crash redelivers at most one message
\* per instance, and commit() never covers a message that was only fetched.
Ahead(c) == {p \in assigned[c] : position[c][p] # committed[p]}
AtMostOneUncommitted ==
  \A c \in Members :
    /\ Ahead(c) # {} => pc[c] \in Handling \cup {"closing"}
    /\ \A p \in Ahead(c) : position[c][p] = committed[p] + 1
    /\ \A p, q \in Ahead(c) : p = q

\* app/core/dlq.py:46-62, the row is committed before the topic is written:
\* every message on events.dlq has a dlq_events row of its own behind it.
DlqMessagesHaveRows == \A s \in Slots : dlqTopic[s] <= dlqRows[s]

\* events_persisted_total never reports more rows than the table holds, with
\* any number of redeliveries, rebalances and ambiguous commits (a row whose
\* acknowledgement was lost is counted as a duplicate, never twice).
PersistedNeverOvercounts ==
  SumFunction([c \in Consumers |-> metrics[c].persisted]) <= Cardinality(rows)

\* A committed offset never goes back: no step of a stale or rejoined member
\* makes the group handle again what another member committed.
CommitNeverRewinds ==
  [][\A p \in Partitions : committed'[p] >= committed[p]]_vars

\* consumer/main.py:83-86: "reaching here means the DLQ write failed too - the
\* database is unreachable, not this message being unprocessable".  An
\* instance gives a message up only on a fault, or when the group dropped it.
HandlerFailureMeansOutage ==
  [][\A c \in Consumers :
       /\ pc[c] \in {"polling"} \cup Handling
       /\ pc'[c] = "closing"
       /\ hand'[c] # NoSlot
       => budget' < budget \/ ~inGroup[c]]_vars

\* The consumer implements the delivery promise: what the group committed is
\* what it acknowledges, and a message is dead once both halves of
\* DLQHandler.send have gone through for it.
Buried == {s \in Slots : dlqRows[s] > 0 /\ dlqTopic[s] > 0}
D == INSTANCE Delivery WITH acked <- committed, stored <- rows, dead <- Buried
ImplementsDelivery == D!Spec

(***************************************************************************)
(* Liveness.  Each instance takes its steps, the container restart policy  *)
(* (docker-compose.yml:180, unless-stopped) starts it again, and the       *)
(* coordinator admits every running instance: weak fairness of each.       *)
(* Faults need none; MaxFaults makes them stop.                            *)
(***************************************************************************)
Fairness ==
  /\ \A c \in Consumers : WF_vars(Start(c)) /\ WF_vars(Process(c))
  /\ WF_vars(\E owner \in [Partitions -> Running] : Rebalance(Running, owner))

FairSpec == Spec /\ Fairness

\* Every published message is committed in the end, hence settled, once the
\* faults stop: no message blocks its partition and none waits for ever for
\* an owner.
EveryMessageCommitted ==
  \A p \in Partitions : \A n \in 1..MaxLog :
    n <= Len(log[p]) ~> committed[p] >= n

\* An instance told to stop does stop: the message in hand has a bounded
\* number of attempts and the loop tests the event after it.
ShutdownCompletes == \A c \in Consumers : stopping[c] ~> ~stopping[c]

=============================================================================
