------------------------------ MODULE Pipeline ------------------------------
(***************************************************************************)
(* The way of an event through the system: the event API                   *)
(* (app/api/routes/events.py, app/core/idempotency.py), the consumer as    *)
(* Delivery promises it, and the operator's replay of the dead letter      *)
(* queue (scripts/replay_dlq.py).                                          *)
(*                                                                         *)
(* The consumer's own steps are those of Delivery, which Consumer          *)
(* implements; here a DLQ entry also gets its place in the dlq_events      *)
(* table.  Requests are served concurrently; a step of one is what its     *)
(* handler does between two awaits.  Clients are external: they post what  *)
(* they like, as often as they like.                                       *)
(***************************************************************************)
EXTENDS Naturals, Sequences, FiniteSets

CONSTANTS
  Partitions, Events, PartitionOf,  \* as in Delivery
  Requests,    \* requests to POST /events being served at once
  Limit,       \* args.limit of the replay script
  MaxPosts,    \* bound: messages that clients and other producers send
  MaxFaults    \* bound: faults, and replays the operator might have spared

\* A message passes EventCreate and fits the events table, or it does neither
\* (scripts/seed_dlq.sh): the API lets only the first kind through.  Messages
\* that only one of the two takes are left out: an event_type without a dot from
\* another producer, and a payload that JSONB refuses, on which the consumer
\* stops (Consumer's "unstorable").
Kinds == {"valid", "refused"}

ASSUME PipelineConstants ==
  /\ PartitionOf \in [Events -> Partitions]
  /\ Limit \in Nat
  /\ MaxPosts \in Nat
  /\ MaxFaults \in Nat

VARIABLES
  log, acked, stored, dead,  \* as in Delivery
  dlq          \* dlq_events in the order of failed_at: the slots of its rows

VARIABLES
  precheck,    \* settings.enable_duplicate_precheck
  stage,       \* where each request is in create_event
  subject,     \* the event id it posts
  accepted,    \* accepted[e]: the answers 202 for e (events_accepted_total)
  conflicts    \* the event ids that were answered 409

VARIABLES
  listed,      \* the rows (places in dlq) the script has still to publish; {} if
               \* it is not running
  replayed,    \* history: the slots it has published
  posts,
  budget

deliveryVars == <<log, acked, stored, dead>>
apiVars      == <<precheck, stage, subject, accepted, conflicts>>
scriptVars   == <<listed, replayed>>
bounds       == <<posts, budget>>
vars == <<deliveryVars, dlq, apiVars, scriptVars, bounds>>

D == INSTANCE Delivery

InLog(s) == s[1] \in Partitions /\ s[2] \in 1..Len(log[s[1]])
MessageAt(s) == log[s[1]][s[2]]
NextSlot(e) == <<PartitionOf[e], Len(log[PartitionOf[e]]) + 1>>
Copies(e) == {n \in 1..Len(log[PartitionOf[e]]) :
                LET m == log[PartitionOf[e]][n] IN m.event = e /\ m.kind = "valid"}

\* Variant: whatever is in the table is published again.
AnyRow(s) == s \in dead

\* classify: a row is worth publishing if its payload passes EventCreate.
Replayable(s) == MessageAt(s).kind = "valid"

Stages == {"idle", "checking", "publishing"}

TypeOK ==
  /\ log \in [Partitions -> Seq(D!Message)]
  /\ acked \in [Partitions -> Nat]
  /\ stored \subseteq Events
  /\ \A s \in dead : InLog(s)
  /\ dlq \in Seq(dead)
  /\ precheck \in BOOLEAN
  /\ stage \in [Requests -> Stages]
  /\ subject \in [Requests -> Events]
  /\ accepted \in [Events -> Nat]
  /\ conflicts \subseteq Events
  /\ \A i \in listed : i \in 1..Len(dlq) /\ Replayable(dlq[i])
  /\ \A s \in replayed : InLog(s)
  /\ posts \in 0..MaxPosts
  /\ budget \in 0..MaxFaults

Init ==
  /\ D!Init
  /\ dlq = <<>>
  /\ precheck \in BOOLEAN
  /\ stage = [r \in Requests |-> "idle"]
  /\ subject \in [Requests -> Events]
  /\ accepted = [e \in Events |-> 0]
  /\ conflicts = {}
  /\ listed = {}
  /\ replayed = {}
  /\ posts = 0
  /\ budget = MaxFaults

Spend == budget > 0 /\ budget' = budget - 1
Goto(r, label) == stage' = [stage EXCEPT ![r] = label]
PublishValid(e) == D!Publish([event |-> e, kind |-> "valid"])

-----------------------------------------------------------------------------
(* The API                                                                 *)

\* A client posts e.
Post(r, e) ==
  /\ stage[r] = "idle"
  /\ posts < MaxPosts
  /\ posts' = posts + 1
  /\ subject' = [subject EXCEPT ![r] = e]
  /\ Goto(r, IF precheck THEN "checking" ELSE "publishing")
  /\ UNCHANGED <<deliveryVars, dlq, precheck, accepted, conflicts, scriptVars, budget>>

\* Variant: the check knows what was accepted as well.
ConflictOnAccepted(r) ==
  /\ stage[r] = "checking"
  /\ subject[r] \in stored \/ accepted[subject[r]] > 0
  /\ conflicts' = conflicts \cup {subject[r]}
  /\ Goto(r, "idle")
  /\ UNCHANGED <<deliveryVars, dlq, precheck, subject, accepted, scriptVars, bounds>>

\* Variant: a duplicate is answered 202 like any other event.
ConflictAccepted(r) ==
  /\ stage[r] = "checking"
  /\ subject[r] \in stored
  /\ accepted' = [accepted EXCEPT ![subject[r]] = @ + 1]
  /\ Goto(r, "idle")
  /\ UNCHANGED <<deliveryVars, dlq, precheck, subject, conflicts, scriptVars, bounds>>

\* ensure_not_duplicate finds the row: 409.
Conflict(r) ==
  /\ stage[r] = "checking"
  /\ subject[r] \in stored
  /\ conflicts' = conflicts \cup {subject[r]}
  /\ Goto(r, "idle")
  /\ UNCHANGED <<deliveryVars, dlq, precheck, subject, accepted, scriptVars, bounds>>

\* It finds none, and send_event is called.
Pass(r) ==
  /\ stage[r] = "checking"
  /\ subject[r] \notin stored
  /\ Goto(r, "publishing")
  /\ UNCHANGED <<deliveryVars, dlq, precheck, subject, accepted, conflicts,
                 scriptVars, bounds>>

\* The query raises, or the API process ends: the client gets no answer it can
\* use.
CheckFails(r) ==
  /\ stage[r] = "checking"
  /\ Spend
  /\ Goto(r, "idle")
  /\ UNCHANGED <<deliveryVars, dlq, precheck, subject, accepted, conflicts,
                 scriptVars, posts>>

\* The broker acknowledges the message: 202.
Accept(r) ==
  /\ stage[r] = "publishing"
  /\ PublishValid(subject[r])
  /\ accepted' = [accepted EXCEPT ![subject[r]] = @ + 1]
  /\ Goto(r, "idle")
  /\ UNCHANGED <<dlq, precheck, subject, conflicts, scriptVars, bounds>>

\* The acknowledgement is lost and the producer will send the message again.
PublishAgain(r) ==
  /\ stage[r] = "publishing"
  /\ Spend
  /\ PublishValid(subject[r])
  /\ UNCHANGED <<dlq, apiVars, scriptVars, posts>>

\* Variant: fire and forget, the failure is answered 202.
FireAndForget(r) ==
  /\ stage[r] = "publishing"
  /\ Spend
  /\ accepted' = [accepted EXCEPT ![subject[r]] = @ + 1]
  /\ Goto(r, "idle")
  /\ UNCHANGED <<deliveryVars, dlq, precheck, subject, conflicts, scriptVars, posts>>

\* send_and_wait raises (503), or the API process ends: the message may be on
\* the topic all the same.
PublishFails(r) ==
  /\ stage[r] = "publishing"
  /\ Spend
  /\ UNCHANGED deliveryVars \/ PublishValid(subject[r])
  /\ Goto(r, "idle")
  /\ UNCHANGED <<dlq, precheck, subject, accepted, conflicts, scriptVars, posts>>

\* Another producer writes a message to the topic that no API would let through.
Stray(e) ==
  /\ posts < MaxPosts
  /\ posts' = posts + 1
  /\ D!Publish([event |-> e, kind |-> "refused"])
  /\ UNCHANGED <<dlq, apiVars, scriptVars, budget>>

-----------------------------------------------------------------------------
(* The consumer: it handles the messages of a partition in turn, and some  *)
(* of them again.                                                          *)

Store(p, n) ==
  /\ n <= acked[p] + 1
  /\ D!Store(p, n)
  /\ UNCHANGED <<dlq, apiVars, scriptVars, bounds>>

\* Variant: the entry goes to the events.dlq topic only.
BuryOnTopicOnly(p, n) ==
  /\ n <= acked[p] + 1
  /\ D!Bury(p, n)
  /\ \/ log[p][n].kind = "refused" /\ <<p, n>> \notin dead /\ UNCHANGED budget
     \/ Spend
  /\ UNCHANGED <<dlq, apiVars, scriptVars, posts>>

\* Variant: the entry goes to dlq_events only.
BuryInTableOnly(p, n) ==
  /\ n <= acked[p] + 1
  /\ n \in 1..Len(log[p])
  /\ dlq' = Append(dlq, <<p, n>>)
  /\ Spend
  /\ UNCHANGED <<deliveryVars, apiVars, scriptVars, posts>>

\* A message that cannot be stored is entered in the DLQ when it is handled
\* first; otherwise it takes a database that is away for every attempt, or a
\* redelivery.
Bury(p, n) ==
  /\ n <= acked[p] + 1
  /\ D!Bury(p, n)
  /\ dlq' = Append(dlq, <<p, n>>)
  /\ \/ log[p][n].kind = "refused" /\ <<p, n>> \notin dead /\ UNCHANGED budget
     \/ Spend
  /\ UNCHANGED <<apiVars, scriptVars, posts>>

Ack(p) ==
  /\ D!Ack(p)
  /\ UNCHANGED <<dlq, apiVars, scriptVars, bounds>>

-----------------------------------------------------------------------------
(* The replay                                                              *)

\* list_dlq_events: the oldest rows, up to the limit.
Oldest == {i \in 1..Len(dlq) : i <= Limit}

\* The operator runs the script: with the topic drained and an event of the
\* table still missing, or when there was no need to.
Replay ==
  /\ listed = {}
  /\ \/ /\ \A p \in Partitions : acked[p] = Len(log[p])
        /\ \E i \in 1..Len(dlq) : Replayable(dlq[i]) /\ MessageAt(dlq[i]).event \notin stored
        /\ UNCHANGED budget
     \/ Spend
  /\ listed' = {i \in Oldest : Replayable(dlq[i])}
  /\ UNCHANGED <<deliveryVars, dlq, apiVars, replayed, posts>>

\* It publishes the next row.
Republish ==
  \E i \in listed :
    /\ \A j \in listed : i <= j
    /\ LET m == MessageAt(dlq[i]) IN
         /\ D!Publish(m)
         /\ replayed' = replayed \cup {NextSlot(m.event)}
    /\ listed' = listed \ {i}
    /\ UNCHANGED <<dlq, apiVars, bounds>>

\* A publish raises, or the script is interrupted: the rows that are left stay
\* unpublished.
ReplayFails ==
  /\ listed # {}
  /\ Spend
  /\ listed' = {}
  /\ UNCHANGED <<deliveryVars, dlq, apiVars, replayed, posts>>

-----------------------------------------------------------------------------
Serve(r) ==
  \/ Conflict(r) \/ Pass(r) \/ CheckFails(r)
  \/ Accept(r) \/ PublishAgain(r) \/ PublishFails(r)

Consume(p) ==
  \/ Ack(p)
  \/ \E n \in 1..Len(log[p]) : Store(p, n) \/ Bury(p, n)

Next ==
  \/ \E r \in Requests : Serve(r) \/ \E e \in Events : Post(r, e)
  \/ \E e \in Events : Stray(e)
  \/ \E p \in Partitions : Consume(p)
  \/ Replay \/ Republish \/ ReplayFails

Spec == Init /\ [][Next]_vars

(***************************************************************************)
(* Liveness.  The consumer handles and acknowledges the next message of    *)
(* each partition (Consumer's EveryMessageCommitted is what justifies      *)
(* this), the script gets through its rows, and the operator runs it while *)
(* an event that it could bring back is missing.                           *)
(***************************************************************************)
Handle(p) ==
  /\ acked[p] < Len(log[p])
  /\ ~D!Safe(p, acked[p] + 1)
  /\ Store(p, acked[p] + 1) \/ Bury(p, acked[p] + 1)

Fairness ==
  /\ \A p \in Partitions :
       WF_vars(Ack(p)) /\ WF_vars(Handle(p))
  /\ WF_vars(Republish) /\ WF_vars(Replay)

FairSpec == Spec /\ Fairness

-----------------------------------------------------------------------------
(* Properties                                                              *)

\* An accepted event is stored, or waits on the topic for the consumer, or is in
\* the DLQ: through duplicates, lost acknowledgements, failed requests and
\* failed replays, with the duplicate check or without, an answer 202 never
\* stands for nothing (events.py:68-70).
NoAcceptedEventLost ==
  \A e \in Events : accepted[e] > 0 =>
    \/ e \in stored
    \/ \E n \in Copies(e) :
         n > acked[PartitionOf[e]] \/ <<PartitionOf[e], n>> \in dead

\* events.py:68-69, "an event that never reached Kafka has not been accepted":
\* events_accepted_total never exceeds the messages on the topic.
AcceptedNeverOvercounts == \A e \in Events : accepted[e] <= Cardinality(Copies(e))

\* A 409 is final: the event it was given for has its row, so the client may
\* forget the event (idempotency.py; the check is a read that may be stale).
ConflictMeansStored == conflicts \subseteq stored

\* replay_dlq.py:58-60: what is republished does not "land straight back" in the
\* DLQ, except for a fault.
ReplayNeverLoops ==
  [][\A s \in replayed :
       Len(dlq') > Len(dlq) /\ dlq'[Len(dlq')] = s => budget' < budget]_vars

\* README.md's Decision 4, "the outcome in the database is identical": with the
\* check on or off, an event answered 202 or 409 has its row in the end, if the
\* operator replays what a failure buried.
AnsweredEventIsStored ==
  \A e \in Events : (accepted[e] > 0 \/ e \in conflicts) ~> e \in stored
=============================================================================
