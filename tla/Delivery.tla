------------------------------ MODULE Delivery ------------------------------
(***************************************************************************)
(* What the pipeline promises of a published message, whatever runs it:    *)
(* the messages of a partition are acknowledged one at a time and in       *)
(* order, and only once their event is stored or they are in the dead      *)
(* letter queue.  Storing is idempotent by event id, so delivery is at     *)
(* least once and its effect at most one row.                              *)
(*                                                                         *)
(* README.md's Decisions 4 and 6 and the comment at consumer/main.py:106   *)
(* state this; Consumer.tla implements it.                                 *)
(***************************************************************************)
EXTENDS Naturals, Sequences

CONSTANTS Partitions, Events, PartitionOf, Kinds

VARIABLES
  log,     \* the published messages of each partition
  acked,   \* how many of them the group has acknowledged
  stored,  \* the event ids that have a row
  dead     \* the places whose message is in the dead letter queue

vars == <<log, acked, stored, dead>>

Message == [event : Events, kind : Kinds]

Published(p) == 1..Len(log[p])
Safe(p, n) ==
  \/ log[p][n].kind = "valid" /\ log[p][n].event \in stored
  \/ <<p, n>> \in dead

Init ==
  /\ log = [p \in Partitions |-> <<>>]
  /\ acked = [p \in Partitions |-> 0]
  /\ stored = {}
  /\ dead = {}

Publish(m) ==
  /\ log' = [log EXCEPT ![PartitionOf[m.event]] = Append(@, m)]
  /\ UNCHANGED <<acked, stored, dead>>

Store(p, n) ==
  /\ n \in Published(p)
  /\ log[p][n].kind = "valid"
  /\ stored' = stored \cup {log[p][n].event}
  /\ UNCHANGED <<log, acked, dead>>

Bury(p, n) ==
  /\ n \in Published(p)
  /\ dead' = dead \cup {<<p, n>>}
  /\ UNCHANGED <<log, acked, stored>>

Ack(p) ==
  /\ acked[p] + 1 \in Published(p)
  /\ Safe(p, acked[p] + 1)
  /\ acked' = [acked EXCEPT ![p] = @ + 1]
  /\ UNCHANGED <<log, stored, dead>>

Next ==
  \/ \E m \in Message : Publish(m)
  \/ \E p \in Partitions :
       Ack(p) \/ \E n \in Published(p) : Store(p, n) \/ Bury(p, n)

Spec == Init /\ [][Next]_vars

=============================================================================
