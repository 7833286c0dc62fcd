-------------------------------- MODULE Race --------------------------------
(***************************************************************************)
(* "Race 3 copies" of the send page (components/DuplicateDemo.tsx): copies *)
(* of a new event sent at once, between two readings of the consumer's     *)
(* count of duplicates dropped.  The consumer may restart, which resets    *)
(* the count, or drop duplicates of other events, at any time.             *)
(***************************************************************************)
EXTENDS Integers, FiniteSets

CONSTANTS
  Copies,      \* the copies sent
  MaxOthers    \* bound: duplicates of other events, and restarts, in one race

ASSUME RaceAssumption == IsFiniteSet(Copies) /\ MaxOthers \in Nat

VARIABLES
  race,     \* [phase, before, after, rowFound] of runRace
  answered, \* answered[c]: the answer to a copy, 0 while there is none
  topic,    \* copies that are on events.raw
  stored,   \* the event has its row
  counter,  \* events_duplicates_skipped_total of the running consumer
  dropped,  \* duplicates dropped since the page was opened
  others    \* what MaxOthers bounds

raceVars == <<race, answered, topic, stored, counter, dropped, others>>

\* A reading: its value, and what had been dropped by then.
Reading == [read |-> TRUE, value |-> counter, dropped |-> dropped]
Unreachable == [read |-> FALSE, value |-> 0, dropped |-> dropped]
NoReading == [read |-> FALSE, value |-> 0, dropped |-> 0]

RaceStart == [phase |-> "idle", before |-> NoReading, after |-> NoReading,
              rowFound |-> FALSE]
Unanswered == [c \in Copies |-> 0]

Readings == [read : BOOLEAN, value : Nat, dropped : Nat]

RaceTypeOK ==
  /\ race \in [phase : {"idle", "before", "sending", "after", "row", "done"},
               before : Readings, after : Readings, rowFound : BOOLEAN]
  /\ answered \in [Copies -> {0, 202, 409, 503}]
  /\ topic \in SUBSET Copies
  /\ stored \in BOOLEAN
  /\ counter \in Nat /\ dropped \in Nat /\ others \in 0..MaxOthers

\* The panel as it opens.
RaceBlank ==
  /\ race = RaceStart /\ answered = Unanswered /\ topic = {} /\ stored = FALSE
  /\ counter = 0 /\ dropped = 0 /\ others = 0

RaceOpens ==
  /\ race' = RaceStart /\ answered' = Unanswered /\ topic' = {} /\ stored' = FALSE
  /\ counter' = 0 /\ dropped' = 0 /\ others' = 0

\* The button, once a valid draft has been sent.  A second race finds what the
\* page opens with: another new id, and the copies of the first as duplicates
\* of another event.
StartRace ==
  /\ race.phase = "idle"
  /\ race' = [race EXCEPT !.phase = "before"]
  /\ UNCHANGED <<answered, topic, stored, counter, dropped, others>>

\* consumerCounters(), before the copies are sent and after they have settled.
ReadBefore ==
  /\ race.phase = "before"
  /\ \E reading \in {Reading, Unreachable} :
       race' = [race EXCEPT !.phase = "sending", !.before = reading]
  /\ UNCHANGED <<answered, topic, stored, counter, dropped, others>>

\* POST /events for one copy.  The pre-check finds a row that is there by
\* then, and may fail; a publish that is not acknowledged may have happened.
CopyAnswered ==
  /\ race.phase = "sending"
  /\ \E c \in Copies :
       /\ answered[c] = 0
       /\ \/ stored /\ answered' = [answered EXCEPT ![c] = 409] /\ topic' = topic
          \/ answered' = [answered EXCEPT ![c] = 202] /\ topic' = topic \cup {c}
          \/ answered' = [answered EXCEPT ![c] = 503] /\ topic' \in {topic, topic \cup {c}}
  /\ UNCHANGED <<race, stored, counter, dropped, others>>

\* Promise.all, and SETTLE_MS.
Settled ==
  /\ race.phase = "sending"
  /\ \A c \in Copies : answered[c] # 0
  /\ race' = [race EXCEPT !.phase = "after"]
  /\ UNCHANGED <<answered, topic, stored, counter, dropped, others>>

ReadAfter ==
  /\ race.phase = "after"
  /\ \E reading \in {Reading, Unreachable} :
       race' = [race EXCEPT !.phase = "row", !.after = reading]
  /\ UNCHANGED <<answered, topic, stored, counter, dropped, others>>

\* GET /events/{id}: a request that fails counts as no row.
ReadRow ==
  /\ race.phase = "row"
  /\ \E found \in {stored, FALSE} :
       race' = [race EXCEPT !.phase = "done", !.rowFound = found]
  /\ UNCHANGED <<answered, topic, stored, counter, dropped, others>>

\* The consumer inserts a copy, or drops it by ON CONFLICT DO NOTHING.
InsertCopy ==
  /\ \E c \in topic : topic' = topic \ {c}
  /\ stored' = TRUE
  /\ counter' = IF stored THEN counter + 1 ELSE counter
  /\ dropped' = IF stored THEN dropped + 1 ELSE dropped
  /\ UNCHANGED <<race, answered, others>>

OtherDuplicate ==
  /\ others < MaxOthers /\ others' = others + 1
  /\ counter' = counter + 1 /\ dropped' = dropped + 1
  /\ UNCHANGED <<race, answered, topic, stored>>

ConsumerRestarts ==
  /\ others < MaxOthers /\ others' = others + 1
  /\ counter' = 0
  /\ UNCHANGED <<race, answered, topic, stored, dropped>>

RaceNext ==
  \/ StartRace \/ ReadBefore \/ CopyAnswered \/ Settled \/ ReadAfter \/ ReadRow
  \/ InsertCopy \/ OtherDuplicate \/ ConsumerRestarts

\* Variant: a count that could not be read taken for zero.
SkippedFromZero == [known |-> TRUE, count |-> race.after.value - race.before.value]

\* "Skipped by unique constraint", which is "?" unless both readings worked.
Skipped ==
  [known |-> race.before.read /\ race.after.read,
   count |-> race.after.value - race.before.value]

---------------------------------------------------------------------------
(* Properties *)

\* The proof the page offers never overclaims: the number shown as skipped by
\* the constraint is at most the number of duplicates the consumer did drop
\* between the two readings, restarts and lost readings included, and a row is
\* only said to exist if one of the copies was stored
\* (DuplicateDemo.tsx:27-34, 50-80, 122-133).
RaceNeverOverclaims ==
  race.phase = "done" =>
    /\ Skipped.known => Skipped.count <= race.after.dropped - race.before.dropped
    /\ race.rowFound => stored

=============================================================================
