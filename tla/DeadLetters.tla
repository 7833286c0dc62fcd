---------------------------- MODULE DeadLetters ----------------------------
(***************************************************************************)
(* The dead letter page: pages/DLQ.tsx with ReasonSummary, ReplayGuide and *)
(* DLQDrawer, over a dlq_events table that the consumer keeps adding to.   *)
(*                                                                         *)
(* The list is asked for again at every interval whether or not an answer  *)
(* is outstanding, so answers may land in any order: a request is kept     *)
(* with the number of rows the table had when it was sent, and its answer  *)
(* holds the rows of some moment since and a total counted after them.     *)
(***************************************************************************)
EXTENDS Browser, Paging, Validation

CONSTANTS
  Failures,   \* the rows dlq_events comes to have, oldest first:
              \* [type : their event_type, raw : the forms of raw_payload]
  MaxLoads    \* bound: requests for the list in flight

VARIABLES
  failures,   \* rows in dlq_events
  dlq,        \* [key, loads, shown, failed] of DLQ.tsx
  summary     \* [key, loads, counted] of ReasonSummary.tsx

deadVars == <<failures, dlq, summary>>

ASSUME DeadAssumption ==
  /\ Failures \in Seq([type : EventTypes, raw : Forms])
  /\ MaxLoads \in Nat \ {0}

\* Nothing shown yet; as a total, `undefined`.
Nothing == -1
Unmounted == -2

dlqKey(query) ==
  [event_type |-> query.event_type, limit |-> limitOf(query), offset |-> offsetOf(query)]

NoDlqKey == [event_type |-> "none", limit |-> 0, offset |-> 0]
DlqBlank == [key |-> NoDlqKey, loads |-> {},
             shown |-> [key |-> NoDlqKey, at |-> Nothing, counted |-> Nothing],
             failed |-> FALSE]
SummaryBlank == [key |-> Unmounted, loads |-> {}, counted |-> Nothing]

Totals == Nat \cup {Nothing}
DlqKeys == [event_type : Filters \cup {"none"}, limit : Nat, offset : Nat]

DeadTypeOK ==
  /\ failures \in 0..Len(Failures)
  /\ dlq \in [key : DlqKeys, loads : SUBSET [key : DlqKeys, from : 0..failures],
              shown : [key : DlqKeys, at : Totals, counted : Totals], failed : BOOLEAN]
  /\ summary \in [key : Totals \cup {Unmounted}, loads : SUBSET (0..failures),
                  counted : Totals]

\* The page as it opens; the rows of earlier visits are not followed.
DeadBlank == failures = 0 /\ dlq = DlqBlank /\ summary = SummaryBlank
DeadOpens == failures' = 0 /\ dlq' = DlqBlank /\ summary' = SummaryBlank

\* GET /dlq when the table holds `at` rows: the rows that match, newest first.
Matching(key, at) ==
  {i \in 1..at : key.event_type \in {"", Failures[i].type}}

PageRows(key, at) ==
  LET newer(i) == Cardinality({j \in Matching(key, at) : j > i})
  IN {i \in Matching(key, at) : newer(i) \in key.offset..(key.offset + key.limit - 1)}

shownTotal ==
  IF dlq.shown.counted = Nothing THEN Nothing
  ELSE Cardinality(Matching(dlq.shown.key, dlq.shown.counted))

shownRows ==
  IF dlq.shown.at = Nothing THEN {} ELSE PageRows(dlq.shown.key, dlq.shown.at)

\* What the card of failed events shows.
dlqView ==
  CASE dlq.failed -> "error"
    [] ~dlq.failed /\ shownTotal = Nothing -> "loading"
    [] ~dlq.failed /\ shownRows # {} -> "rows"
    [] OTHER -> IF seen.query.event_type # "" THEN "nothing matches" ELSE "queue is empty"

\* The rows shown that their drawer calls replayable, and the guide counts.
replayableRows == {i \in shownRows : replayVerdict(Failures[i].raw)}

\* The consumer writes a row.
EventFails ==
  /\ failures < Len(Failures)
  /\ failures' = failures + 1
  /\ UNCHANGED <<dlq, summary, browserVars>>

---------------------------------------------------------------------------
(* The list *)

\* Variant: an effect without a cleanup.
DlqEffectKeepingLoads ==
  /\ dlq.key # dlqKey(seen.query)
  /\ dlq' = [dlq EXCEPT !.key = dlqKey(seen.query),
                        !.loads = @ \cup {[key |-> dlqKey(seen.query), from |-> failures]}]
  /\ UNCHANGED <<failures, summary, browserVars>>

\* The cleanup cancels every request of the run before; then the first load.
DlqEffect ==
  /\ dlq.key # dlqKey(seen.query)
  /\ dlq' = [dlq EXCEPT !.key = dlqKey(seen.query),
                        !.loads = {[key |-> dlqKey(seen.query), from |-> failures]}]
  /\ UNCHANGED <<failures, summary, browserVars>>

\* The interval of the effect's last run.
DlqTick ==
  /\ dlq.key # NoDlqKey
  /\ Cardinality(dlq.loads) < MaxLoads
  /\ dlq' = [dlq EXCEPT !.loads = @ \cup {[key |-> dlq.key, from |-> failures]}]
  /\ UNCHANGED <<failures, summary, browserVars>>

\* The page and the total are two statements of list_dlq_events.
DlqAnswer ==
  \E load \in dlq.loads :
    /\ \/ \E at \in load.from..failures : \E counted \in at..failures :
            dlq' = [dlq EXCEPT !.loads = @ \ {load}, !.failed = FALSE,
                               !.shown = [key |-> load.key, at |-> at, counted |-> counted]]
       \/ dlq' = [dlq EXCEPT !.loads = @ \ {load}, !.failed = TRUE]
    /\ UNCHANGED <<failures, summary, browserVars>>

FilterDlq ==
  /\ \E type \in {Failures[i].type : i \in DOMAIN Failures} \cup {""} :
       setParams([event_type |-> type, offset |-> 0])
  /\ UNCHANGED deadVars

TurnDlqPage ==
  /\ dlqView = "rows"
  /\ \E turn \in Turns(shownTotal, limitOf(seen.query), offsetOf(seen.query)) :
       setParams(turnTo(turn))
  /\ UNCHANGED deadVars

\* The open drawer: the row of the address, if the page has it.
selected == seen.query.item \in shownRows

SelectFailure ==
  /\ dlqView = "rows"
  /\ \E i \in shownRows : setParams([item |-> i])
  /\ UNCHANGED deadVars

CloseFailure ==
  /\ selected
  /\ setParams([item |-> 0])
  /\ UNCHANGED deadVars

---------------------------------------------------------------------------
(* The reasons above the list, asked for again when the total shown changes *)

\* Variant: the reasons are asked for once.
SummaryEffectOnce ==
  /\ summary.key = Unmounted
  /\ summary' = [summary EXCEPT !.key = shownTotal, !.loads = {failures}]
  /\ UNCHANGED <<failures, dlq, browserVars>>

SummaryEffect ==
  /\ summary.key # shownTotal
  /\ summary' = [summary EXCEPT !.key = shownTotal, !.loads = {failures}]
  /\ UNCHANGED <<failures, dlq, browserVars>>

\* Counted over the newest of some moment since; `…` when the request fails.
SummaryAnswer ==
  \E from \in summary.loads :
    /\ \E at \in from..failures \cup {Nothing} :
         summary' = [summary EXCEPT !.loads = {}, !.counted = at]
    /\ UNCHANGED <<failures, dlq, browserVars>>

DeadNext ==
  \/ EventFails \/ DlqEffect \/ DlqTick \/ DlqAnswer
  \/ FilterDlq \/ TurnDlqPage \/ SelectFailure \/ CloseFailure
  \/ SummaryEffect \/ SummaryAnswer

---------------------------------------------------------------------------
(* Properties *)

\* The rows on the page are those of the filters and the page asked for, or
\* the page says that asking failed, or the answer is still to come: with
\* requests overlapping, an answer under earlier filters never replaces the
\* one under these (DLQ.tsx:32-49).  And the rows the guide counts are those that
\* the replay script would publish, but for the values on which the two sides
\* part: what it counts and the script skips are the overrated rows, and what
\* the script publishes besides is underrated (replay.ts:20-40).
DlqTellsTruth ==
  LET published == {i \in shownRows : scriptReplays(Failures[i].raw)} IN
  /\ \/ dlq.shown.key \in {NoDlqKey, dlq.key}
     \/ dlq.failed
     \/ \E load \in dlq.loads : load.key = dlq.key
  /\ replayableRows \ published = {i \in replayableRows : Overrated(Failures[i].raw)}
  /\ \A i \in published \ replayableRows : Underrated(Failures[i].raw)

\* The page under its filters and, without filters, the reasons above it have
\* caught up with the table, or a request is known to have failed.
DlqFresh ==
  \/ dlq.failed
  \/ /\ dlq.key = dlqKey(seen.query)
     /\ dlq.shown = [key |-> dlq.key, at |-> failures, counted |-> failures]
     /\ dlq.key.event_type = "" => summary.counted \in {Nothing, failures}

=============================================================================
