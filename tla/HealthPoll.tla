----------------------------- MODULE HealthPoll -----------------------------
(***************************************************************************)
(* The health panel of the overview: hooks/usePolling.ts and               *)
(* components/HealthPanel.tsx, over GET /health (app/api/routes/health.py),*)
(* which reads one dependency after the other.  Polls may overlap, and an  *)
(* answer that is late lands all the same.                                 *)
(***************************************************************************)
EXTENDS Browser, Sequences, SequencesExt

CONSTANTS
  MaxPolls,     \* bound: polls under way
  MaxChanges,   \* bound: changes of a dependency during one visit
  MaxFailures   \* bound: polls that fail during one visit

ASSUME HealthAssumption ==
  MaxPolls \in Nat \ {0} /\ MaxChanges \in Nat /\ MaxFailures \in Nat

VARIABLES
  kafka,      \* "connected" iff the API's producer is started
  database,   \* what connecting and SELECT 1 would give
  polls,      \* the polls under way, oldest first: what each has read so far
  health,     \* [data, error] of usePolling; an error is an HTTP status or 0
  budget      \* changes and failures so far

healthVars == <<kafka, database, polls, health, budget>>

KafkaStates    == {"connected", "disconnected"}
DatabaseStates == {"connected", "unreachable", "query_failed"}

Unread   == "unread"
NoData   == [kafka |-> Unread, database |-> Unread]
NoError  == -1
Asked    == NoData

NoHealth == [data |-> NoData, error |-> NoError, mounted |-> FALSE]
NoBudget == [changes |-> 0, failures |-> 0]

HealthReadings == [kafka : KafkaStates \cup {Unread}, database : DatabaseStates \cup {Unread}]

HealthTypeOK ==
  /\ kafka \in KafkaStates /\ database \in DatabaseStates
  /\ polls \in Seq(HealthReadings)
  /\ health \in [data : HealthReadings, error : {NoError, 0, 502}, mounted : BOOLEAN]
  /\ budget \in [changes : 0..MaxChanges, failures : 0..MaxFailures]

\* The panel as it opens.
HealthBlank ==
  /\ kafka = "connected" /\ database = "connected" /\ polls = <<>>
  /\ health = NoHealth /\ budget = NoBudget

HealthOpens ==
  /\ kafka' = "connected" /\ database' = "connected" /\ polls' = <<>>
  /\ health' = NoHealth /\ budget' = NoBudget

DependencyChanges ==
  /\ budget.changes < MaxChanges
  /\ budget' = [budget EXCEPT !.changes = @ + 1]
  /\ \/ kafka' \in KafkaStates \ {kafka} /\ database' = database
     \/ database' \in DatabaseStates \ {database} /\ kafka' = kafka
  /\ UNCHANGED <<polls, health, browserVars>>

\* Variant: polling ends with the first answer.
HealthTickOnce ==
  /\ health.data = NoData
  /\ Len(polls) < MaxPolls
  /\ polls' = Append(polls, Asked)
  /\ health' = [health EXCEPT !.mounted = TRUE]
  /\ UNCHANGED <<kafka, database, budget, browserVars>>

\* run(), by the effect and then by its interval while the tab is on screen.
HealthTick ==
  /\ health.mounted => visible
  /\ Len(polls) < MaxPolls
  /\ polls' = Append(polls, Asked)
  /\ health' = [health EXCEPT !.mounted = TRUE]
  /\ UNCHANGED <<kafka, database, budget, browserVars>>

\* health_check: is_started first, then the probe of the database.
ReadKafka(n) ==
  /\ polls[n].kafka = Unread
  /\ polls' = [polls EXCEPT ![n].kafka = kafka]
  /\ UNCHANGED <<kafka, database, health, budget, browserVars>>

ProbeDatabase(n) ==
  /\ polls[n].kafka # Unread /\ polls[n].database = Unread
  /\ polls' = [polls EXCEPT ![n].database = database]
  /\ UNCHANGED <<kafka, database, health, budget, browserVars>>

\* 200 and 503 are data alike.
HealthAnswered(n) ==
  /\ polls[n].database # Unread
  /\ health' = [health EXCEPT !.data = polls[n], !.error = NoError]
  /\ polls' = RemoveAt(polls, n)
  /\ UNCHANGED <<kafka, database, budget, browserVars>>

\* No answer, or one of a proxy: the data stay as they are.
HealthFails(n) ==
  /\ budget.failures < MaxFailures
  /\ budget' = [budget EXCEPT !.failures = @ + 1]
  /\ \E code \in {0, 502} : health' = [health EXCEPT !.error = code]
  /\ polls' = RemoveAt(polls, n)
  /\ UNCHANGED <<kafka, database, browserVars>>

HealthTabSwitch == SwitchTab /\ UNCHANGED healthVars

HealthNext ==
  \/ DependencyChanges \/ HealthTick \/ HealthTabSwitch
  \/ \E n \in DOMAIN polls :
       ReadKafka(n) \/ ProbeDatabase(n) \/ HealthAnswered(n) \/ HealthFails(n)

\* The badge of the panel, and the status the probe itself would answer.
healthStatus(data) ==
  IF data.kafka = "connected" /\ data.database = "connected" THEN "healthy" ELSE "degraded"

overall ==
  CASE health.error = 0 -> "API unreachable"
    [] health.error # 0 /\ health.data = NoData -> "checking"
    [] OTHER -> healthStatus(health.data)

---------------------------------------------------------------------------
(* Properties *)

\* The badge is that of the dependencies as they are.
HealthCurrent == overall = healthStatus([kafka |-> kafka, database |-> database])

=============================================================================
