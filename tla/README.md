# Formal models of the event ingestion API

TLA+ specifications of the concurrent core of this repository, the TLC runs that
check them on small instances, and the theorems TLAPS proves about them for
every instance. Paths below are relative to the repository root.

To check a module: `tlc -config ConsumerFaults.cfg MCConsumer`; to check the
proofs: run `tlapm` on `SumProofs.tla`, `DeliveryProofs.tla`, `ConsumerProofs.tla`,
`StreamProofs.tla`, `IngestProofs.tla`, `PipelineProofs.tla`, `ConsoleProofs.tla` and
`PagesProofs.tla`.

## The system

Clients post events to the API, which publishes them to the Kafka topic
`events.raw`. A group of consumers stores them in PostgreSQL, and puts what it
cannot store in the dead letter queue (DLQ). A poller feeds the API from public
sources, an operator's script replays the DLQ, and a browser console shows it all.

| Component | State | Operations | Talks to | Hard part | What makes it correct |
|---|---|---|---|---|---|
| Consumer service (`consumer/`, `app/kafka/consumer.py`) | message in hand, retry attempt, shutdown event, counters; fetch positions and committed offsets | start, fetch, insert, retry, commit, stop | topic, coordinator, database, DLQ handler | rebalances and crashes between any two steps, lost acknowledgements, a commit that names no offset | no committed message is lost; at most one redelivery per instance; offsets never go back; every message is committed in the end |
| DLQ handler (`app/core/dlq.py`) | rows of `dlq_events`, messages of `events.dlq` | `send`: row, then message | database, topic | one of the two writes fails | a message on the topic has a row; the DLQ takes what the table refuses |
| Event repository (`app/db/repository.py`) | the two tables, the id sequence | inserts, pages, the cursor query | everyone | an id is taken before its row is visible | one row per event id; a cursor neither skips nor repeats |
| Live stream endpoint (`app/api/routes/stream.py`) | slot counter; cursor and batch of each stream | admit, attach, poll, send, end | database, hook | slots on every way out; check and count apart | slots are exactly the open streams; the limit holds |
| Live stream hook (`frontend/src/hooks/useEventStream.ts`) | connection, last id, count | open, message, error, pause, resume | endpoint | what a reconnect resumes from | every row once and in order |
| Ingest service (`ingest/`) | backoff per source; one poll's queue, requests in flight, tally | poll, skip, fetch, publish, count, stop | sources, API | two kinds of waiting, bounded concurrency, failure inside a batch | penalties and waits served exactly, none given up, exact tallies |
| Event API (`app/api/routes/events.py`) | none between requests, counters | validate, check for a duplicate, publish, answer | database, topic, clients | check and publish apart; 503 for a message that was published | an accepted event is delivered; 409 only for a stored event |
| Replay script (`scripts/replay_dlq.py`) | none | list, classify, republish | database, topic | rows are never marked, the list is limited, a run may stop half way | what it publishes does not come back; what it leaves out is not lost |
| Console shell (`frontend/src/App.tsx`, `router.ts`) | the address, and the reading of it that is rendered | follow a link, set parameters, `hashchange` | every page | a render acts on an older reading than the address it writes over | what is shown belongs to what is asked |
| Events explorer (`pages/Events.tsx`, `EventDrawer.tsx`, `EventFilters.tsx`, `Pagination.tsx`) | query asked, answer shown, drawer | ask, answer, filter, turn, open, close | API, shell | answers that were overtaken, pages turned and resized from an earlier answer | no answer to another question; pages without gaps |
| Dead letter page (`pages/DLQ.tsx`, `ReasonSummary.tsx`, `DLQDrawer.tsx`, `lib/replay.ts`) | list, requests under way, reasons | ask at every interval, answer, filter, turn | API, `dlq_events`, replay script | answers in any order over a growing table, two forms of one rule | the list is that of its filters and catches up; verdicts agree |
| Send page (`pages/Send.tsx`, `DeliveryTracker.tsx`, `lib/validate.ts`) | draft, request, tracker | type, preset, send, resend, poll, time out | API, and so topic and consumer | a poll that outlives the send it was for | each step reported did happen; polling ends |
| Duplicate race (`DuplicateDemo.tsx`) | phase, two readings of a counter | publish at once, read before and after | API, consumer metrics | others use the counter, the consumer restarts, a reading fails | no more duplicates claimed than dropped |
| Metrics page (`hooks/useMetrics.ts`, `pages/Metrics.tsx`) | history of each process | scrape by interval and on return, land, add up | metrics endpoints | counters that restart or are not exposed, overlapping scrapes | no increase beyond what was counted |
| Health probe and panel (`app/api/routes/health.py`, `hooks/usePolling.ts`, `HealthPanel.tsx`) | last answer and error | poll, read each dependency, answer, fail | Kafka producer, database | an answer older than what it replaces | the badge comes to be right |
| Guided tour (`lib/tour.ts`, `GuidedTour.tsx`) | step, event of the tour, results | run a step, turn, end | API | the step turned while one runs, an event replaced by a second run | no result that did not happen |

Not modelled, now or later: request ids and the metrics endpoint (a header passed
through, a registry printed), configuration, images and load tests (their settings
are the constants of the models), and the console's layout, texts and formatting.

## The modules

* **`Delivery.tla`** is the abstract promise: per partition, messages are
  acknowledged one at a time and in order, each only once it is stored or dead.
  It comes from Decisions 4 and 6 of the repository's `README.md` and the
  comment at `consumer/main.py:106`.
* **`Consumer.tla`** is the consumer group. `log` and `committed` are the topic
  and the group's offsets, `rows`, `dlqRows` and `dlqTopic` the tables and
  `events.dlq`. An instance's `pc` is the await it stands at: `polling` is
  `_wait_for_message_or_shutdown`, `inserting` and `backoff` are `with_retry`,
  `dlq_insert` and `dlq_publish` the halves of `DLQHandler.send`, `committing`
  the commit, `closing` the `finally` block. One action is what happens between
  two awaits; an action that ends in failure has disjuncts for an effect that
  took place all the same. `assigned`, `position` and `inGroup` are the client's
  view of the group and the coordinator's.
* **`Stream.tla`** composes three actors: writers inserting rows, connections at
  the server, tabs with the hook. `stage` is where a connection is in
  `stream_events`, `_event_frames` and `_poll_loop`.
* **`Ingest.tla`** is the poll loop with `BackoffRegistry`. `pc` and `turn` are
  the loop, `failures`, `skips` and `wait` the fields of `SourceState` (`wait`
  being what is left until `retry_not_before`), `queued`, `inflight` and `tally`
  one `poll_once`.
* **`Pipeline.tla`** composes the event API, the consumer and the replay script.
  The consumer's steps are `Delivery`'s, which `Consumer` is proved to implement,
  so that the composition stays small, and the whole of it is proved to implement
  `Delivery` again. `stage` is the await of `create_event` a
  request stands at, `accepted` and `conflicts` what clients were told, `dlq` the
  rows of `dlq_events` and `listed` the rows a run of `replay_dlq.py` still has to
  publish.
* **`Browser.tla`** is the tab: `hash` the address, `seen` what the components
  render from until the `hashchange` arrives, `visible` whether it is on screen.
  `setParams` is the `update` of `useHashParams`, which writes over the address,
  whereas what it is given comes from `seen`.
* **`Paging.tla`** (limit, offset, the buttons of `Pagination.tsx`) and
  **`Validation.tla`** (`validateDraft`, `EventCreate`, `replayVerdict`, `classify`)
  are functions. A value is there what it `is` (a string, something else, absent), the form
  of the `text` that `String()` makes of it, and the white space around that (`pad`).
  `Browser` and `Schema` are the forms of text that each side takes, written down
  separately, since the two sides do not agree.
* **`Explorer.tla`, `DeadLetters.tla`, `SendPage.tla`, `Race.tla`, `Scrapes.tla`,
  `HealthPoll.tla`, `Tour.tla`** are the pages and panels. In each, one action is
  an effect with its cleanup, one a timer, one the answer to a request, one a click;
  and the part of the server that the page talks about is there too (rows being
  added, an event moving on, a counter that restarts).
* **`Console.tla`** composes them: one page is mounted, opening a page blanks it.
* **`MCConsumer`, `MCIngest`, `MCPipeline`, `MCConsole`** give the constants their
  values; `Stream` needs none.
* **`ConsumerProofs.tla`, `StreamProofs.tla`, `IngestProofs.tla`,
  `PipelineProofs.tla`, `ConsoleProofs.tla` (types and counters), `PagesProofs.tla`
  (what the pages show)** hold the theorems about the components,
  **`DeliveryProofs.tla`** what follows from the abstract promise alone, and
  **`SumProofs.tla`** the lemmas on sums of counters that others use.

Operators headed `Variant` are mutated forms of the definition after them, used
to confirm that each property can fail. Variables headed `history` are read by
properties only.

### Where the models abstract

* A message is its event id and its `kind`: what `process_message` and the two
  tables make of it. `unstorable` is a payload that JSONB refuses in both tables,
  `unrecordable` a message that is not tried for `events` and that `DLQHandler.send`
  cannot record (a NUL, or an `event_type` that `_fit_column` has no length of),
  `malformed` a JSON value that is not an object, or no JSON at all: there `getone()`
  raises and not `raw_value.get`, and either way `run()` ends with the message taken and
  its offset uncommitted.
* The insert whose last attempt was committed and whose acknowledgement was lost sends a
  stored event to the DLQ as well. Code and model do so, and no property forbids it.
* A killed or exiting instance leaves the group at once. The coordinator's delay
  in noticing only postpones the next rebalance. An instance that is alive and
  dropped is modelled (`SessionExpires`): it goes on with its stale assignment.
* A failure of `consumer.start()` or of the DLQ producer's start ends the process
  before it did anything and is a stuttering step.
* `session.commit()` and `execute()` of an insert are one step in `Consumer`,
  with the row visible after it, and two in `Stream`, where the order matters.
* A frame on the wire is one the server has not sent yet; a frame lost with its
  connection and one never sent look the same to the tab.
* Streams: keep-alives, jitter, and the displayed list are left out.
* Pipeline: a DLQ entry is one step, row and message together; `Consumer` has the
  halves. An entry for a message that could be stored, or a second one for the same
  message, costs a fault. The broker keeps what it acknowledged (it is a single one,
  with `acks=1`). A posted event is one that passes `EventCreate`: a request
  answered 422 changes nothing. Payloads that pass it and that JSONB refuses are
  left out here; they are the finding of `ConsumerOutageComment`. `stored` is a set: that two
  copies never make two rows is the unique constraint, which is assumed. The script's
  filters and its dry run are left out.
* Ingest: time is what is left of a wait. Failures are counted up to `MaxStreak`,
  from where the penalty no longer grows. A signal takes effect where the loop
  waits, as asyncio's handlers do.
* Console: one page is mounted at a time, as in `App.tsx`, so `Console` is the sum
  of its pages and not their product. The delivery and the race panel of the send
  page share only the draft and are followed one at a time. The rows of the explorer's
  page and its total, two statements in `list_events`, are read at one moment there; the
  dead letters, whose table grows while it is shown, have both moments (`DlqAnswer`).
  An object with a `toString` of its own that makes `String()` throw is left out. The stream page is the
  module `Stream`, and the tour's page does not repeat the scrapes of `Scrapes`.
  A request that an effect's cleanup cancelled has no effect, so it is not kept. A
  link to another page and its `hashchange` are one step: the page that could act
  in between is on its way out. Everything that is bounded counts per visit. A
  second race is one after a fresh opening. One field stands for type and source,
  one for both times, and typing a filter and applying it is one step. `Scrapes`
  follows one counter of each process, without labels; drawing is left out.

## The runs

Deadlock is not checked: an idle system with its budget of faults used up, or a
stopped poller, may stand still.

| Run | Instance | Shows |
|---|---|---|
| `ConsumerGroup` | 2 instances, 2 partitions of 1 message, 1 retry, 2 faults | types; at most one message fetched and uncommitted per member; `events_persisted_total` never exceeds the rows |
| `ConsumerFaults` | 2 instances, 1 partition of 2 messages, 2 events, 5 kinds, 2 faults | committed means settled; DLQ messages have rows; offsets never go back; `Delivery` is implemented |
| `ConsumerLiveness` | the same partition with 1 message of 4 kinds, 1 fault | every message is committed; shutdown completes; an instance gives up only on a fault or when dropped |
| `ConsumerOutageComment` | 1 instance, no faults, messages that the DLQ cannot record | **violated**: the comment at `consumer/main.py:83-86` |
| `StreamFeed` | 1 writer, 2 ids, 2 tabs, 2 slots, 3 connections, 1 fault | slot accounting; nothing repeated or skipped; every row reaches each tab |
| `StreamConcurrentWriters` | 2 writers | **violated**: the docstring at `app/db/repository.py:135-136` |
| `StreamReconnect` | 1 tab, 1 fault | **violated**: the comment at `useEventStream.ts:22-27` |
| `StreamLimit` | 2 tabs, limit 1 | **violated**: `app/config.py:52-54` |
| `Pipeline` | 2 requests at once, 2 events, 1 partition, 2 posts, 3 faults, a limit of 5 rows, the duplicate check on or off | an accepted event is stored, queued or dead, and stored in the end; no 202 without its message; 409 is final; the replay does not feed itself |
| `Ingest` | 2 sources, penalties 2 then 4 (cap), waits of 1, feeds of 3, 2 requests at once | exact tallies, penalties and waits; no healthy source skipped; every source polled again; shutdown |
| `IngestRateLimit` | the same, empty feeds | **violated**: the docstring at `ingest/main.py:35-37` |
| `Console` | every page but the stream; see below | the list, the drawer, the dead letters, the tracker, the race and the tour show what was asked and did happen; pages have no gaps; verdicts and checks part from the script and the schema on the forms named only; increases do not overcount; dead letters, tracker and badge come to rest on the truth |

The five violations are disagreements between the code and what it says of
itself; `PROJECT.json` quotes both sides.

**Bounds.** `MaxLog`, `MaxId`, `MaxFeed`, `MaxStreak`, `MaxDelay` and `Conns`
bound what is published, numbered, fetched, counted or open; `MaxFaults` bounds
faults and stop signals in one behaviour. Two instances and two faults let a
partition change hands, be handled twice and be committed late by its former
owner. Two messages in one partition let a commit cover a message it should not.
A log with one event id twice is among them (redelivery and duplicate at once).
Three connections for two tabs and two slots let a closed connection hold a slot
that its own tab waits for. A third failure passes the cap. In `Pipeline`, `MaxPosts`
bounds what clients and other producers send and `MaxFaults` the faults and the
replays nobody needed: two posts of one event race through the check, and three
faults bury a message, interrupt its replay and bury it again. `Limit` exceeds
the rows that can be: with more rows than its limit the script sees only the oldest,
and an operator has to raise it.

`Console` has page sizes 1 and 2, so that one and two rows make one page or two;
`MaxTotal` is 2 rows that match a query, and the dead letters are two of different
types: the older has an undotted type, the newer a `source` that is no string, which the
page calls replayable and the script skips. The composer has five drafts: one that is
clean, one with a padded id, one that only the browser takes (`lighter`), one that only the
schema takes (a UUID in braces) and one that neither does. `MaxMoves` allows one to three address changes
per visit, so that a filter, a page and a drawer can be combined before any of
them is rendered; `MaxLeave` stops links to other pages after the first move, which
leaves every page to be opened both at its plain address and at a shared one (second
page with a drawer, a limit and an offset that the page refuses, the tour at steps 1
and 5). `MaxLoads`, `MaxPolls` and `MaxScrapes` are 2 requests under way, the least
that can arrive in the wrong order. `MaxSends` is 2 sends: the second while the tracker
polls for the first. The race has 2 copies and `MaxOthers` 2 other duplicates or restarts.
A counter counts to `MaxCount` 2 over `MaxRestarts` 1 restart, with a `HISTORY` of 2
snapshots. `MaxChanges` is 2 changes of a dependency and `MaxFailures` 1 poll that
fails. The tour has its six steps and `MaxTour` 2 events: step 1 run again before step 2.

The proofs remove all bounds for the safety of `Consumer`, `Stream`, `Ingest`,
`Pipeline` and `Console`. One bound is more than a bound on the instance: `Ingest`
counts no failure beyond `MaxStreak`. `PenaltyStaysCapped` proves that nothing is lost by it.

**Fairness.** `Consumer`: each running instance takes its steps (an asyncio task
whose awaits return or raise), a stopped one is started again
(`restart: unless-stopped`, which `docker-compose.yml` calls load-bearing) and the
coordinator lets every running instance rejoin. Nothing is assumed of faults but
that `MaxFaults` ends them. `Stream`: the server takes its steps and a tab whose
timer ran out opens its connection; nothing is asked of users or writers.
`Ingest`: the loop proceeds, since every request has a 20 s timeout and the pause
its interval, and time passes. (httpx's timeout is per operation: an upstream that
sends a byte now and then for ever is excluded by this assumption.) `Pipeline`: the consumer handles and acknowledges the next message
(`EveryMessageCommitted`), a run of the script gets through its rows unless a fault
ends it, and the operator runs it while an event it could bring back is missing.
Of clients nothing is assumed, not even that a 503 is retried. `Console`: the
browser delivers `hashchange`, runs effects and fires timers, and every request is
answered or fails, none of them always passed over; nothing is asked of the user, and
a hidden tab may stay hidden. An interval and
the answers it asks for have conditions of their own, so that neither can stand for the other.

## The proofs

For any values of the constants that satisfy the modules' assumptions:
`ConstantsAssumption`, `StreamConstants`, `IngestConstants` and `PipelineConstants`; for the console `LinksAssumption`,
`PageSizesAssumption`, `ExplorerAssumption`, `DeadAssumption`, `SendAssumption`,
`RaceAssumption`, `ScrapesAssumption`, `HealthAssumption` and `TourAssumption`.
They say little more than what kind of value a constant is. TLC evaluates them all.
Five theorems ask for more, in their statements: `OneWriterSkipsNothing` one
inserting instance, `LimitOverrun` and `LimitHeldOneAtATime` a bound on the requests let
in together, `PagesHoldHolds` links on page boundaries (`AlignedLinks`: an offset typed
into the address by hand need not be), and `HandlerFailureMeansOutageHolds` that no
message is `unstorable`, `unrecordable` or `malformed`. Each of these is where the code stops keeping the
property, as the runs that are violated, and the last part of this file, tell.

| Theorem | Property | Says |
|---|---|---|
| `TypeCorrect` | `TypeOK` | attempts and offsets stay in range |
| `NoMessageLost` | `CommittedAreSettled` | no committed offset passes an unsettled message |
| `BoundedRedelivery` | `AtMostOneUncommitted` | a member is at most one message ahead |
| `CommitsForward` | `CommitNeverRewinds` | offsets never go back |
| `Refinement` | `ImplementsDelivery` | the group implements `Delivery` |
| `DlqMessagesHaveRowsHolds` | `DlqMessagesHaveRows` | every message on `events.dlq` has a row of its own |
| `PersistedNeverOvercountsHolds` | `PersistedNeverOvercounts` | all instances together count no more rows than there are |
| `HandlerFailureMeansOutageHolds` | `HandlerFailureMeansOutage` | without hopeless messages, an instance gives up for a fault or when dropped |
| `GivesUpForReasonHolds` | | and with them, for those and for hopeless messages only |
| `CommitCoversOneMessage` | | a commit of all positions covers one message of one partition |
| `RowsComeFromMessages` | | no row without its message |
| `PromiseKeepsAcked`, `PromiseInventsNothing`, `PromiseKeepsPartitions`, `PromiseGoesForward` | | what acknowledged means, where rows and entries come from, one partition per event, nothing is taken back: for all that implements `Delivery` |
| `StreamTypeCorrect` | `Stream`'s `TypeOK` | the types of the feed |
| `SlotsAccountedHolds` | `SlotsAccounted` | slots are exactly the open streams |
| `NothingRepeatsHolds` | `NothingRepeats` | each row at most once and in order |
| `OneWriterSkipsNothing` | `NothingSkipped` | with one instance inserting, no cursor skips a row |
| `ShownIsStored` | | a tab is sent committed rows only |
| `ServedTabsSkipNothing` | | only tabs that were sent no row can skip one by a reconnect |
| `LimitOverrun`, `LimitHeldOneAtATime` | | K requests let in together overrun the limit by K - 1 at most; one at a time, not at all |
| `IngestTypeCorrect` | `Ingest`'s `TypeOK` | the types of the poller |
| `PollsTallied` | `TallyExact` | each event fetched is queued, under way or counted, once |
| `PenaltyServedHolds` | `PenaltyServed` | penalties are served exactly |
| `RetryAfterHonouredHolds` | `RetryAfterHonoured` | no source is asked before its wait is over |
| `HealthyNeverSkippedHolds` | `HealthyNeverSkipped` | a poll is skipped for the source's own failure only |
| `PenaltyDoubles`, `PenaltyGrows`, `PenaltyStaysCapped` | | penalties start at the first, double, and stay at the cap |
| `UndatedNeverFallsBack` | | a rate limit without seconds never costs what the backoff would |
| `PipelineTypes` | `Pipeline`'s `TypeOK` | what table and script name are places of the topic |
| `PipelineDelivers` | | the API, the consumer and the script implement `Delivery` |
| `RowsComeFromTopic` | | no row without its message, whatever is published again |
| `CountedArePublished` | `AcceptedNeverOvercounts` | each 202 has its own message on the topic |
| `AcceptedSurvives` | `NoAcceptedEventLost` | an accepted event is stored, queued or dead |
| `ConflictIsFinal` | `ConflictMeansStored` | a 409 is given for a stored event only |
| `ReplayEnds` | `ReplayNeverLoops` | what was replayed is buried again only by a fault |
| `ConsoleTypeCorrect` | `ConsoleTypeOK` | every page's types: no negative offset, limit or total |
| `IncreaseNeverOvercountsHolds` | `IncreaseNeverOvercounts` | no increase beyond what was counted between its snapshots |
| `ExplorerShowsWhatIsAskedHolds` | `ExplorerShowsWhatIsAsked` | list and drawer never show an answer to another question |
| `DlqTellsTruthHolds` | `DlqTellsTruth` | the dead letters are those of their filters; page and script differ on overrated and underrated rows only, and on all of the former |
| `RefusalsAgreeHolds` | `RefusalsAgree` | a checked send is refused exactly if its id or payload is one that only the browser takes; an unchecked one gets in only if it is clean or of a form that only the schema takes |
| `TrackerTellsTruthHolds` | `TrackerTellsTruth` | every step the tracker reports has happened |
| `RaceNeverOverclaimsHolds` | `RaceNeverOverclaims` | the duplicates shown as skipped were dropped |
| `TourTellsTruthHolds` | `TourTellsTruth` | no result of the tour that did not happen |
| `PagesHoldHolds` | `PagesHold` | no button leads past the last row or off the page boundaries |
| `EveryRowOnOnePage` | | every matching row is on exactly one page |

`CommittedAreSettled` is not inductive: `commit()` advances every assigned
partition to the instance's position. The invariant `Inv` adds what makes that
sound. `OneOwner`: members' assignments are disjoint, so what an instance commits
nobody else is ahead in. `AtMostOneUncommitted` and `AheadInHand`: a member's
positions agree with the committed offsets but for one message, the one in hand.
`HandSettled`: whoever is about to commit has settled that message, and whoever
is about to publish to the DLQ has written the row. `HandInLog`, `PositionInLog`
and `AttemptLeft` are the ranges that types do not say. There is one lemma per
action; `HandlingMoves` and `HandlingSettles` do what the steps of an instance
handling a message have in common. The refinement maps an insert that took effect
to `Store`, the second half of a DLQ entry to `Bury`, a commit to `Ack` or a
stutter, and everything else to a stutter.

`DlqMessagesHaveRows` is not inductive either, for two instances may each have
written a row for one redelivered message and not published yet. `RowsAhead` counts them:
messages and instances about to publish one do not outnumber the rows.

`PersistedNeverOvercounts` adds up a counter over the instances. `SumProofs` shows that
such a sum is a number and changes by as much as one of its values does; the fold behind
it is a function chosen by its own equation, so that one exists is proved first, by the
least size of a set without one. `Counted` (the sum is at most the rows) is then
preserved, since `insert_event` returns a row exactly for a row that is new. Why an
instance gives up is a property of a step: `IdleHand` says that one without a message
in hand has nothing to give up.

`DeliveryProofs` is about the promise, not about a program: what was acknowledged was
safe and stays so, since no step takes a row or an entry away (`Forward`, `SafeStays`).
`ConsumerProofs` and `PipelineProofs` take its theorems over by instantiating it at their
refinement mapping (`PromiseHere`). `PipelineDelivers` needs only that what is published
is a message that `Delivery` knows, which for a replayed row is its place on the topic
(`TypeOK`); a retried publish is a second `Publish`, a lost one a stutter.

For `Stream`, a tab's safety depends on what its connection will send next. `FeedInv`
says so stage by stage: a request was made with the tab's last id, a polling cursor
is not behind it, a batch is beyond it (`Continues`). `NothingSkipped` needs more.
`Gapless`: up to any row of a batch, what the batch and its tab have is all there is.
`NonePassed`: the same below what was passed. `AtRows`: tabs and cursors stand at
visible rows, so that a row committed later cannot fall behind one, if ids become visible in order
(`InOrder`). That is what one writer gives (`OneWriter`), and two do not:
`StreamConcurrentWriters` shows the row that is then skipped.
The limit is overrun because the check and the count are two steps. `Within` counts both
the streams and the requests let in: letting one in keeps the sum below the limit and
those in the gap together, the count moves one from the gap, and all else only lowers it.

For `Ingest`, the properties say when a source is asked, so the invariant ties the registry
to what happened: what a source has sat out and what it has left add up to its
penalty (`Owed`), what is left of a wait is what is left of the one asked for
(`WaitAsked`), a source that did not fail owes nothing (`HealthyOwesNothing`), and
nothing of a poll outlives it (`PollLocal`). That penalties double is arithmetic of powers,
which the provers have only as numbers of subsets (`PowerDoubles`); that they stay at the
cap takes the least failure after it that would not (`PenaltyStaysCapped`).
`UndatedOwesNothing` is why no undated rate limit costs a poll.

`NoAcceptedEventLost` follows from two facts that are inductive and have to be
proved together with the types: what was acknowledged is safe (`AckedSafe`), and
answers do not outnumber the copies of their event. An event that was accepted so
has a copy, and that copy is either still to be acknowledged or safe. `Grows` says
that logs, rows and entries are only added to, and `StepTyped` what the rest of a
step does; every action but `Accept` and `Ack` preserves the invariant by those two
alone (`Preserved`). `ReplayEnds` needs `ReplayedValid`, which `classify` establishes.

For the console every page has an invariant of its own, preserved by its own actions;
the steps of other pages leave it alone, and opening the page establishes it.
`ConsoleTypeOK` is inductive together with `ScrapesInv`, which says of every sample,
in flight or kept, that its value is what its process had counted since the restart it
names, that no total or base exceeds the process's now, and of any two samples of a
process that they are of one run or one is of a later run. Ordered snapshots then differ by at least what is shown
(`IncreaseNeverOvercounts`). `ExplorerInv` says that every request under way is for
the key asked last and that loading ends with the answer to it. `DeadInv` adds that a
key shown and not the present one has a request of the present one behind it, unless
the failure is shown. `SidesPart` and `VerdictsPart` say of every form where `replayVerdict` and
`classify` differ, `BodySent` and `RefusalsPart` the same of `validateDraft` and `EventCreate`:
field by field, from `Browser` and `Schema`. `SendInv` says that an answer 202 or 409 was
true when given, that the polls under way are for the event followed, and that what they
found is stored; no step takes an event back from where it is, but to move it on (`PlacesGrow`). `RaceInv` bounds the counter's growth by what was dropped and keeps it
so over a restart. `TourInv` ties every result to the places of its event. `PagesInv` says
that the reading is that of the address's page and that the offsets of both are on page
boundaries of their own limits; turning a page keeps them there (`TurnsAligned`), and every other way to write an offset
resets it. `WholePages` and `PageAndRest` are the division that the buttons rest on.

Only model-checked: the liveness properties `EveryMessageCommitted`, `ShutdownCompletes`,
`RowsReachTabs`, `SourcesPolledAgain`, `ShutdownStops`, `AnsweredEventIsStored`,
`DlqCatchesUp`, `TrackerSettles` and `HealthSettles`, since fairness and `ENABLED` are
beyond this prover. Every safety property and action property of a passing run is proved.

## Noticed while modelling

Places where the console says more than it knows. The models follow the code, and the
properties are stated so that these cases are outside or allowed; no run is about them.

* `replayVerdict` judges `String()` of each field, trimmed (`lib/replay.ts:32-37`, called the
  same rule at line 15). A number, `true`, `{}`, an array of one UUID, or a padded id is
  so called replayable, and the script skips the row. `Overrated` names these forms.
* `validateDraft` takes some ids that the API refuses: a UUID with some of its hyphens,
  `URN:UUID:` in capitals, `urn:uuid:` before 32 bare digits (`lib/validate.ts:9-11`).
  `payloadBytes` is not `len(json.dumps())` for DEL, exponents and floats
  (`validate.ts:31-33` says so of floats), in either direction near the limit.
* The other way round (`Underrated`): a UUID in braces, a source of white space, and a text of 50
  characters that JavaScript counts as more are refused by the browser and taken by the
  API and the script.
* The tracker polls for the id as typed: a padded id is sent trimmed, never found, and
  given up (`DeliveryTracker.tsx:45`). A poll that fails counts as no row.
* Two scrapes that land in the wrong order make the counter look restarted, and the
  increase shown is then the whole counter (`useMetrics.ts:40-43`); hence `InOrder`.
* The dead letter page says that the queue is empty for an offset past its end
  (`pages/DLQ.tsx:106-116`), and an offset from a link that is no multiple of the limit
  can make Next go past the last row (`Pagination.tsx:57`); `PagesHold` has links
  without one. The drawer closes when its row moves to another page.
* The race says that all copies but one were dropped, whatever was counted
  (`DuplicateDemo.tsx:133`). The tour explains a 202 for a resend by the pre-check
  being off (`tour.ts:93`) and a missing row by the consumer being late
  (`tour.ts:55`); a request that failed or an event in the DLQ are told the same way.
* The panel stays at its last badge when a proxy answers 5xx for a dead API
  (`HealthPanel.tsx:55-57`); the reasons above the dead letters are not asked for again
  after a failure until the total changes.
* A filter is written with the fields the form was rendered with, so of two changes
  before a render the first is lost (`EventFilters.tsx`).

## Plan

1. *Done*: the consumer group, its abstract promise, safety proofs and refinement;
   the live stream; the poller.
2. *Done*: `Pipeline.tla`, the event API and the replay script over `Delivery`, and
   the proofs of its safety.
3. *Done*: `Console.tla`, all pages but the stream over one address, with answers in
   any order, and the proofs of their safety.
4. *Done*: the proofs of the safety of `Stream` and `Ingest`, and of
   `DlqMessagesHaveRows`.
5. *Done*: the last invariants (`PersistedNeverOvercounts`, `PagesHold`,
   `HandlerFailureMeansOutage`), `Pipeline`'s refinement of `Delivery`, what both
   implementations inherit from it, and what holds where a run is violated.
6. An abstract feed (each tab is sent committed rows in the order of their ids, each once)
   that `Stream` implements, to be stated and proved as `Delivery` is.
7. `Scrapes` with the sums over labels and the counters of an edge; the read endpoints'
   filters; the script's filters and dry run.
