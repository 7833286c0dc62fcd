------------------------------- MODULE Ingest -------------------------------
(***************************************************************************)
(* The ingest service: ingest/main.py's run loop and poll_once, and the    *)
(* per-source backoff of ingest/backoff.py.                                *)
(*                                                                         *)
(* One asyncio task polls the sources in turn.  While it waits for an      *)
(* upstream or for the API nothing else of the loop moves, except that     *)
(* time passes, a signal may arrive, and, within one poll, up to           *)
(* ingest_publish_concurrency requests to the API are under way.           *)
(*                                                                         *)
(* Upstreams and the API are external: they answer anything.  Deadlines    *)
(* are kept as the time left, so that behaviours need no bound in time.    *)
(***************************************************************************)
EXTENDS Naturals, Sequences, FiniteSets, Functions

CONSTANTS
  Sources,      \* the configured sources
  Order,        \* resolve(settings.ingest_sources): the order they are polled in
  FirstSkip,    \* FIRST_SKIP_POLLS
  MaxSkip,      \* MAX_SKIP_POLLS
  Concurrency,  \* settings.ingest_publish_concurrency
  MaxStreak,    \* bound: consecutive failures counted one by one
  MaxDelay,     \* bound: the longest wait an upstream asks for
  MaxFeed       \* bound: records in one upstream response

\* skips = min(FIRST_SKIP_POLLS * 2 ** (consecutive_failures - 1), MAX_SKIP_POLLS)
Penalty(k) == LET p == FirstSkip * 2^(k - 1) IN IF p < MaxSkip THEN p ELSE MaxSkip

\* Counting failures beyond MaxStreak would change no penalty.
ASSUME IngestConstants ==
  /\ Order \in Seq(Sources)
  /\ FirstSkip \in Nat \ {0} /\ MaxSkip \in Nat /\ FirstSkip <= MaxSkip
  /\ Concurrency \in Nat \ {0}
  /\ MaxStreak \in Nat \ {0} /\ Penalty(MaxStreak) = MaxSkip
  /\ MaxDelay \in Nat /\ MaxFeed \in Nat

VARIABLES
  pc,        \* deciding, fetching, publishing, pausing or stopped
  turn,      \* the place in Order of the source being looked at
  shutdown,  \* the shutdown event
  failures,  \* SourceState.consecutive_failures
  skips,     \* SourceState.skips_remaining
  wait       \* time left until SourceState.retry_not_before

VARIABLES
  fetched,   \* tally["fetched"] of the poll under way
  queued,    \* its events that wait for the semaphore
  inflight,  \* its requests to the API that are under way
  tally      \* its outcomes

VARIABLES
  last,      \* history: how the last poll of each source ended
  streak,    \* history: its failed polls since its last successful one
  quiet,     \* history: the polls it has sat out since its last one
  asked      \* history: what is left of the wait it asked for

loopVars    == <<pc, turn, shutdown>>
backoffVars == <<failures, skips, wait>>
pollVars    == <<fetched, queued, inflight, tally>>
historyVars == <<last, streak, quiet, asked>>
vars == <<loopVars, backoffVars, pollVars, historyVars>>

Outcomes == {"accepted", "duplicate", "rejected", "failed"}
NoTally == [o \in Outcomes |-> 0]

\* How a poll ends: it worked, it failed, the upstream asked for a wait, or it
\* refused for its rate limit without a number of seconds.
Endings == {"none", "success", "failed", "delayed", "undated"}

Source == Order[turn]

TypeOK ==
  /\ pc \in {"deciding", "fetching", "publishing", "pausing", "stopped"}
  /\ turn \in 1..(Len(Order) + 1)
  /\ pc \in {"deciding", "fetching", "publishing"} => turn <= Len(Order)
  /\ shutdown \in BOOLEAN
  /\ failures \in [Sources -> 0..MaxStreak]
  /\ skips \in [Sources -> 0..MaxSkip]
  /\ wait \in [Sources -> 0..MaxDelay]
  /\ fetched \in 0..MaxFeed
  /\ queued \in 0..MaxFeed
  /\ inflight \in 0..Concurrency
  /\ tally \in [Outcomes -> 0..MaxFeed]
  /\ last \in [Sources -> Endings]
  /\ streak \in [Sources -> 0..MaxStreak]
  /\ quiet \in [Sources -> 0..(MaxSkip + 1)]
  /\ asked \in [Sources -> 0..MaxDelay]

Init ==
  /\ pc = "pausing"
  /\ turn = Len(Order) + 1
  /\ shutdown = FALSE
  /\ failures = [s \in Sources |-> 0]
  /\ skips = [s \in Sources |-> 0]
  /\ wait = [s \in Sources |-> 0]
  /\ fetched = 0
  /\ queued = 0
  /\ inflight = 0
  /\ tally = NoTally
  /\ last = [s \in Sources |-> "none"]
  /\ streak = [s \in Sources |-> 0]
  /\ quiet = [s \in Sources |-> 0]
  /\ asked = [s \in Sources |-> 0]

-----------------------------------------------------------------------------
(* BackoffRegistry                                                         *)

Upto(n, bound) == IF n < bound THEN n ELSE bound

\* Variant: the penalty decays instead.
DecayOnSuccess(s) ==
  /\ failures' = [failures EXCEPT ![s] = @ \div 2]
  /\ skips' = [skips EXCEPT ![s] = 0]
  /\ wait' = [wait EXCEPT ![s] = 0]

\* record_success: the penalty is cleared entirely.
RecordSuccess(s) ==
  /\ failures' = [failures EXCEPT ![s] = 0]
  /\ skips' = [skips EXCEPT ![s] = 0]
  /\ wait' = [wait EXCEPT ![s] = 0]

\* Variant: the cap is forgotten.
RecordUncapped(s) ==
  LET k == Upto(failures[s] + 1, MaxStreak) IN
  /\ failures' = [failures EXCEPT ![s] = k]
  /\ skips' = [skips EXCEPT ![s] = FirstSkip * 2^(k - 1)]
  /\ wait' = [wait EXCEPT ![s] = 0]

\* Variant: one state for all the sources.
RecordForAll(s) ==
  LET k == Upto(failures[s] + 1, MaxStreak) IN
  /\ failures' = [x \in Sources |-> k]
  /\ skips' = [x \in Sources |-> Penalty(k)]
  /\ wait' = [x \in Sources |-> 0]

\* record_failure without a Retry-After: skip a growing number of polls.
RecordFailure(s) ==
  LET k == Upto(failures[s] + 1, MaxStreak) IN
  /\ failures' = [failures EXCEPT ![s] = k]
  /\ skips' = [skips EXCEPT ![s] = Penalty(k)]
  /\ wait' = [wait EXCEPT ![s] = 0]

\* record_failure with one: the upstream's instruction replaces the guess.
RecordDelay(s, d) ==
  /\ failures' = [failures EXCEPT ![s] = Upto(@ + 1, MaxStreak)]
  /\ skips' = [skips EXCEPT ![s] = 0]
  /\ wait' = [wait EXCEPT ![s] = d]

\* What a poll of s that ends so adds to the history.
Ended(s, ending, delay) ==
  /\ last' = [last EXCEPT ![s] = ending]
  /\ streak' = [streak EXCEPT ![s] = IF ending = "success" THEN 0 ELSE Upto(@ + 1, MaxStreak)]
  /\ quiet' = [quiet EXCEPT ![s] = 0]
  /\ asked' = [asked EXCEPT ![s] = delay]

-----------------------------------------------------------------------------
(* The loop                                                                *)

\* The loop goes on to the next source, or to the pause after the last one.
Advance ==
  /\ turn' = turn + 1
  /\ pc' = IF turn < Len(Order) THEN "deciding" ELSE "pausing"

\* SIGTERM or SIGINT: the handler runs when the loop waits for something.
Signal ==
  /\ ~shutdown
  /\ pc \in {"fetching", "publishing", "pausing"}
  /\ shutdown' = TRUE
  /\ UNCHANGED <<pc, turn, backoffVars, pollVars, historyVars>>

\* Time passes.
Tick ==
  /\ \E s \in Sources : wait[s] > 0 \/ asked[s] > 0
  /\ wait' = [s \in Sources |-> IF wait[s] > 0 THEN wait[s] - 1 ELSE 0]
  /\ asked' = [s \in Sources |-> IF asked[s] > 0 THEN asked[s] - 1 ELSE 0]
  /\ UNCHANGED <<loopVars, failures, skips, pollVars, last, streak, quiet>>

\* Variant: a poll that is skipped is not counted off.
SkipForEver ==
  /\ pc = "deciding"
  /\ ~shutdown
  /\ wait[Source] > 0 \/ skips[Source] > 0
  /\ quiet' = [quiet EXCEPT ![Source] = Upto(@ + 1, MaxSkip + 1)]
  /\ Advance
  /\ UNCHANGED <<shutdown, backoffVars, pollVars, last, streak, asked>>

\* should_skip says yes: before the upstream's deadline, or with polls left to
\* skip, one of which this is.
Skip ==
  /\ pc = "deciding"
  /\ ~shutdown
  /\ \/ wait[Source] > 0 /\ UNCHANGED skips
     \/ wait[Source] = 0 /\ skips[Source] > 0 /\ skips' = [skips EXCEPT ![Source] = @ - 1]
  /\ quiet' = [quiet EXCEPT ![Source] = Upto(@ + 1, MaxSkip + 1)]
  /\ Advance
  /\ UNCHANGED <<shutdown, failures, wait, pollVars, last, streak, asked>>

\* should_skip says no: the request to the upstream is sent.
Fetch ==
  /\ pc = "deciding"
  /\ ~shutdown
  /\ wait[Source] = 0
  /\ skips[Source] = 0
  /\ pc' = "fetching"
  /\ UNCHANGED <<turn, shutdown, backoffVars, pollVars, historyVars>>

\* The upstream answers with n records.
FetchSucceeds(n) ==
  /\ pc = "fetching"
  /\ fetched' = n
  /\ queued' = n
  /\ pc' = "publishing"
  /\ UNCHANGED <<turn, shutdown, backoffVars, inflight, tally, historyVars>>

\* The request raises, or the answer is an error or does not parse.
FetchFails ==
  /\ pc = "fetching"
  /\ RecordFailure(Source)
  /\ Ended(Source, "failed", 0)
  /\ Advance
  /\ UNCHANGED <<shutdown, pollVars>>

\* Variant: a rate limit is a failure like any other.
DelayIgnored(d) ==
  /\ pc = "fetching"
  /\ RecordFailure(Source)
  /\ Ended(Source, "delayed", d)
  /\ Advance
  /\ UNCHANGED <<shutdown, pollVars>>

\* 429, or 403 with the quota used up, with a Retry-After in seconds or a reset
\* time: d from now.
FetchDelayed(d) ==
  /\ pc = "fetching"
  /\ RecordDelay(Source, d)
  /\ Ended(Source, "delayed", d)
  /\ Advance
  /\ UNCHANGED <<shutdown, pollVars>>

\* The same with neither, or with a Retry-After that is a date:
\* rate_limit_delay returns 0.0, which is not None.
FetchUndated ==
  /\ pc = "fetching"
  /\ RecordDelay(Source, 0)
  /\ Ended(Source, "undated", 0)
  /\ Advance
  /\ UNCHANGED <<shutdown, pollVars>>

\* publish_one gets the semaphore and posts its event.
Post ==
  /\ pc = "publishing"
  /\ queued > 0
  /\ inflight < Concurrency
  /\ queued' = queued - 1
  /\ inflight' = inflight + 1
  /\ UNCHANGED <<loopVars, backoffVars, fetched, tally, historyVars>>

\* Variant: gather without return_exceptions, an error ends the batch.
AnswerOrAbort(o) ==
  /\ pc = "publishing"
  /\ inflight > 0
  /\ inflight' = IF o = "failed" THEN 0 ELSE inflight - 1
  /\ queued' = IF o = "failed" THEN 0 ELSE queued
  /\ tally' = [tally EXCEPT ![o] = @ + 1]
  /\ UNCHANGED <<loopVars, backoffVars, fetched, historyVars>>

\* The API answers 202, 409 or something else, or the request raises.
Answer(o) ==
  /\ pc = "publishing"
  /\ inflight > 0
  /\ inflight' = inflight - 1
  /\ tally' = [tally EXCEPT ![o] = @ + 1]
  /\ UNCHANGED <<loopVars, backoffVars, fetched, queued, historyVars>>

\* Every event has its outcome: the poll failed if one publish did.  Its locals go.
EndPoll ==
  /\ pc = "publishing"
  /\ queued = 0 /\ inflight = 0
  /\ \/ tally["failed"] = 0 /\ RecordSuccess(Source) /\ Ended(Source, "success", 0)
     \/ tally["failed"] > 0 /\ RecordFailure(Source) /\ Ended(Source, "failed", 0)
  /\ fetched' = 0
  /\ tally' = NoTally
  /\ Advance
  /\ UNCHANGED <<shutdown, queued, inflight>>

\* The interval is over, or the loop begins.
NextRound ==
  /\ pc = "pausing"
  /\ ~shutdown
  /\ turn' = 1
  /\ pc' = IF Order = <<>> THEN "pausing" ELSE "deciding"
  /\ UNCHANGED <<shutdown, backoffVars, pollVars, historyVars>>

\* Variant: while True, so that the break leaves only the for loop.
BreakForOnly ==
  /\ shutdown
  /\ \/ pc = "deciding" /\ pc' = "pausing" /\ UNCHANGED turn
     \/ pc = "pausing" /\ pc' = "deciding" /\ turn' = 1
  /\ UNCHANGED <<shutdown, backoffVars, pollVars, historyVars>>

\* The loop sees the shutdown event: before a source, or in the pause.
Stop ==
  /\ pc \in {"deciding", "pausing"}
  /\ shutdown
  /\ pc' = "stopped"
  /\ UNCHANGED <<turn, shutdown, backoffVars, pollVars, historyVars>>

-----------------------------------------------------------------------------
Loop ==
  \/ Skip \/ Fetch \/ FetchFails \/ FetchUndated
  \/ \E n \in 0..MaxFeed : FetchSucceeds(n)
  \/ \E d \in 0..MaxDelay : FetchDelayed(d)
  \/ Post \/ EndPoll \/ NextRound \/ Stop
  \/ \E o \in Outcomes : Answer(o)

Next == Loop \/ Signal \/ Tick

Spec == Init /\ [][Next]_vars

\* The loop goes on: a request ends in an answer or in its timeout, the pause in
\* its interval.  Time goes on too.
Fairness == WF_vars(Loop) /\ WF_vars(Tick)

FairSpec == Spec /\ Fairness

-----------------------------------------------------------------------------
(* Properties                                                              *)

\* While a poll publishes, every event it fetched is waiting for the semaphore,
\* under way, or in the tally exactly once: a publish that fails loses none of
\* the others (the comments in poll_once on return_exceptions and on the tally).
TallyExact ==
  pc = "publishing" =>
    fetched = queued + inflight + tally["accepted"] + tally["duplicate"]
                + tally["rejected"] + tally["failed"]

\* A source whose last poll failed is asked again after exactly the polls its
\* run of failures costs, FIRST_SKIP_POLLS doubled up to MAX_SKIP_POLLS: a
\* success or a Retry-After in between leaves nothing over (backoff.py).
PenaltyServed ==
  [][\A s \in Sources :
       Fetch /\ Source = s /\ last[s] = "failed" => quiet[s] = Penalty(streak[s])]_vars

\* An upstream that named a wait is not asked before it is over, whatever
\* happened to its penalty (record_failure, should_skip).
RetryAfterHonoured ==
  [][\A s \in Sources : Fetch /\ Source = s => asked[s] = 0]_vars

\* A poll is skipped only for the source's own failure: one upstream having a
\* bad day does not pause the others (backoff.py:8-9).
HealthyNeverSkipped ==
  [][\A s \in Sources : quiet'[s] > quiet[s] => last[s] \notin {"none", "success"}]_vars

\* No failure makes the loop give a source up: until the shutdown each one is
\* asked again and again (the cap in backoff.py, should_skip).
SourcesPolledAgain ==
  \A s \in Sources :
    s \in Range(Order) => []<>(shutdown \/ (pc = "fetching" /\ Source = s))

\* After SIGTERM the loop ends, wherever the signal found it (run).
ShutdownStops == shutdown ~> (pc = "stopped")

\* What rate_limit_delay's docstring says (main.py:35-37): a rate limit that names
\* no number of seconds falls through to the normal exponential backoff.
UndatedFallsBack ==
  [][\A s \in Sources :
       Fetch /\ Source = s /\ last[s] = "undated" => quiet[s] >= Penalty(streak[s])]_vars
=============================================================================
