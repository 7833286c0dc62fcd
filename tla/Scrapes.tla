------------------------------ MODULE Scrapes ------------------------------
(***************************************************************************)
(* The metrics page: hooks/useMetrics.ts over the exposition that          *)
(* lib/prometheus.ts parses, and what pages/Metrics.tsx makes of a counter.*)
(*                                                                         *)
(* A scrape asks every process and lands when all have answered or failed. *)
(* The interval and the tab coming back into view start scrapes whether or *)
(* not one is under way.  One counter of each process is followed; it      *)
(* starts from zero, or not at all until it counts, with every restart.    *)
(***************************************************************************)
EXTENDS Browser, Sequences

CONSTANTS
  Processes,    \* PROCESSES
  HISTORY,      \* snapshots kept for a process
  MaxScrapes,   \* bound: scrapes under way
  MaxCount,     \* bound: what a counter counts in all
  MaxRestarts   \* bound: restarts of a process

ASSUME ScrapesAssumption ==
  /\ HISTORY \in Nat \ {0}
  /\ MaxScrapes \in Nat \ {0}
  /\ MaxCount \in Nat
  /\ MaxRestarts \in Nat

VARIABLES
  process,   \* process[p] = [total, base, defined, restarts]: counted in all,
             \* before the last restart; whether the series is exposed
  scrapes,   \* scrapes[n][p]: what scrape n has of process p
  metrics,   \* metrics[p] = [up, history], as in the state of useMetrics
  mounted    \* the first scrape has been started

scrapesVars == <<process, scrapes, metrics, mounted>>

\* What is known of a counter at a scrape: its value as parsed, and what it
\* stood for.  A series that is not exposed has no value.
Undefined == -1
Sample(p) ==
  [value |-> IF process[p].defined THEN process[p].total - process[p].base ELSE Undefined,
   total |-> process[p].total, base |-> process[p].base]

Pending == [value |-> -2, total |-> 0, base |-> 0]
Down    == [value |-> -3, total |-> 0, base |-> 0]

Free    == [value |-> -4, total |-> 0, base |-> 0]

ScrapeSlots == 1..MaxScrapes
Idle    == [p \in Processes |-> Free]
Started == [p \in Processes |-> Pending]

NewProcess == [total |-> 0, base |-> 0, defined |-> FALSE, restarts |-> 0]

NewProcesses == [p \in Processes |-> NewProcess]
NoScrapes    == [n \in ScrapeSlots |-> Idle]
NoMetrics    == [p \in Processes |-> [up |-> "scraping", history |-> <<>>]]

Samples == [value : Int, total : Nat, base : Nat]

ScrapesTypeOK ==
  /\ process \in [Processes -> [total : Nat, base : Nat, defined : BOOLEAN, restarts : Nat]]
  /\ scrapes \in [ScrapeSlots -> [Processes -> Samples]]
  /\ metrics \in [Processes -> [up : {"scraping", "up", "unreachable"}, history : Seq(Samples)]]
  /\ mounted \in BOOLEAN

\* The page as it opens.
ScrapesBlank ==
  process = NewProcesses /\ scrapes = NoScrapes /\ metrics = NoMetrics /\ mounted = FALSE

ScrapesOpen ==
  process' = NewProcesses /\ scrapes' = NoScrapes /\ metrics' = NoMetrics /\ mounted' = FALSE

---------------------------------------------------------------------------
(* The processes *)

Count(p) ==
  /\ process[p].total < MaxCount
  /\ process' = [process EXCEPT ![p] =
       [total |-> @.total + 1, base |-> @.base, defined |-> TRUE, restarts |-> @.restarts]]
  /\ UNCHANGED <<scrapes, metrics, mounted, browserVars>>

\* Counters declared at zero are exposed at once, labelled ones when they count.
Restart(p) ==
  /\ process[p].restarts < MaxRestarts
  /\ \E declared \in BOOLEAN :
       process' = [process EXCEPT ![p] =
         [total |-> @.total, base |-> @.total, defined |-> declared,
          restarts |-> @.restarts + 1]]
  /\ UNCHANGED <<scrapes, metrics, mounted, browserVars>>

---------------------------------------------------------------------------
(* The scrapes *)

\* scrape(), in a slot of its own.
startScrape ==
  \E n \in ScrapeSlots :
    /\ scrapes[n] = Idle
    /\ scrapes' = [scrapes EXCEPT ![n] = Started]

\* The effect's first scrape, and the interval's, when the tab is on screen.
ScrapeTick ==
  /\ mounted => visible
  /\ startScrape
  /\ mounted' = TRUE
  /\ UNCHANGED <<process, metrics, browserVars>>

\* visibilitychange: catch up at once when the tab is shown.
ScrapeTabSwitch ==
  /\ mounted
  /\ SwitchTab
  /\ IF visible THEN scrapes' = scrapes ELSE startScrape
  /\ UNCHANGED <<process, metrics, mounted>>

\* One process's exposition, or none: unreachable, or not 200.
ScrapeRead(n, p) ==
  /\ scrapes[n][p] = Pending
  /\ \E reading \in {Sample(p), Down} : scrapes' = [scrapes EXCEPT ![n][p] = reading]
  /\ UNCHANGED <<process, metrics, mounted, browserVars>>

\* slice(-HISTORY)
newest(history) ==
  IF Len(history) > HISTORY THEN Tail(history) ELSE history

\* Promise.all: a process that answered gains a snapshot, one that did not
\* keeps its history.
ScrapeLands(n) ==
  /\ scrapes[n] # Idle
  /\ \A p \in Processes : scrapes[n][p] # Pending
  /\ metrics' = [p \in Processes |->
       IF scrapes[n][p] = Down THEN [metrics[p] EXCEPT !.up = "unreachable"]
       ELSE [up |-> "up", history |-> newest(Append(metrics[p].history, scrapes[n][p]))]]
  /\ scrapes' = [scrapes EXCEPT ![n] = Idle]
  /\ UNCHANGED <<process, mounted, browserVars>>

ScrapesNext ==
  \/ \E p \in Processes : Count(p) \/ Restart(p)
  \/ ScrapeTick \/ ScrapeTabSwitch
  \/ \E n \in ScrapeSlots : ScrapeLands(n) \/ \E p \in Processes : ScrapeRead(n, p)

---------------------------------------------------------------------------
(* What is shown of a counter *)

\* Variant: a difference, restarts not thought of.
difference(previous, current) ==
  IF Undefined \in {previous, current} THEN 0 ELSE current - previous

increase(previous, current) ==
  IF Undefined \in {previous, current} THEN 0
  ELSE IF current >= previous THEN current - previous
  ELSE current

increments(p) ==
  LET history == metrics[p].history
  IN [i \in 1..(Len(history) - 1) |-> increase(history[i].value, history[i + 1].value)]

latest(p) ==
  IF metrics[p].history = <<>> THEN Undefined
  ELSE metrics[p].history[Len(metrics[p].history)].value

\* The tile of the counter: its rate is unknown before the second snapshot.
tileRate(p) ==
  IF latest(p) = Undefined \/ Len(metrics[p].history) < 2 THEN "measuring"
  ELSE IF \A i \in DOMAIN increments(p) : increments(p)[i] = 0 THEN "idle" ELSE "moving"

---------------------------------------------------------------------------
(* Properties *)

\* The two snapshots were read in the order in which they are shown.
InOrder(s, t) == s.total <= t.total /\ s.base <= t.base

\* Between two snapshots in the order they were read, the increase shown, of
\* which every rate, sparkline and edge label is summed, is never negative and
\* never more than what was counted in between, whatever restarts, failed
\* scrapes and series that come and go lie between them; and it misses nothing
\* when no restart does; so a tile that reads as moving had something to count
\* (useMetrics.ts:37-63, StatTile.tsx:19-44).
IncreaseNeverOvercounts ==
  \A p \in Processes :
    LET history == metrics[p].history
        inOrder(i) == InOrder(history[i], history[i + 1])
        counted(i) == history[i + 1].total - history[i].total
    IN /\ \A i \in DOMAIN increments(p) :
            inOrder(i) =>
              /\ increments(p)[i] \in 0..counted(i)
              /\ /\ history[i].base = history[i + 1].base
                 /\ history[i].value # Undefined
                 => increments(p)[i] = counted(i)
       /\ tileRate(p) = "moving" /\ (\A i \in DOMAIN increments(p) : inOrder(i)) =>
            \E i \in DOMAIN increments(p) : counted(i) > 0

=============================================================================
