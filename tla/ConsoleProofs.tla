--------------------------- MODULE ConsoleProofs ---------------------------
(***************************************************************************)
(* What the console's pages promise, for every set of links, page sizes,   *)
(* rows, processes and events and every bound.                             *)
(*                                                                         *)
(* One page is mounted at a time, so each invariant is proved from the     *)
(* steps of one page: every step of the console is a step of that page,    *)
(* opens it anew, or leaves it alone (the lemmas named ...Steps).          *)
(***************************************************************************)
EXTENDS Console, FiniteSetTheorems, TLAPS

\* The steps of the console, seen from one page.
LEMMA ExplorerSteps ==
  ASSUME [Next]_vars
  PROVE  ExplorerNext \/ ExplorerOpens \/ UNCHANGED explorerVars
BY DEF Next, vars, pagesVars, OnEvents, OnDlq, DlqFrame, OnSend, SendFrame, OnRace,
       OnMetrics, OnOverview, OverviewFrame, OnHow, PageRenders, PageOpens, LinkFollowed

LEMMA DeadSteps ==
  ASSUME [Next]_vars
  PROVE  DeadNext \/ DeadOpens \/ UNCHANGED deadVars
BY DEF Next, vars, pagesVars, OnEvents, OnDlq, DlqFrame, OnSend, SendFrame, OnRace,
       OnMetrics, OnOverview, OverviewFrame, OnHow, PageRenders, PageOpens, LinkFollowed

LEMMA SendSteps ==
  ASSUME [Next]_vars
  PROVE  SendNext \/ SendOpens \/ UNCHANGED sendVars
BY DEF Next, vars, pagesVars, OnEvents, OnDlq, DlqFrame, OnSend, SendFrame, OnRace,
       OnMetrics, OnOverview, OverviewFrame, OnHow, PageRenders, PageOpens, LinkFollowed

LEMMA RaceSteps ==
  ASSUME [Next]_vars
  PROVE  RaceNext \/ RaceOpens \/ UNCHANGED raceVars
BY DEF Next, vars, pagesVars, OnEvents, OnDlq, DlqFrame, OnSend, SendFrame, OnRace,
       OnMetrics, OnOverview, OverviewFrame, OnHow, PageRenders, PageOpens, LinkFollowed

LEMMA ScrapesSteps ==
  ASSUME [Next]_vars
  PROVE  ScrapesNext \/ ScrapesOpen \/ UNCHANGED scrapesVars
BY DEF Next, vars, pagesVars, OnEvents, OnDlq, DlqFrame, OnSend, SendFrame, OnRace,
       OnMetrics, OnOverview, OverviewFrame, OnHow, PageRenders, PageOpens, LinkFollowed

-----------------------------------------------------------------------------
(* The metrics page *)

\* A counter that does not show has counted nothing since its process started.
CounterSound(p) ==
  /\ process[p].base <= process[p].total
  /\ ~process[p].defined => process[p].total = process[p].base

\* A sample is what the counter showed, at a moment no later than this.
SampleSound(p, s) ==
  /\ s \in Samples
  /\ s.base <= s.total
  /\ \/ s.value = s.total - s.base
     \/ s.value = Undefined /\ s.total = s.base
  /\ s.total <= process[p].total
  /\ s.base <= process[p].base
  /\ s.base = process[p].base \/ process[p].base >= s.total

\* Two samples of a process are of one of its runs, or one is of a later run
\* than the other.
Related(s, t) == s.base = t.base \/ t.base >= s.total \/ s.base >= t.total

\* The samples of a process that are shown or on their way.
Shown(p)  == {metrics[p].history[i] : i \in DOMAIN metrics[p].history}
OnWay(p)  == {scrapes[n][p] : n \in ScrapeSlots} \ {Pending, Down, Free}
Taken(p)  == Shown(p) \cup OnWay(p)

ScrapesInv ==
  /\ ScrapesTypeOK
  /\ \A n \in ScrapeSlots : scrapes[n] = Idle \/ \A p \in Processes : scrapes[n][p] # Free
  /\ \A p \in Processes :
       /\ CounterSound(p)
       /\ \A s \in Taken(p) : SampleSound(p, s)
       /\ \A s, t \in Taken(p) : Related(s, t)

\* Appending a snapshot and dropping the oldest leaves only known snapshots.
LEMMA NewestKeeps ==
  ASSUME NEW S, NEW h \in Seq(S), NEW x \in S
  PROVE  /\ newest(Append(h, x)) \in Seq(S)
         /\ \A i \in DOMAIN newest(Append(h, x)) :
              newest(Append(h, x))[i] \in {h[j] : j \in DOMAIN h} \cup {x}
<1> DEFINE a == Append(h, x)
<1>1. a \in Seq(S) /\ Len(a) = Len(h) + 1 /\ Len(h) \in Nat
  OBVIOUS
<1>2. \A i \in 1..Len(a) : a[i] \in {h[j] : j \in DOMAIN h} \cup {x}
  <2> SUFFICES ASSUME NEW i \in 1..Len(a) PROVE a[i] \in {h[j] : j \in DOMAIN h} \cup {x}
    OBVIOUS
  <2>1. CASE i \in 1..Len(h)
    <3>1. a[i] = h[i]
      BY <2>1
    <3> QED BY <2>1, <3>1
  <2>2. CASE i = Len(h) + 1
    BY <2>2
  <2> QED BY <1>1, <2>1, <2>2
<1>3. CASE Len(a) > HISTORY
  <2>1. /\ Tail(a) \in Seq(S) /\ Len(Tail(a)) = Len(a) - 1
        /\ \A i \in 1..(Len(a) - 1) : Tail(a)[i] = a[i + 1]
    BY <1>1
  <2>2. \A i \in 1..(Len(a) - 1) : i + 1 \in 1..Len(a)
    BY <1>1
  <2>3. newest(a) = Tail(a)
    BY <1>3 DEF newest
  <2> HIDE DEF a
  <2>4. DOMAIN Tail(a) = 1..(Len(a) - 1)
    BY <2>1
  <2> QED BY <1>2, <2>1, <2>2, <2>3, <2>4 DEF a
<1>4. CASE ~(Len(a) > HISTORY)
  BY <1>1, <1>2, <1>4 DEF newest
<1> QED BY <1>3, <1>4

\* A sample taken now is sound, and related to each taken before.
LEMMA SampleNow ==
  ASSUME ScrapesInv, NEW p \in Processes
  PROVE  /\ SampleSound(p, Sample(p))
         /\ Sample(p) \notin {Pending, Down, Free}
         /\ \A s \in Taken(p) : Related(s, Sample(p)) /\ Related(Sample(p), s)
<1>1. /\ process[p] \in [total : Nat, base : Nat, defined : BOOLEAN, restarts : Nat]
      /\ CounterSound(p)
  BY DEF ScrapesInv, ScrapesTypeOK
<1>2. /\ Sample(p).total = process[p].total /\ Sample(p).base = process[p].base
      /\ Sample(p).value \in Int
      /\ \/ Sample(p).value = process[p].total - process[p].base
         \/ Sample(p).value = Undefined /\ process[p].total = process[p].base
  BY <1>1 DEF Sample, CounterSound, Undefined
<1>3. Sample(p) \in Samples
  BY <1>1, <1>2 DEF Sample, Samples
<1>4. SampleSound(p, Sample(p))
  BY <1>1, <1>2, <1>3 DEF SampleSound, CounterSound
<1>5. Sample(p).value >= -1
  BY <1>1, <1>2 DEF CounterSound, Undefined
<1>6. Sample(p) \notin {Pending, Down, Free}
  BY <1>2, <1>5 DEF Pending, Down, Free
<1>7. ASSUME NEW s \in Taken(p)
      PROVE  Related(s, Sample(p)) /\ Related(Sample(p), s)
  <2>1. SampleSound(p, s)
    BY DEF ScrapesInv
  <2> QED BY <2>1, <1>2 DEF SampleSound, Related
<1> QED BY <1>4, <1>6, <1>7

\* What a step that leaves the processes alone must not do: make up samples.
LEMMA TakenStep ==
  ASSUME ScrapesInv, process' = process, ScrapesTypeOK',
         (\A n \in ScrapeSlots : scrapes[n] = Idle \/ \A p \in Processes : scrapes[n][p] # Free)',
         \A p \in Processes : Taken(p)' \subseteq Taken(p) \cup {Sample(p)}
  PROVE  ScrapesInv'
<1> SUFFICES ASSUME NEW p \in Processes
             PROVE  /\ CounterSound(p)'
                    /\ \A s \in Taken(p)' : SampleSound(p, s)'
                    /\ \A s, t \in Taken(p)' : Related(s, t)'
  BY DEF ScrapesInv
<1>1. CounterSound(p)'
  BY DEF ScrapesInv, CounterSound
<1>2. ASSUME NEW s \in Taken(p)' PROVE SampleSound(p, s)'
  <2>1. SampleSound(p, s)
    BY SampleNow DEF ScrapesInv
  <2> QED BY <2>1 DEF SampleSound
<1>3. ASSUME NEW s \in Taken(p)', NEW t \in Taken(p)' PROVE Related(s, t)'
  <2>1. SampleSound(p, Sample(p))
    BY SampleNow
  <2>2. Related(s, t)
    <3>1. CASE s \in Taken(p) /\ t \in Taken(p)
      BY <3>1 DEF ScrapesInv
    <3>2. CASE s = Sample(p) /\ t = Sample(p)
      BY <3>2 DEF Related
    <3>3. CASE s = Sample(p) /\ t \in Taken(p)
      BY <3>3, SampleNow
    <3>4. CASE s \in Taken(p) /\ t = Sample(p)
      BY <3>4, SampleNow
    <3> QED BY <3>1, <3>2, <3>3, <3>4
  <2> QED BY <2>2 DEF Related
<1> QED BY <1>1, <1>2, <1>3

LEMMA ScrapesStart == ScrapesBlank => ScrapesInv
<1> SUFFICES ASSUME ScrapesBlank PROVE ScrapesInv
  OBVIOUS
<1> USE DEF ScrapesBlank, NewProcesses, NewProcess, NoScrapes, NoMetrics, Idle
<1>0. <<>> \in Seq(Samples)
  OBVIOUS
<1>1. ScrapesTypeOK
  <2>1. NewProcesses \in [Processes -> [total : Nat, base : Nat, defined : BOOLEAN, restarts : Nat]]
    OBVIOUS
  <2>2. NoScrapes \in [ScrapeSlots -> [Processes -> Samples]]
    BY DEF Samples, Free
  <2>3. NoMetrics \in [Processes -> [up : {"scraping", "up", "unreachable"}, history : Seq(Samples)]]
    BY <1>0
  <2> QED BY <2>1, <2>2, <2>3 DEF ScrapesTypeOK
<1>2. \A p \in Processes : CounterSound(p)
  BY DEF CounterSound
<1>3. \A p \in Processes : Taken(p) = {}
  BY DEF Taken, Shown, OnWay
<1> QED BY <1>1, <1>2, <1>3 DEF ScrapesInv

LEMMA ScrapesReopen == ScrapesOpen => ScrapesInv'
<1> SUFFICES ASSUME ScrapesOpen PROVE ScrapesInv'
  OBVIOUS
<1> USE DEF ScrapesOpen, NewProcesses, NewProcess, NoScrapes, NoMetrics, Idle
<1>0. <<>> \in Seq(Samples)
  OBVIOUS
<1>1. ScrapesTypeOK'
  <2>1. NewProcesses \in [Processes -> [total : Nat, base : Nat, defined : BOOLEAN, restarts : Nat]]
    OBVIOUS
  <2>2. NoScrapes \in [ScrapeSlots -> [Processes -> Samples]]
    BY DEF Samples, Free
  <2>3. NoMetrics \in [Processes -> [up : {"scraping", "up", "unreachable"}, history : Seq(Samples)]]
    BY <1>0
  <2> QED BY <2>1, <2>2, <2>3 DEF ScrapesTypeOK
<1>2. \A p \in Processes : CounterSound(p)'
  BY DEF CounterSound
<1>3. \A p \in Processes : Taken(p)' = {}
  BY DEF Taken, Shown, OnWay
<1> QED BY <1>1, <1>2, <1>3 DEF ScrapesInv

\* A process counts or restarts: samples taken before stay sound.
LEMMA ProcessStep ==
  ASSUME ScrapesInv, NEW p \in Processes, Count(p) \/ Restart(p)
  PROVE  ScrapesInv'
<1>1. /\ process[p] \in [total : Nat, base : Nat, defined : BOOLEAN, restarts : Nat]
      /\ CounterSound(p)
      /\ process \in [Processes -> [total : Nat, base : Nat, defined : BOOLEAN, restarts : Nat]]
  BY DEF ScrapesInv, ScrapesTypeOK
<1>2. /\ UNCHANGED <<scrapes, metrics, mounted>>
      /\ \A q \in Processes \ {p} : process'[q] = process[q]
      /\ process' \in [Processes -> [total : Nat, base : Nat, defined : BOOLEAN, restarts : Nat]]
      /\ \/ /\ process'[p].total = process[p].total + 1 /\ process'[p].base = process[p].base
            /\ process'[p].defined = TRUE
         \/ process'[p].total = process[p].total /\ process'[p].base = process[p].total
  <2>1. CASE Count(p)
    <3>1. process' = [process EXCEPT ![p] =
            [total |-> @.total + 1, base |-> @.base, defined |-> TRUE, restarts |-> @.restarts]]
      BY <2>1 DEF Count
    <3> QED BY <1>1, <2>1, <3>1 DEF Count
  <2>2. CASE Restart(p)
    <3>1. PICK declared \in BOOLEAN :
            process' = [process EXCEPT ![p] =
              [total |-> @.total, base |-> @.total, defined |-> declared,
               restarts |-> @.restarts + 1]]
      BY <2>2 DEF Restart
    <3> QED BY <1>1, <2>2, <3>1 DEF Restart
  <2> QED BY <2>1, <2>2
<1>3. ScrapesTypeOK'
  BY <1>2 DEF ScrapesInv, ScrapesTypeOK
<1>4. \A q \in Processes : Taken(q)' = Taken(q)
  BY <1>2 DEF Taken, Shown, OnWay
<1>5. \A q \in Processes : CounterSound(q)'
  BY <1>1, <1>2 DEF ScrapesInv, CounterSound
<1>6. ASSUME NEW q \in Processes, NEW s \in Taken(q)' PROVE SampleSound(q, s)'
  <2>1. SampleSound(q, s)
    BY <1>4 DEF ScrapesInv
  <2>2. CASE q = p
    BY <1>1, <1>2, <2>1, <2>2 DEF SampleSound, CounterSound, Samples
  <2>3. CASE q # p
    BY <1>2, <2>1, <2>3 DEF SampleSound
  <2> QED BY <2>2, <2>3
<1>7. ASSUME NEW q \in Processes, NEW s \in Taken(q)', NEW t \in Taken(q)'
      PROVE  Related(s, t)'
  <2>1. Related(s, t)
    BY <1>4 DEF ScrapesInv
  <2> QED BY <2>1 DEF Related
<1>8. (\A n \in ScrapeSlots : scrapes[n] = Idle \/ \A q \in Processes : scrapes[n][q] # Free)'
  BY <1>2 DEF ScrapesInv
<1> QED BY <1>3, <1>5, <1>6, <1>7, <1>8 DEF ScrapesInv

\* A scrape that starts, a tick or a tab that is shown, has read nothing yet.
LEMMA ScrapeStarts ==
  ASSUME ScrapesInv, UNCHANGED <<process, metrics>>, mounted' \in BOOLEAN,
         startScrape \/ scrapes' = scrapes
  PROVE  ScrapesInv'
<1>1. /\ scrapes \in [ScrapeSlots -> [Processes -> Samples]]
      /\ Started \in [Processes -> Samples]
      /\ \A p \in Processes : Started[p] = Pending
      /\ Pending # Free
  BY DEF ScrapesInv, ScrapesTypeOK, Started, Pending, Free, Samples
<1>2. CASE startScrape
  <2>1. PICK n \in ScrapeSlots : scrapes' = [scrapes EXCEPT ![n] = Started]
    BY <1>2 DEF startScrape
  <2>2. /\ scrapes' \in [ScrapeSlots -> [Processes -> Samples]]
        /\ \A m \in ScrapeSlots : scrapes'[m] = IF m = n THEN Started ELSE scrapes[m]
    BY <1>1, <2>1
  <2>3. ScrapesTypeOK'
    BY <2>2 DEF ScrapesInv, ScrapesTypeOK
  <2>4. (\A m \in ScrapeSlots : scrapes[m] = Idle \/ \A p \in Processes : scrapes[m][p] # Free)'
    BY <1>1, <2>2 DEF ScrapesInv, Idle
  <2>5. \A p \in Processes : Taken(p)' \subseteq Taken(p)
    BY <1>1, <2>2 DEF Taken, Shown, OnWay
  <2> QED BY <2>3, <2>4, <2>5, TakenStep
<1>3. CASE scrapes' = scrapes
  BY <1>3, TakenStep DEF ScrapesInv, ScrapesTypeOK, Taken, Shown, OnWay
<1> QED BY <1>2, <1>3

LEMMA ReadStep ==
  ASSUME ScrapesInv, NEW n \in ScrapeSlots, NEW p \in Processes, ScrapeRead(n, p)
  PROVE  ScrapesInv'
<1>1. PICK reading \in {Sample(p), Down} : scrapes' = [scrapes EXCEPT ![n][p] = reading]
  BY DEF ScrapeRead
<1>2. reading \in Samples /\ reading # Free
  BY SampleNow DEF SampleSound, Down, Free, Samples
<1>3. scrapes \in [ScrapeSlots -> [Processes -> Samples]]
  BY DEF ScrapesInv, ScrapesTypeOK
<1>4. /\ scrapes' \in [ScrapeSlots -> [Processes -> Samples]]
      /\ \A m \in ScrapeSlots : m # n => scrapes'[m] = scrapes[m]
      /\ \A q \in Processes : scrapes'[n][q] = IF q = p THEN reading ELSE scrapes[n][q]
  BY <1>1, <1>2, <1>3
<1>5. ScrapesTypeOK'
  BY <1>4 DEF ScrapesInv, ScrapesTypeOK, ScrapeRead
<1>6. scrapes[n] # Idle
  BY DEF ScrapeRead, Idle, Pending, Free
<1>7. (\A m \in ScrapeSlots : scrapes[m] = Idle \/ \A q \in Processes : scrapes[m][q] # Free)'
  BY <1>2, <1>4, <1>6 DEF ScrapesInv, Idle
<1>8. ASSUME NEW q \in Processes PROVE Taken(q)' \subseteq Taken(q) \cup {Sample(q)}
  <2>1. Shown(q)' = Shown(q)
    BY DEF Shown, ScrapeRead
  <2>2. ASSUME NEW m \in ScrapeSlots, scrapes'[m][q] \notin {Pending, Down, Free}
        PROVE  scrapes'[m][q] \in OnWay(q) \cup {Sample(q)}
    BY <1>1, <1>4, <2>2 DEF OnWay
  <2> QED BY <2>1, <2>2 DEF Taken, OnWay
<1> QED BY <1>5, <1>7, <1>8, TakenStep DEF ScrapeRead

LEMMA LandStep ==
  ASSUME ScrapesInv, NEW n \in ScrapeSlots, ScrapeLands(n)
  PROVE  ScrapesInv'
<1> DEFINE Metric == [up : {"scraping", "up", "unreachable"}, history : Seq(Samples)]
           landed(p) == IF scrapes[n][p] = Down THEN [metrics[p] EXCEPT !.up = "unreachable"]
             ELSE [up |-> "up", history |-> newest(Append(metrics[p].history, scrapes[n][p]))]
<1>1. /\ scrapes \in [ScrapeSlots -> [Processes -> Samples]]
      /\ metrics \in [Processes -> Metric]
      /\ Idle \in [Processes -> Samples]
  BY DEF ScrapesInv, ScrapesTypeOK, Idle, Free, Samples
<1>2. /\ scrapes' = [scrapes EXCEPT ![n] = Idle]
      /\ metrics' = [p \in Processes |-> landed(p)]
      /\ UNCHANGED <<process, mounted>>
  BY DEF ScrapeLands
<1>3. ASSUME NEW p \in Processes
      PROVE  /\ landed(p) \in Metric
             /\ \A i \in DOMAIN landed(p).history :
                  landed(p).history[i] \in Taken(p)
  <2>1. metrics[p] \in Metric /\ metrics[p].history \in Seq(Samples) /\ scrapes[n][p] \in Samples
    BY <1>1
  <2>2. CASE scrapes[n][p] = Down
    <3>1. landed(p) \in Metric /\ landed(p).history = metrics[p].history
      BY <2>1, <2>2
    <3> QED BY <3>1 DEF Taken, Shown
  <2>3. CASE scrapes[n][p] # Down
    <3>1. scrapes[n][p] \in OnWay(p)
      BY <2>3 DEF ScrapesInv, ScrapeLands, OnWay
    <3>2. landed(p).history = newest(Append(metrics[p].history, scrapes[n][p]))
      BY <2>3
    <3>3. landed(p).history \in Seq(Samples)
      BY <2>1, <3>2, NewestKeeps
    <3>4. landed(p) \in Metric
      BY <2>3, <3>2, <3>3
    <3>5. \A i \in DOMAIN landed(p).history :
            landed(p).history[i] \in Shown(p) \cup {scrapes[n][p]}
      BY <2>1, <3>2, NewestKeeps DEF Shown
    <3> QED BY <3>1, <3>4, <3>5 DEF Taken
  <2> QED BY <2>2, <2>3
<1> HIDE DEF landed
<1>4. ScrapesTypeOK'
  <2>1. metrics' \in [Processes -> Metric]
    BY <1>2, <1>3
  <2> QED BY <1>1, <1>2, <2>1 DEF ScrapesInv, ScrapesTypeOK
<1>5. (\A m \in ScrapeSlots : scrapes[m] = Idle \/ \A p \in Processes : scrapes[m][p] # Free)'
  BY <1>1, <1>2 DEF ScrapesInv, Idle
<1>6. ASSUME NEW p \in Processes PROVE Taken(p)' \subseteq Taken(p)
  <2>1. Shown(p)' \subseteq Taken(p)
    BY <1>2, <1>3 DEF Shown
  <2>2. OnWay(p)' \subseteq OnWay(p)
    BY <1>1, <1>2 DEF OnWay, Idle
  <2> QED BY <2>1, <2>2 DEF Taken
<1> QED BY <1>2, <1>4, <1>5, <1>6, TakenStep

\* Every step of the console keeps the samples sound.
LEMMA ScrapesStep == ScrapesInv /\ [Next]_vars => ScrapesInv'
<1> SUFFICES ASSUME ScrapesInv, [Next]_vars PROVE ScrapesInv'
  OBVIOUS
<1>1. CASE ScrapesNext
  <2>1. ASSUME NEW p \in Processes, Count(p) \/ Restart(p) PROVE ScrapesInv'
    BY <2>1, ProcessStep
  <2>2. CASE ScrapeTick
    <3>1. UNCHANGED <<process, metrics>> /\ mounted' \in BOOLEAN /\ startScrape
      BY <2>2 DEF ScrapeTick
    <3> QED BY <3>1, ScrapeStarts
  <2>3. CASE ScrapeTabSwitch
    <3>1. UNCHANGED <<process, metrics>> /\ (startScrape \/ scrapes' = scrapes)
      BY <2>3 DEF ScrapeTabSwitch
    <3>2. mounted' \in BOOLEAN
      BY <2>3 DEF ScrapeTabSwitch, ScrapesInv, ScrapesTypeOK
    <3> QED BY <3>1, <3>2, ScrapeStarts
  <2>4. ASSUME NEW n \in ScrapeSlots, ScrapeLands(n) PROVE ScrapesInv'
    BY <2>4, LandStep
  <2>5. ASSUME NEW n \in ScrapeSlots, NEW p \in Processes, ScrapeRead(n, p) PROVE ScrapesInv'
    BY <2>5, ReadStep
  <2> QED BY <1>1, <2>1, <2>2, <2>3, <2>4, <2>5 DEF ScrapesNext
<1>2. CASE ScrapesOpen
  BY <1>2, ScrapesReopen
<1>3. CASE UNCHANGED scrapesVars
  <2>1. UNCHANGED <<process, scrapes, metrics, mounted>>
    BY <1>3 DEF scrapesVars
  <2> QED BY <2>1 DEF ScrapesInv, ScrapesTypeOK, CounterSound, SampleSound, Related,
                      Taken, Shown, OnWay
<1> QED BY <1>1, <1>2, <1>3, ScrapesSteps

\* What increase() makes of two sound samples in the order they were taken.
LEMMA IncreaseSound ==
  ASSUME NEW p, NEW s, NEW t, SampleSound(p, s), SampleSound(p, t),
         Related(s, t), InOrder(s, t)
  PROVE  /\ increase(s.value, t.value) \in 0..(t.total - s.total)
         /\ s.base = t.base /\ s.value # Undefined =>
              increase(s.value, t.value) = t.total - s.total
<1>1. /\ s.value \in Int /\ s.total \in Nat /\ s.base \in Nat
      /\ t.value \in Int /\ t.total \in Nat /\ t.base \in Nat
  BY DEF SampleSound, Samples
<1>2. s.base = t.base \/ t.base >= s.total
  BY <1>1 DEF SampleSound, Related, InOrder
<1>3. CASE s.value = Undefined \/ t.value = Undefined
  BY <1>1, <1>2, <1>3 DEF SampleSound, InOrder, increase, Undefined
<1>4. CASE s.value # Undefined /\ t.value # Undefined
  <2>1. s.value = s.total - s.base /\ t.value = t.total - t.base
    BY <1>4 DEF SampleSound
  <2> QED BY <1>1, <1>2, <1>4, <2>1 DEF SampleSound, InOrder, increase
<1> QED BY <1>3, <1>4

LEMMA ScrapesInvSuffices == ScrapesInv => IncreaseNeverOvercounts
<1> SUFFICES ASSUME ScrapesInv, NEW p \in Processes
             PROVE  LET history == metrics[p].history
                        inOrder(i) == InOrder(history[i], history[i + 1])
                        counted(i) == history[i + 1].total - history[i].total
                    IN /\ \A i \in DOMAIN increments(p) :
                            inOrder(i) =>
                              /\ increments(p)[i] \in 0..counted(i)
                              /\ /\ history[i].base = history[i + 1].base
                                 /\ history[i].value # Undefined
                                 => increments(p)[i] = counted(i)
                       /\ tileRate(p) = "moving" /\ (\A i \in DOMAIN increments(p) : inOrder(i)) =>
                            \E i \in DOMAIN increments(p) : counted(i) > 0
  BY DEF IncreaseNeverOvercounts
<1> DEFINE history == metrics[p].history
           counted(i) == history[i + 1].total - history[i].total
<1>1. history \in Seq(Samples) /\ Len(history) \in Nat /\ DOMAIN history = 1..Len(history)
  BY DEF ScrapesInv, ScrapesTypeOK
<1>2. /\ DOMAIN increments(p) = 1..(Len(history) - 1)
      /\ \A i \in 1..(Len(history) - 1) :
           increments(p)[i] = increase(history[i].value, history[i + 1].value)
  BY DEF increments
<1>3. ASSUME NEW i \in DOMAIN increments(p), InOrder(history[i], history[i + 1])
      PROVE  /\ increments(p)[i] \in 0..counted(i)
             /\ history[i].base = history[i + 1].base /\ history[i].value # Undefined =>
                  increments(p)[i] = counted(i)
             /\ counted(i) \in Int
  <2>1. i \in DOMAIN history /\ i + 1 \in DOMAIN history
    BY <1>1, <1>2
  <2>2. history[i] \in Taken(p) /\ history[i + 1] \in Taken(p)
    BY <2>1 DEF Taken, Shown
  <2>3. /\ SampleSound(p, history[i]) /\ SampleSound(p, history[i + 1])
        /\ Related(history[i], history[i + 1])
    BY <2>2 DEF ScrapesInv
  <2>4. counted(i) \in Int
    BY <2>3 DEF SampleSound, Samples
  <2> QED BY <1>2, <1>3, <2>3, <2>4, IncreaseSound
<1>4. ASSUME tileRate(p) = "moving",
             \A i \in DOMAIN increments(p) : InOrder(history[i], history[i + 1])
      PROVE  \E i \in DOMAIN increments(p) : counted(i) > 0
  <2>1. PICK i \in DOMAIN increments(p) : increments(p)[i] # 0
    BY <1>4 DEF tileRate
  <2>2. counted(i) > 0
    BY <1>3, <1>4, <2>1
  <2> QED BY <2>2
<1> QED BY <1>3, <1>4

\* No rate, sparkline or tile of the metrics page ever shows more than a
\* process counted, or less than nothing, however many processes there are and
\* however scrapes, restarts and failures interleave.
THEOREM IncreaseNeverOvercountsHolds == Spec => []IncreaseNeverOvercounts
<1>1. Init => ScrapesInv
  BY ScrapesStart DEF Init
<1> QED BY <1>1, ScrapesStep, ScrapesInvSuffices, PTL DEF Spec

-----------------------------------------------------------------------------
(* Types *)

\* The parameters an address is given, each of its type.
Typed(next) ==
  \A f \in DOMAIN next :
    CASE f = "event_type" -> next[f] \in Filters
      [] f \in {"since", "item"} -> next[f] \in Nat
      [] OTHER -> next[f] \in Int

LEMMA SetParamsTyped ==
  ASSUME BrowserTypeOK, NEW next, Typed(next), setParams(next)
  PROVE  BrowserTypeOK'
<1> DEFINE query == [f \in DOMAIN hash.query |->
                       IF f \in DOMAIN next THEN next[f] ELSE hash.query[f]]
<1>1. hash.query \in Queries /\ hash \in Addresses
  BY DEF BrowserTypeOK, Addresses
<1>2. DOMAIN hash.query = {"event_type", "since", "limit", "offset", "item", "tour"}
  BY <1>1 DEF Queries
<1>3. query \in Queries
  <2>1. /\ query["event_type"] \in Filters /\ query["since"] \in Nat /\ query["limit"] \in Int
        /\ query["offset"] \in Int /\ query["item"] \in Nat /\ query["tour"] \in Int
    BY <1>1, <1>2 DEF Queries, Typed
  <2> HIDE DEF query
  <2>2. query = [event_type |-> query["event_type"], since |-> query["since"],
                 limit |-> query["limit"], offset |-> query["offset"],
                 item |-> query["item"], tour |-> query["tour"]]
    BY <1>2 DEF query
  <2> QED BY <2>1, <2>2 DEF Queries
<1> HIDE DEF query
<1>4. hash' = [hash EXCEPT !.query = query]
  BY DEF setParams, query
<1>5. hash' \in Addresses
  BY <1>1, <1>3, <1>4 DEF Addresses
<1>6. moves' \in Nat
  BY DEF setParams, Move, BrowserTypeOK
<1> QED BY <1>5, <1>6 DEF setParams, BrowserTypeOK

\* A page size is a positive number.
LEMMA LimitTyped == \A query : limitOf(query) \in Nat \ {0}
BY PageSizesAssumption DEF limitOf, Sizes

LEMMA TurnsTyped ==
  ASSUME NEW total \in Int, NEW limit \in Nat \ {0}, NEW offset \in Nat,
         NEW turn \in Turns(total, limit, offset)
  PROVE  turn.offset \in Int /\ turn.limit \in Nat \ {0} /\ Typed(turnTo(turn))
<1> DEFINE count == pageCount(total, limit)
           current == offset \div limit
<1>1. /\ \A page \in pageWindow(current, count) : page \in Int /\ page * limit \in Int
  BY DEF pageWindow
<1>2. turn.offset \in Int /\ turn.limit \in Nat \ {0}
  <2> HIDE DEF count, current
  <2>1. \/ \E page \in pageWindow(current, count) :
             turn = [offset |-> page * limit, limit |-> limit]
        \/ \E size \in Sizes : turn = [offset |-> 0, limit |-> size]
        \/ turn = [offset |-> offset - limit, limit |-> limit]
        \/ turn = [offset |-> offset + limit, limit |-> limit]
    BY DEF Turns, SizeMenu, count, current
  <2>2. \A size \in Sizes : size \in Nat \ {0}
    BY PageSizesAssumption DEF Sizes
  <2> QED BY <1>1, <2>1, <2>2
<1>3. Typed(turnTo(turn))
  <2>1. DOMAIN turnTo(turn) = {"offset", "limit"}
    BY DEF turnTo
  <2>2. turnTo(turn)["offset"] \in Int /\ turnTo(turn)["limit"] \in Int
    BY <1>2 DEF turnTo
  <2> QED BY <2>1, <2>2 DEF Typed
<1> QED BY <1>2, <1>3

\* What a query asks of a list.
LEMMA KeysTyped ==
  ASSUME NEW query \in Queries
  PROVE  queryKey(query) \in Keys /\ dlqKey(query) \in DlqKeys
<1>1. offsetOf(query) \in Nat /\ limitOf(query) \in Nat /\ query.event_type \in Filters
      /\ query.since \in Nat
  BY LimitTyped DEF offsetOf, Queries
<1> QED BY <1>1 DEF queryKey, dlqKey, Keys, DlqKeys

LEMMA ExplorerTypes ==
  ASSUME BrowserTypeOK, ExplorerTypeOK, ExplorerNext
  PROVE  BrowserTypeOK' /\ ExplorerTypeOK'
<1>1. /\ seen.query \in Queries /\ queryKey(seen.query) \in Keys
      /\ seen.query.event_type \in Filters /\ seen.query.since \in Nat
      /\ seen.query.item \in Nat /\ offsetOf(seen.query) \in Nat
  BY KeysTyped DEF BrowserTypeOK, Queries, offsetOf
<1>2. "" \in Filters /\ NoKey \in Keys
  <2>1. "" \in Filters
    BY DEF Filters
  <2> QED BY <2>1 DEF NoKey, Keys
<1>3. CASE EventsEffect
  <2>1. UNCHANGED browserVars /\ drawer' = drawer
    BY <1>3 DEF EventsEffect
  <2>2. events' = [events EXCEPT !.key = queryKey(seen.query),
                     !.requests = {queryKey(seen.query)}, !.loading = TRUE]
    BY <1>3 DEF EventsEffect
  <2> QED BY <1>1, <2>1, <2>2 DEF ExplorerTypeOK, BrowserTypeOK, browserVars
<1>4. CASE EventsAnswer
  <2>1. UNCHANGED browserVars /\ drawer' = drawer
    BY <1>4 DEF EventsAnswer
  <2>2. PICK key \in events.requests :
          \/ \E total \in 0..MaxTotal :
               events' = [events EXCEPT !.requests = @ \ {key}, !.loading = FALSE,
                            !.shown = [key |-> key, total |-> total], !.failed = NoKey]
          \/ events' = [events EXCEPT !.requests = @ \ {key}, !.loading = FALSE,
                          !.failed = key]
    BY <1>4 DEF EventsAnswer
  <2>3. key \in Keys /\ events.requests \ {key} \in SUBSET Keys
    BY DEF ExplorerTypeOK
  <2> DEFINE Events == [key : Keys, requests : SUBSET Keys,
                        shown : [key : Keys, total : Nat \cup {-1}], failed : Keys,
                        loading : BOOLEAN]
  <2>4. events \in Events
    BY DEF ExplorerTypeOK
  <2>5. ASSUME NEW total \in 0..MaxTotal,
               events' = [events EXCEPT !.requests = @ \ {key}, !.loading = FALSE,
                            !.shown = [key |-> key, total |-> total], !.failed = NoKey]
        PROVE  events' \in Events
    <3>1. [key |-> key, total |-> total] \in [key : Keys, total : Nat \cup {-1}]
      BY <2>3, ExplorerAssumption
    <3> QED BY <1>2, <2>3, <2>4, <2>5, <3>1
  <2>6. ASSUME events' = [events EXCEPT !.requests = @ \ {key}, !.loading = FALSE,
                            !.failed = key]
        PROVE  events' \in Events
    BY <2>3, <2>4, <2>6
  <2>7. events' \in Events
    BY <2>2, <2>5, <2>6
  <2> QED BY <2>1, <2>7 DEF ExplorerTypeOK, BrowserTypeOK, browserVars
<1>5. ASSUME NEW next, Typed(next), setParams(next), UNCHANGED explorerVars
      PROVE  BrowserTypeOK' /\ ExplorerTypeOK'
  BY <1>5, SetParamsTyped DEF ExplorerTypeOK, explorerVars
<1>6. CASE FilterEvents
  <2>1. \E type \in Filters : \E since \in Nat : changeFilter(type, since)
    <3>1. \/ \E type \in Filters : changeFilter(type, seen.query.since)
          \/ \E since \in 0..1 : changeFilter(seen.query.event_type, since)
          \/ changeFilter("", 0)
      BY <1>6 DEF FilterEvents
    <3>2. 0..1 \subseteq Nat
      OBVIOUS
    <3> QED BY <1>1, <1>2, <3>1, <3>2
  <2>2. PICK type \in Filters : \E since \in Nat : changeFilter(type, since)
    BY <2>1
  <2>3. PICK since \in Nat : changeFilter(type, since)
    BY <2>2
  <2>4. Typed([event_type |-> type, since |-> since, offset |-> 0])
    BY DEF Typed
  <2> QED BY <1>5, <1>6, <2>3, <2>4 DEF FilterEvents, changeFilter
<1>7. CASE TurnEventsPage
  <2>1. PICK turn \in Turns(events.shown.total, limitOf(seen.query), offsetOf(seen.query)) :
          setParams(turnTo(turn))
    BY <1>7 DEF TurnEventsPage
  <2>2. events.shown.total \in Int
    BY DEF ExplorerTypeOK
  <2>3. Typed(turnTo(turn))
    BY <1>1, <2>2, LimitTyped, TurnsTyped
  <2> QED BY <1>5, <1>7, <2>1, <2>3 DEF TurnEventsPage
<1>8. CASE BackToPageOne
  <2>1. Typed([offset |-> 0])
    BY DEF Typed
  <2> QED BY <1>5, <1>8, <2>1 DEF BackToPageOne
<1>9. CASE SelectEvent
  <2>1. PICK id \in StoredIds : setParams([item |-> id])
    BY <1>9 DEF SelectEvent
  <2>2. Typed([item |-> id])
    BY ExplorerAssumption DEF Typed
  <2> QED BY <1>5, <1>9, <2>1, <2>2 DEF SelectEvent
<1>10. CASE CloseDrawer
  <2>1. Typed([item |-> 0])
    BY DEF Typed
  <2> QED BY <1>5, <1>10, <2>1 DEF CloseDrawer
<1>11. CASE DrawerEffect
  BY <1>1, <1>11 DEF DrawerEffect, DrawerBlank, ExplorerTypeOK, BrowserTypeOK, browserVars
<1>12. CASE DrawerAnswer
  <2>1. PICK id \in drawer.requests :
          \/ drawer' = [drawer EXCEPT !.requests = @ \ {id}, !.shown = id]
          \/ drawer' = [drawer EXCEPT !.requests = @ \ {id}, !.failed = id]
    BY <1>12 DEF DrawerAnswer
  <2>2. /\ UNCHANGED browserVars /\ events' = events /\ id \in Nat
        /\ drawer.requests \ {id} \in SUBSET Nat
    BY <1>12 DEF DrawerAnswer, ExplorerTypeOK
  <2> QED BY <2>1, <2>2 DEF ExplorerTypeOK, BrowserTypeOK, browserVars
<1> QED BY <1>3, <1>4, <1>6, <1>7, <1>8, <1>9, <1>10, <1>11, <1>12 DEF ExplorerNext

\* How many rows match, and which are on a page: a number and a finite set.
LEMMA RowsTyped ==
  ASSUME DeadTypeOK
  PROVE  shownTotal \in Totals /\ shownRows \subseteq Nat
<1>1. dlq.shown.at \in Totals /\ dlq.shown.counted \in Totals
  BY DEF DeadTypeOK
<1>2. shownTotal \in Totals
  <2>1. CASE dlq.shown.counted = Nothing
    BY <2>1 DEF shownTotal, Totals
  <2>2. CASE dlq.shown.counted # Nothing
    <3> DEFINE M == Matching(dlq.shown.key, dlq.shown.counted)
    <3> HIDE DEF M
    <3>0. dlq.shown.counted \in Int
      BY <1>1, <2>2 DEF Totals
    <3>1. IsFiniteSet(1..dlq.shown.counted)
      BY ONLY <3>0, FS_Interval
    <3>2. M \subseteq 1..dlq.shown.counted
      BY DEF M, Matching
    <3>3. Cardinality(M) \in Nat
      BY <3>1, <3>2, FS_Subset, FS_CardinalityType
    <3> QED BY <2>2, <3>3 DEF M, shownTotal, Totals
  <2> QED BY <2>1, <2>2
<1>3. shownRows \subseteq Nat
  <2>1. CASE dlq.shown.at = Nothing
    BY <2>1 DEF shownRows
  <2>2. CASE dlq.shown.at # Nothing
    <3>1. 1..dlq.shown.at \subseteq Nat
      BY <1>1, <2>2 DEF Totals
    <3>2. shownRows \subseteq Matching(dlq.shown.key, dlq.shown.at)
      BY <2>2 DEF shownRows, PageRows
    <3> QED BY <3>1, <3>2 DEF Matching
  <2> QED BY <2>1, <2>2
<1> QED BY <1>2, <1>3

LEMMA FailuresTyped ==
  \A i \in DOMAIN Failures : Failures[i].type \in EventTypes /\ Failures[i].raw \in Forms
<1> SUFFICES ASSUME NEW i \in DOMAIN Failures
             PROVE  Failures[i].type \in EventTypes /\ Failures[i].raw \in Forms
  OBVIOUS
<1> DEFINE S == [type : EventTypes, raw : Forms]
<1>1. Failures \in Seq(S)
  BY DeadAssumption
<1> HIDE DEF S
<1>2. Failures[i] \in S
  BY <1>1
<1> QED BY <1>2 DEF S

LEMMA FilterTyped ==
  ASSUME NEW type \in Filters
  PROVE  Typed([event_type |-> type, offset |-> 0])
BY DEF Typed

LEMMA DeadTypes ==
  ASSUME BrowserTypeOK, DeadTypeOK, DeadNext
  PROVE  BrowserTypeOK' /\ DeadTypeOK'
<1> DEFINE Loads(f) == [key : DlqKeys, from : 0..f]
           Dlq(f) == [key : DlqKeys, loads : SUBSET Loads(f),
                      shown : [key : DlqKeys, at : Totals, counted : Totals],
                      failed : BOOLEAN]
           Summary(f) == [key : Totals \cup {Unmounted}, loads : SUBSET (0..f),
                          counted : Totals]
<1>1. /\ failures \in 0..Len(Failures) /\ failures \in 0..failures
      /\ dlq \in Dlq(failures) /\ summary \in Summary(failures)
      /\ dlqKey(seen.query) \in DlqKeys
  BY KeysTyped DEF DeadTypeOK, BrowserTypeOK
<1>2. CASE EventFails
  <2>1. /\ failures' = failures + 1 /\ UNCHANGED <<dlq, summary, browserVars>>
        /\ failures < Len(Failures) /\ Len(Failures) \in Nat
    BY <1>2, DeadAssumption DEF EventFails
  <2>2. 0..failures \subseteq 0..failures' /\ failures' \in 0..Len(Failures)
    BY <1>1, <2>1
  <2>3. Loads(failures) \subseteq Loads(failures')
    BY <2>2
  <2>4. dlq \in Dlq(failures') /\ summary \in Summary(failures')
    BY <1>1, <2>2, <2>3
  <2> QED BY <2>1, <2>2, <2>4 DEF DeadTypeOK, BrowserTypeOK, browserVars
<1>3. ASSUME dlq' \in Dlq(failures), summary' \in Summary(failures),
             UNCHANGED <<failures, browserVars>>
      PROVE  BrowserTypeOK' /\ DeadTypeOK'
  BY <1>1, <1>3 DEF DeadTypeOK, BrowserTypeOK, browserVars
<1>4. [key |-> dlqKey(seen.query), from |-> failures] \in Loads(failures)
  BY <1>1
<1>5. CASE DlqEffect
  <2>1. dlq' = [dlq EXCEPT !.key = dlqKey(seen.query),
                   !.loads = {[key |-> dlqKey(seen.query), from |-> failures]}]
    BY <1>5 DEF DlqEffect
  <2> HIDE DEF Loads
  <2>2. dlq' \in Dlq(failures)
    BY <1>1, <1>4, <2>1
  <2> QED BY <1>1, <1>3, <1>5, <2>2 DEF DlqEffect
<1>6. CASE DlqTick
  <2>1. dlq' = [dlq EXCEPT !.loads = @ \cup {[key |-> dlq.key, from |-> failures]}]
    BY <1>6 DEF DlqTick
  <2>2. [key |-> dlq.key, from |-> failures] \in Loads(failures)
    BY <1>1
  <2> HIDE DEF Loads
  <2>3. dlq' \in Dlq(failures)
    BY <1>1, <2>1, <2>2
  <2> QED BY <1>1, <1>3, <1>6, <2>3 DEF DlqTick
<1>7. CASE DlqAnswer
  <2>1. PICK load \in dlq.loads :
          \/ \E at \in load.from..failures : \E counted \in at..failures :
               dlq' = [dlq EXCEPT !.loads = @ \ {load}, !.failed = FALSE,
                         !.shown = [key |-> load.key, at |-> at, counted |-> counted]]
          \/ dlq' = [dlq EXCEPT !.loads = @ \ {load}, !.failed = TRUE]
    BY <1>7 DEF DlqAnswer
  <2>2. load \in Loads(failures) /\ load.key \in DlqKeys /\ load.from \in Nat
    BY <1>1
  <2> HIDE DEF Loads
  <2>3. dlq.loads \ {load} \in SUBSET Loads(failures)
    BY <1>1
  <2>4. ASSUME NEW at \in load.from..failures, NEW counted \in at..failures,
               dlq' = [dlq EXCEPT !.loads = @ \ {load}, !.failed = FALSE,
                         !.shown = [key |-> load.key, at |-> at, counted |-> counted]]
        PROVE  dlq' \in Dlq(failures)
    <3> DEFINE shown == [key |-> load.key, at |-> at, counted |-> counted]
    <3>1. at \in Nat /\ counted \in Nat
      BY <2>2, <1>1
    <3>2. shown \in [key : DlqKeys, at : Totals, counted : Totals]
      BY <2>2, <3>1 DEF Totals
    <3> HIDE DEF shown
    <3>3. dlq' = [dlq EXCEPT !.loads = dlq.loads \ {load}, !.failed = FALSE, !.shown = shown]
      BY <2>4 DEF shown
    <3> QED BY <1>1, <2>3, <3>2, <3>3
  <2>5. ASSUME dlq' = [dlq EXCEPT !.loads = @ \ {load}, !.failed = TRUE]
        PROVE  dlq' \in Dlq(failures)
    BY <1>1, <2>3, <2>5
  <2>6. dlq' \in Dlq(failures)
    BY <2>1, <2>4, <2>5
  <2> QED BY <1>1, <1>3, <1>7, <2>6 DEF DlqAnswer
<1>8. CASE SummaryEffect
  <2>1. summary' = [summary EXCEPT !.key = shownTotal, !.loads = {failures}]
    BY <1>8 DEF SummaryEffect
  <2>2. summary' \in Summary(failures)
    BY <1>1, <2>1, RowsTyped
  <2> QED BY <1>1, <1>3, <1>8, <2>2 DEF SummaryEffect
<1>9. CASE SummaryAnswer
  <2>1. PICK from \in summary.loads : \E at \in from..failures \cup {Nothing} :
          summary' = [summary EXCEPT !.loads = {}, !.counted = at]
    BY <1>9 DEF SummaryAnswer
  <2>2. PICK at \in from..failures \cup {Nothing} :
          summary' = [summary EXCEPT !.loads = {}, !.counted = at]
    BY <2>1
  <2>3. from \in Nat
    BY <1>1
  <2>4. at \in Totals
    BY <1>1, <2>3 DEF Totals
  <2>5. summary' \in Summary(failures)
    BY <1>1, <2>2, <2>4
  <2> QED BY <1>1, <1>3, <1>9, <2>5 DEF SummaryAnswer
<1>10. ASSUME NEW next, Typed(next), setParams(next), UNCHANGED deadVars
       PROVE  BrowserTypeOK' /\ DeadTypeOK'
  BY <1>10, SetParamsTyped DEF DeadTypeOK, deadVars
<1>11. CASE FilterDlq
  <2>1. PICK type \in {Failures[i].type : i \in DOMAIN Failures} \cup {""} :
          setParams([event_type |-> type, offset |-> 0])
    BY <1>11 DEF FilterDlq
  <2>2. type \in Filters
    BY FailuresTyped DEF Filters
  <2>3. Typed([event_type |-> type, offset |-> 0])
    BY <2>2, FilterTyped
  <2> QED BY <1>10, <1>11, <2>1, <2>3 DEF FilterDlq
<1>12. CASE TurnDlqPage
  <2>1. PICK turn \in Turns(shownTotal, limitOf(seen.query), offsetOf(seen.query)) :
          setParams(turnTo(turn))
    BY <1>12 DEF TurnDlqPage
  <2>2. shownTotal \in Int /\ offsetOf(seen.query) \in Nat
    BY RowsTyped DEF Totals, Nothing, offsetOf, BrowserTypeOK, Queries
  <2>3. Typed(turnTo(turn))
    BY <2>2, LimitTyped, TurnsTyped
  <2> QED BY <1>10, <1>12, <2>1, <2>3 DEF TurnDlqPage
<1>13. CASE SelectFailure
  <2>1. PICK i \in shownRows : setParams([item |-> i])
    BY <1>13 DEF SelectFailure
  <2>2. Typed([item |-> i])
    BY RowsTyped DEF Typed
  <2> QED BY <1>10, <1>13, <2>1, <2>2 DEF SelectFailure
<1>14. CASE CloseFailure
  <2>1. Typed([item |-> 0])
    BY DEF Typed
  <2> QED BY <1>10, <1>14, <2>1 DEF CloseFailure
<1> QED BY <1>2, <1>5, <1>6, <1>7, <1>8, <1>9, <1>11, <1>12, <1>13, <1>14 DEF DeadNext

LEMMA SendTypes ==
  ASSUME SendTypeOK, SendNext
  PROVE  SendTypeOK' /\ UNCHANGED browserVars
<1> USE SendAssumption DEF SendTypeOK, Requests
<1>0. 0 \in Ids /\ SendIds \subseteq Ids
  BY DEF Ids
<1> USE <1>0
<1>1. CASE PickPreset
  BY <1>1 DEF PickPreset
<1>2. CASE EditDraft
  BY <1>2 DEF EditDraft
<1>3. CASE ToggleChecks
  BY <1>3 DEF ToggleChecks
<1>4. CASE Send
  <2>1. (validateDraft(composer.form) = {}) \in BOOLEAN
    OBVIOUS
  <2> QED BY <1>4, <2>1 DEF Send
<1>5. CASE SendAnswered
  <2>1. PICK answer \in Answers(sending) :
          /\ places' = IF answer.published
                       THEN [places EXCEPT ![sending.id] = @ \cup {"topic"}] ELSE places
          /\ outcome' = [id |-> sending.id, form |-> sending.form,
                         checked |-> sending.checked, status |-> answer.status]
    BY <1>5 DEF SendAnswered
  <2>2. answer.status \in Int
    BY DEF Answers
  <2>3. places' \in [SendIds -> SUBSET {"topic", "stored", "dead"}]
    BY <2>1
  <2>4. /\ tracker' = [tracker EXCEPT !.due = TRUE] /\ sending' = NoRequest
        /\ UNCHANGED <<composer, sends, browserVars>>
    BY <1>5 DEF SendAnswered
  <2>5. NoRequest \in Requests
    BY DEF NoRequest
  <2> QED BY <2>1, <2>2, <2>3, <2>4, <2>5
<1>6. CASE Consume
  <2>1. PICK id \in SendIds, to \in {"stored", "dead"} :
          places' = [places EXCEPT ![id] = (@ \ {"topic"}) \cup {to}]
    BY <1>6 DEF Consume
  <2>2. places' \in [SendIds -> SUBSET {"topic", "stored", "dead"}]
    BY <2>1
  <2> QED BY <1>6, <2>2 DEF Consume
<1>7. CASE TrackerEffect
  <2>1. Follow \in [id : Ids, readable : BOOLEAN, due : BOOLEAN, polls : SUBSET Ids,
                    timer : BOOLEAN, late : BOOLEAN, found : Ids, gaveUp : BOOLEAN]
    <3> DEFINE readable == Readable(outcome.form["event_id"])
               asked == IF outcome.status = 202 THEN {outcome.id} ELSE {}
    <3>1. readable \in BOOLEAN
      BY DEF Readable
    <3>2. asked \in SUBSET Ids /\ outcome.id \in Ids
      OBVIOUS
    <3>3. Follow = [NoTracker EXCEPT !.id = outcome.id, !.readable = readable, !.polls = asked]
      BY DEF Follow
    <3> HIDE DEF readable, asked
    <3> QED BY <3>1, <3>2, <3>3 DEF NoTracker
  <2> QED BY <1>7, <2>1 DEF TrackerEffect
<1>8. CASE TrackerLate
  BY <1>8 DEF TrackerLate
<1>9. CASE TrackerPolled
  <2>1. PICK id \in tracker.polls :
          \/ tracker' = [tracker EXCEPT !.polls = @ \ {id}, !.found = id]
          \/ tracker' = [tracker EXCEPT !.polls = @ \ {id}, !.gaveUp = tracker.late,
                                        !.timer = ~tracker.late]
    BY <1>9 DEF TrackerPolled
  <2>2. tracker.polls \ {id} \in SUBSET Ids /\ id \in Ids
    OBVIOUS
  <2>3. tracker.late \in BOOLEAN /\ (~tracker.late) \in BOOLEAN
    OBVIOUS
  <2>4. \/ tracker' = [tracker EXCEPT !.polls = @ \ {id}, !.found = id]
        \/ \E late, again \in BOOLEAN :
             tracker' = [tracker EXCEPT !.polls = @ \ {id}, !.gaveUp = late, !.timer = again]
    BY <2>1, <2>3, Zenon
  <2>5. tracker' \in [id : Ids, readable : BOOLEAN, due : BOOLEAN, polls : SUBSET Ids,
                      timer : BOOLEAN, late : BOOLEAN, found : Ids, gaveUp : BOOLEAN]
    <3> DEFINE rest == tracker.polls \ {id}
    <3>1. rest \in SUBSET Ids
      BY <2>2
    <3> HIDE DEF rest
    <3>2. CASE tracker' = [tracker EXCEPT !.polls = rest, !.found = id]
      BY <2>2, <3>1, <3>2
    <3>3. ASSUME NEW late \in BOOLEAN, NEW again \in BOOLEAN,
                 tracker' = [tracker EXCEPT !.polls = rest, !.gaveUp = late, !.timer = again]
          PROVE  tracker' \in [id : Ids, readable : BOOLEAN, due : BOOLEAN, polls : SUBSET Ids,
                      timer : BOOLEAN, late : BOOLEAN, found : Ids, gaveUp : BOOLEAN]
      BY <3>1, <3>3
    <3> QED BY <2>4, <3>2, <3>3 DEF rest
  <2> QED BY <1>9, <2>5 DEF TrackerPolled
<1>10. CASE TrackerTimer
  BY <1>10 DEF TrackerTimer
<1> QED BY <1>1, <1>2, <1>3, <1>4, <1>5, <1>6, <1>7, <1>8, <1>9, <1>10 DEF SendNext

LEMMA RaceTypes ==
  ASSUME RaceTypeOK, RaceNext
  PROVE  RaceTypeOK'
<1> USE RaceAssumption DEF RaceTypeOK
<1>1. Reading \in Readings /\ Unreachable \in Readings
  BY DEF Reading, Unreachable, Readings
<1>2. CASE StartRace
  BY <1>2 DEF StartRace
<1>3. CASE ReadBefore
  <2>1. PICK reading \in Readings : race' = [race EXCEPT !.phase = "sending", !.before = reading]
    BY <1>1, <1>3 DEF ReadBefore
  <2> QED BY <1>3, <2>1 DEF ReadBefore
<1>4. CASE CopyAnswered
  BY <1>4 DEF CopyAnswered
<1>5. CASE Settled
  BY <1>5 DEF Settled
<1>6. CASE ReadAfter
  <2>1. PICK reading \in Readings : race' = [race EXCEPT !.phase = "row", !.after = reading]
    BY <1>1, <1>6 DEF ReadAfter
  <2> QED BY <1>6, <2>1 DEF ReadAfter
<1>7. CASE ReadRow
  <2>1. PICK found \in BOOLEAN : race' = [race EXCEPT !.phase = "done", !.rowFound = found]
    BY <1>7 DEF ReadRow
  <2> QED BY <1>7, <2>1 DEF ReadRow
<1>8. CASE InsertCopy
  BY <1>8 DEF InsertCopy
<1>9. CASE OtherDuplicate
  BY <1>9 DEF OtherDuplicate
<1>10. CASE ConsumerRestarts
  BY <1>10 DEF ConsumerRestarts
<1> QED BY <1>2, <1>3, <1>4, <1>5, <1>6, <1>7, <1>8, <1>9, <1>10 DEF RaceNext

LEMMA HealthTypes ==
  ASSUME BrowserTypeOK, HealthTypeOK, HealthNext
  PROVE  BrowserTypeOK' /\ HealthTypeOK'
<1> USE HealthAssumption DEF HealthTypeOK
<1> DEFINE Health == [data : HealthReadings, error : {NoError, 0, 502}, mounted : BOOLEAN]
<1>1. CASE DependencyChanges
  <2>1. budget' \in [changes : 0..MaxChanges, failures : 0..MaxFailures]
    BY <1>1 DEF DependencyChanges
  <2>2. kafka' \in KafkaStates /\ database' \in DatabaseStates
    BY <1>1 DEF DependencyChanges
  <2> QED BY <1>1, <2>1, <2>2 DEF DependencyChanges, BrowserTypeOK, browserVars
<1>2. CASE HealthTick
  <2>1. Asked \in HealthReadings
    BY DEF Asked, NoData, HealthReadings
  <2>2. polls' \in Seq(HealthReadings)
    BY <1>2, <2>1 DEF HealthTick
  <2> QED BY <1>2, <2>2 DEF HealthTick, BrowserTypeOK, browserVars
<1>3. CASE HealthTabSwitch
  BY <1>3 DEF HealthTabSwitch, SwitchTab, Move, healthVars, BrowserTypeOK
<1>4. ASSUME NEW n \in DOMAIN polls, ReadKafka(n) \/ ProbeDatabase(n)
      PROVE  BrowserTypeOK' /\ HealthTypeOK'
  <2>1. polls[n] \in HealthReadings
    OBVIOUS
  <2>2. \E reading \in HealthReadings : polls' = [polls EXCEPT ![n] = reading]
    <3>1. CASE ReadKafka(n)
      <4>1. [polls[n] EXCEPT !.kafka = kafka] \in HealthReadings
        BY <2>1 DEF HealthReadings
      <4> QED BY <3>1, <4>1 DEF ReadKafka
    <3>2. CASE ProbeDatabase(n)
      <4>1. [polls[n] EXCEPT !.database = database] \in HealthReadings
        BY <2>1 DEF HealthReadings
      <4> QED BY <3>2, <4>1 DEF ProbeDatabase
    <3> QED BY <1>4, <3>1, <3>2
  <2>3. polls' \in Seq(HealthReadings)
    BY <2>2
  <2> QED BY <1>4, <2>3 DEF ReadKafka, ProbeDatabase, BrowserTypeOK, browserVars
<1>5. ASSUME NEW n \in DOMAIN polls, HealthAnswered(n) \/ HealthFails(n)
      PROVE  BrowserTypeOK' /\ HealthTypeOK'
  <2>1. polls' = RemoveAt(polls, n)
    BY <1>5 DEF HealthAnswered, HealthFails
  <2>2. polls' \in Seq(HealthReadings)
    BY <2>1 DEF RemoveAt
  <2>3. polls[n] \in HealthReadings
    OBVIOUS
  <2>4. health' \in Health
    <3>1. CASE HealthAnswered(n)
      BY <2>3, <3>1 DEF HealthAnswered
    <3>2. CASE HealthFails(n)
      <4>1. PICK code \in {0, 502} : health' = [health EXCEPT !.error = code]
        BY <3>2 DEF HealthFails
      <4> QED BY <4>1
    <3> QED BY <1>5, <3>1, <3>2
  <2>5. budget' \in [changes : 0..MaxChanges, failures : 0..MaxFailures]
    BY <1>5 DEF HealthAnswered, HealthFails
  <2> QED BY <1>5, <2>2, <2>4, <2>5
          DEF HealthAnswered, HealthFails, BrowserTypeOK, browserVars
<1> QED BY <1>1, <1>2, <1>3, <1>4, <1>5 DEF HealthNext

TourResults == [DOMAIN TourSteps -> [ok : BOOLEAN, says : Says, event : 0..MaxTour]]

LEMMA OutcomesTyped ==
  ASSUME NEW kind \in TourKinds, NEW event, NEW result \in Outcomes(kind, event)
  PROVE  result.ok \in BOOLEAN /\ result.says \in Says
<1> DEFINE stored_ == event # 0 /\ "stored" \in tourPlaces[event]
<1>1. stored_ \in BOOLEAN
  OBVIOUS
<1>2. (IF stored_ THEN "stored" ELSE "not stored") \in Says
  BY DEF Says
<1>3. \E ok \in BOOLEAN, says \in Says, publishes \in BOOLEAN :
        result = [ok |-> ok, says |-> says, publishes |-> publishes]
  <2> HIDE DEF stored_
  <2>1. CASE kind = "send"
    BY <2>1 DEF Outcomes, Says
  <2>2. CASE kind = "find"
    BY <1>1, <1>2, <2>2 DEF Outcomes, Says, stored_
  <2>3. CASE kind = "resend"
    BY <2>3 DEF Outcomes, Says
  <2>4. CASE kind = "race"
    BY <1>1, <1>2, <2>4 DEF Outcomes, Says, stored_
  <2>5. CASE kind = "break"
    BY <2>5 DEF Outcomes, Says
  <2>6. CASE kind = "dlq"
    BY <2>6 DEF Outcomes, Says
  <2> QED BY <2>1, <2>2, <2>3, <2>4, <2>5, <2>6 DEF TourKinds
<1> QED BY <1>3

LEMMA TourTypes ==
  ASSUME BrowserTypeOK, TourTypeOK, TourNext
  PROVE  BrowserTypeOK' /\ TourTypeOK'
<1> USE TourAssumption
<1> DEFINE Running == [step : 0..Len(TourSteps), event : 0..MaxTour]
           Tours == [eventId : 0..MaxTour, newest : 0..MaxTour,
                     running : Running, results : TourResults]
           Places == [TourIds -> SUBSET {"topic", "stored", "dead"}]
<1>1. tour \in Tours /\ tourPlaces \in Places
  BY DEF TourTypeOK, TourResults
<1>r. tour.running = NoRun \/ tour.running.step # 0
  BY DEF TourTypeOK
<1>2. ASSUME tour' \in Tours, tourPlaces' \in Places, UNCHANGED browserVars,
             (tour.running = NoRun \/ tour.running.step # 0)'
      PROVE  BrowserTypeOK' /\ TourTypeOK'
  BY <1>2 DEF TourTypeOK, TourResults, BrowserTypeOK, browserVars
<1>3. tourStep(seen.query) \in 0..Len(TourSteps)
  BY DEF tourStep
<1>4. CASE TourTurn
  <2>1. PICK to \in 0..Len(TourSteps) : setParams([tour |-> to])
    BY <1>4 DEF TourTurn
  <2>2. Typed([tour |-> to])
    BY DEF Typed
  <2> QED BY <1>1, <1>4, <2>1, <2>2, SetParamsTyped DEF TourTurn, tourVars, TourTypeOK, TourResults
<1>5. CASE TourRun
  <2> DEFINE step  == tourStep(seen.query)
             fresh == TourSteps[step] \in {"send", "race"}
             event == IF fresh THEN tour.newest + 1 ELSE tour.eventId
  <2>1. /\ fresh => tour.newest < MaxTour
        /\ tour' = [tour EXCEPT !.newest = IF fresh THEN event ELSE @,
                                !.eventId = IF TourSteps[step] = "send" THEN event ELSE @,
                                !.running = [step |-> step, event |-> event]]
        /\ UNCHANGED <<tourPlaces, browserVars>>
    BY <1>5 DEF TourRun
  <2>2. event \in 0..MaxTour
    BY <1>1, <2>1
  <2>3. [step |-> step, event |-> event] \in Running
    BY <1>3, <2>2
  <2> HIDE DEF step, event, fresh, Running
  <2>4. tour' \in Tours /\ tour'.running = [step |-> step, event |-> event]
    BY <1>1, <2>1, <2>2, <2>3
  <2>5. step # 0
    BY <1>5 DEF TourRun, step
  <2> QED BY <1>1, <1>2, <2>1, <2>4, <2>5
<1>6. CASE TourRaceSent
  <2>1. tourPlaces' = [tourPlaces EXCEPT ![tour.running.event] = {"topic"}]
    BY <1>6 DEF TourRaceSent
  <2>2. tourPlaces' \in Places
    BY <1>1, <2>1
  <2> QED BY <1>1, <1>r, <1>2, <1>6, <2>2 DEF TourRaceSent
<1>7. CASE TourDone
  <2> DEFINE run == tour.running
  <2>1. run \in Running /\ run.step # 0
    BY <1>1, <1>r, <1>7 DEF TourDone
  <2>2. PICK result \in Outcomes(TourSteps[run.step], run.event) :
          /\ tour' = [tour EXCEPT !.running = NoRun, !.results = [@ EXCEPT ![run.step] =
                        [ok |-> result.ok, says |-> result.says, event |-> run.event]]]
          /\ tourPlaces' = IF result.publishes
                           THEN [tourPlaces EXCEPT ![run.event] = @ \cup {"topic"}]
                           ELSE tourPlaces
    BY <1>7 DEF TourDone
  <2>3. run.step \in DOMAIN TourSteps /\ TourSteps[run.step] \in TourKinds
    BY <2>1
  <2>4. result.ok \in BOOLEAN /\ result.says \in Says
    BY <2>3, OutcomesTyped
  <2>5. [tour.results EXCEPT ![run.step] =
            [ok |-> result.ok, says |-> result.says, event |-> run.event]] \in TourResults
    BY <1>1, <2>1, <2>3, <2>4 DEF TourResults
  <2>6. NoRun \in Running
    BY DEF NoRun
  <2>7. tourPlaces' \in Places
    BY <1>1, <2>2
  <2> HIDE DEF Running
  <2>8. tour' \in Tours /\ tour'.running = NoRun
    BY <1>1, <2>2, <2>5, <2>6
  <2> QED BY <1>2, <1>7, <2>7, <2>8 DEF TourDone, NoRun
<1>8. CASE TourConsume
  <2>1. PICK id \in TourIds : \E to \in {"stored", "dead"} :
            tourPlaces' = [tourPlaces EXCEPT ![id] = (@ \ {"topic"}) \cup {to}]
    BY <1>8 DEF TourConsume
  <2>2. tourPlaces' \in Places
    BY <1>1, <2>1
  <2> QED BY <1>1, <1>r, <1>2, <1>8, <2>2 DEF TourConsume
<1> QED BY <1>4, <1>5, <1>6, <1>7, <1>8 DEF TourNext


\* A page as it opens.
LEMMA ExplorerOpened == ExplorerBlank => ExplorerTypeOK
<1> SUFFICES ASSUME ExplorerBlank PROVE ExplorerTypeOK
  OBVIOUS
<1>1. NoKey \in Keys
  BY DEF NoKey, Keys, Filters
<1> QED BY <1>1 DEF ExplorerBlank, EventsBlank, DrawerBlank, NoPage, ExplorerTypeOK

LEMMA DeadOpened == DeadBlank => DeadTypeOK
<1> SUFFICES ASSUME DeadBlank PROVE DeadTypeOK
  OBVIOUS
<1>1. NoDlqKey \in DlqKeys
  BY DEF NoDlqKey, DlqKeys
<1>2. 0 \in 0..Len(Failures)
  BY DeadAssumption
<1>3. Nothing \in Totals
  BY DEF Totals
<1> QED BY <1>1, <1>2, <1>3 DEF DeadBlank, DlqBlank, SummaryBlank, DeadTypeOK

LEMMA SendOpened == SendBlank => SendTypeOK
<1> SUFFICES ASSUME SendBlank PROVE SendTypeOK
  OBVIOUS
<1>1. Clean \in DraftForms /\ InitialId \in SendIds /\ InitialId \in Ids /\ 0 \in Ids
  BY SendAssumption DEF Ids
<1>2. composer \in [id : SendIds, form : DraftForms, checks : BOOLEAN]
  BY <1>1 DEF SendBlank, Composing
<1>3. sending \in Requests
  BY <1>1 DEF SendBlank, NoRequest, Requests
<1>4. outcome \in [id : Ids, form : DraftForms, checked : BOOLEAN, status : Int]
  BY <1>1 DEF SendBlank, NoOutcome
<1>5. tracker \in [id : Ids, readable : BOOLEAN, due : BOOLEAN, polls : SUBSET Ids,
                    timer : BOOLEAN, late : BOOLEAN, found : Ids, gaveUp : BOOLEAN]
  BY <1>1 DEF SendBlank, NoTracker
<1>6. places \in [SendIds -> SUBSET {"topic", "stored", "dead"}]
  <2>1. \E before \in {{}, {"stored"}} :
          places = [id \in SendIds |-> IF id = InitialId THEN before ELSE {}]
    BY DEF SendBlank, PlacesOn
  <2> QED BY <2>1
<1>7. sends \in 0..MaxSends
  BY SendAssumption DEF SendBlank
<1> QED BY <1>2, <1>3, <1>4, <1>5, <1>6, <1>7 DEF SendTypeOK

LEMMA RaceOpened == RaceBlank => RaceTypeOK
<1> SUFFICES ASSUME RaceBlank PROVE RaceTypeOK
  OBVIOUS
<1>1. NoReading \in Readings
  BY DEF NoReading, Readings
<1>2. race \in [phase : {"idle", "before", "sending", "after", "row", "done"},
                before : Readings, after : Readings, rowFound : BOOLEAN]
  BY <1>1 DEF RaceBlank, RaceStart
<1>3. answered \in [Copies -> {0, 202, 409, 503}]
  BY DEF RaceBlank, Unanswered
<1>4. others \in 0..MaxOthers /\ counter \in Nat /\ dropped \in Nat
  BY RaceAssumption DEF RaceBlank
<1>5. topic \in SUBSET Copies /\ stored \in BOOLEAN
  BY DEF RaceBlank
<1> QED BY <1>2, <1>3, <1>4, <1>5 DEF RaceTypeOK

LEMMA HealthOpened == HealthBlank => HealthTypeOK
<1> SUFFICES ASSUME HealthBlank PROVE HealthTypeOK
  OBVIOUS
<1>1. NoData \in HealthReadings
  BY DEF NoData, HealthReadings
<1>2. <<>> \in Seq(HealthReadings)
  OBVIOUS
<1> QED BY <1>1, <1>2, HealthAssumption
        DEF HealthBlank, NoHealth, NoBudget, HealthTypeOK, KafkaStates, DatabaseStates

LEMMA TourOpened == TourBlank => TourTypeOK
<1> SUFFICES ASSUME TourBlank PROVE TourTypeOK
  OBVIOUS
<1>1. [step \in DOMAIN TourSteps |-> NoResult] \in TourResults
  BY TourAssumption DEF NoResult, TourResults, Says
<1>2. NoRun \in [step : 0..Len(TourSteps), event : 0..MaxTour]
  BY TourAssumption DEF NoRun
<1> QED BY <1>1, <1>2, TourAssumption
        DEF TourBlank, TourStart, Unsent, TourTypeOK, TourResults

LEMMA AddressSeen ==
  ASSUME BrowserTypeOK
  PROVE  readHash \in [route : Routes, query : Queries]
BY DEF BrowserTypeOK, Addresses, readHash, parse, Routes

ConsoleInv == ConsoleTypeOK /\ ScrapesInv

LEMMA ConsoleStart == Init => ConsoleInv
<1> SUFFICES ASSUME Init PROVE ConsoleInv
  OBVIOUS
<1>1. BrowserTypeOK
  <2>1. hash \in Addresses
    BY LinksAssumption DEF Init, BrowserInit
  <2>2. readHash \in [route : Routes, query : Queries]
    BY <2>1 DEF Addresses, readHash, parse, Routes
  <2> QED BY <2>1, <2>2 DEF Init, BrowserInit, BrowserTypeOK
<1>2. panel \in Panels
  BY DEF Init, PanelsOn, Panels
<1>3. ScrapesInv
  BY ScrapesStart DEF Init
<1> QED BY <1>1, <1>2, <1>3, ExplorerOpened, DeadOpened, SendOpened, RaceOpened,
           HealthOpened, TourOpened
        DEF Init, ConsoleTypeOK, ConsoleInv, ScrapesInv

\* Every page is typed as it opens, and its type says nothing of the address.
LEMMA PagesOpen ==
  ASSUME BrowserTypeOK, PageOpens
  PROVE  /\ BrowserTypeOK' /\ ExplorerTypeOK' /\ DeadTypeOK' /\ SendTypeOK'
         /\ RaceTypeOK' /\ HealthTypeOK' /\ TourTypeOK' /\ (panel \in Panels)'
<1>1. BrowserTypeOK'
  <2>1. hash' \in Addresses /\ visible' \in BOOLEAN
    BY LinksAssumption DEF PageOpens, FollowLink, BrowserTypeOK
  <2>2. readHash' \in [route : Routes, query : Queries]
    BY <2>1 DEF Addresses, readHash, parse, Routes
  <2> QED BY <2>1, <2>2 DEF PageOpens, FollowLink, Move, BrowserTypeOK
<1>2. (ExplorerBlank => ExplorerTypeOK)'
  BY ExplorerOpened, PTL
<1>3. (DeadBlank => DeadTypeOK)'
  BY DeadOpened, PTL
<1>4. (SendBlank => SendTypeOK)'
  BY SendOpened, PTL
<1>5. (RaceBlank => RaceTypeOK)'
  BY RaceOpened, PTL
<1>6. (HealthBlank => HealthTypeOK)'
  BY HealthOpened, PTL
<1>7. (TourBlank => TourTypeOK)'
  BY TourOpened, PTL
<1>8. ExplorerBlank' /\ DeadBlank' /\ SendBlank' /\ RaceBlank' /\ HealthBlank' /\ TourBlank'
  BY DEF PageOpens, ExplorerOpens, ExplorerBlank, DeadOpens, DeadBlank, SendOpens, SendBlank,
         RaceOpens, RaceBlank, HealthOpens, HealthBlank, TourOpens, TourBlank,
         EventsBlank, DrawerBlank, NoPage, NoKey, DlqBlank, SummaryBlank, NoDlqKey,
         Composing, NoRequest, NoOutcome, NoTracker, Clean, Plain, RaceStart, Unanswered,
         NoReading, NoHealth, NoBudget, NoData, TourStart, Unsent, NoRun, NoResult, PlacesOn
<1>9. panel' \in Panels
  BY DEF PageOpens, PanelsOn, Panels
<1> QED BY <1>1, <1>2, <1>3, <1>4, <1>5, <1>6, <1>7, <1>8, <1>9

LEMMA PageRendered ==
  ASSUME ConsoleInv, PageRenders
  PROVE  ConsoleInv'
<1>1. BrowserTypeOK'
  BY AddressSeen DEF ConsoleInv, ConsoleTypeOK, PageRenders, HashChange, BrowserTypeOK
<1>2. TourTypeOK'
  <2>1. CASE tour' = tour /\ tourPlaces' = tourPlaces
    BY <2>1 DEF ConsoleInv, ConsoleTypeOK, TourTypeOK
  <2>2. CASE tour' = [TourStart EXCEPT !.newest = tour.newest] /\ tourPlaces' = tourPlaces
    <3>1. tour.newest \in 0..MaxTour /\ tourPlaces \in [TourIds -> SUBSET {"topic", "stored", "dead"}]
      BY DEF ConsoleInv, ConsoleTypeOK, TourTypeOK
    <3>2. [step \in DOMAIN TourSteps |-> NoResult] \in TourResults
      BY TourAssumption DEF NoResult, TourResults, Says
    <3>3. NoRun \in [step : 0..Len(TourSteps), event : 0..MaxTour]
      BY TourAssumption DEF NoRun
    <3>4. tour' \in [eventId : 0..MaxTour, newest : 0..MaxTour,
                     running : [step : 0..Len(TourSteps), event : 0..MaxTour],
                     results : TourResults] /\ tour'.running = NoRun
      BY <2>2, <3>1, <3>2, <3>3, TourAssumption DEF TourStart
    <3> QED BY <2>2, <3>1, <3>4 DEF TourTypeOK, TourResults, NoRun
  <2> QED BY <2>1, <2>2 DEF PageRenders, TourSeen, tourVars
<1>3. /\ ExplorerTypeOK' /\ DeadTypeOK' /\ SendTypeOK' /\ RaceTypeOK' /\ HealthTypeOK'
      /\ (panel \in Panels)'
  BY DEF ConsoleInv, ConsoleTypeOK, PageRenders, explorerVars, deadVars, sendVars, raceVars,
         healthVars, ExplorerTypeOK, DeadTypeOK, SendTypeOK, RaceTypeOK, HealthTypeOK
<1>4. ScrapesInv'
  BY ScrapesStep DEF ConsoleInv, Next
<1> QED BY <1>1, <1>2, <1>3, <1>4 DEF ConsoleInv, ConsoleTypeOK, ScrapesInv

\* What a step of one page leaves alone keeps its type.
LEMMA Untouched ==
  ASSUME ConsoleInv
  PROVE  /\ UNCHANGED browserVars => BrowserTypeOK'
         /\ UNCHANGED explorerVars => ExplorerTypeOK'
         /\ UNCHANGED deadVars => DeadTypeOK'
         /\ UNCHANGED sendVars => SendTypeOK'
         /\ UNCHANGED raceVars => RaceTypeOK'
         /\ UNCHANGED healthVars => HealthTypeOK'
         /\ UNCHANGED tourVars => TourTypeOK'
         /\ UNCHANGED panel => (panel \in Panels)'
<1> USE DEF ConsoleInv, ConsoleTypeOK
<1>1. UNCHANGED browserVars => BrowserTypeOK'
  BY DEF browserVars, BrowserTypeOK
<1>2. UNCHANGED explorerVars => ExplorerTypeOK'
  BY DEF explorerVars, ExplorerTypeOK
<1>3. UNCHANGED deadVars => DeadTypeOK'
  BY DEF deadVars, DeadTypeOK
<1>4. UNCHANGED sendVars => SendTypeOK'
  BY DEF sendVars, SendTypeOK
<1>5. UNCHANGED raceVars => RaceTypeOK'
  BY DEF raceVars, RaceTypeOK
<1>6. UNCHANGED healthVars => HealthTypeOK'
  BY DEF healthVars, HealthTypeOK
<1>7. UNCHANGED tourVars => TourTypeOK'
  BY DEF tourVars, TourTypeOK
<1> QED BY <1>1, <1>2, <1>3, <1>4, <1>5, <1>6, <1>7

LEMMA ConsoleStep == ConsoleInv /\ [Next]_vars => ConsoleInv'
<1> SUFFICES ASSUME ConsoleInv, [Next]_vars PROVE ConsoleInv'
  OBVIOUS
<1>1. /\ BrowserTypeOK /\ ExplorerTypeOK /\ DeadTypeOK /\ SendTypeOK /\ RaceTypeOK
      /\ HealthTypeOK /\ TourTypeOK /\ ScrapesInv /\ panel \in Panels
  BY DEF ConsoleInv, ConsoleTypeOK
<1>2. ScrapesInv'
  BY <1>1, ScrapesStep
<1>3. ScrapesTypeOK'
  BY <1>2 DEF ScrapesInv
<1>4. SUFFICES /\ BrowserTypeOK' /\ ExplorerTypeOK' /\ DeadTypeOK' /\ SendTypeOK' /\ RaceTypeOK'
               /\ HealthTypeOK' /\ TourTypeOK' /\ (panel \in Panels)'
  BY <1>2, <1>3 DEF ConsoleInv, ConsoleTypeOK
<1>5. CASE OnEvents
  BY <1>1, <1>5, ExplorerTypes, Untouched DEF OnEvents
<1>6. CASE OnDlq
  BY <1>1, <1>6, DeadTypes, Untouched DEF OnDlq, DlqFrame
<1>7. CASE OnSend
  BY <1>1, <1>7, SendTypes, Untouched DEF OnSend, SendFrame
<1>8. CASE OnRace
  BY <1>1, <1>8, RaceTypes, Untouched DEF OnRace
<1>9. CASE OnMetrics
  <2>1. BrowserTypeOK'
    <3>1. CASE SwitchTab
      BY <1>1, <3>1 DEF SwitchTab, Move, BrowserTypeOK, LinksAssumption
    <3>2. CASE UNCHANGED browserVars
      BY <3>2, Untouched
    <3> QED BY <1>9, <3>1, <3>2 DEF OnMetrics, ScrapesNext, Count, Restart, ScrapeTick,
               ScrapeTabSwitch, ScrapeRead, ScrapeLands
  <2> QED BY <1>9, <2>1, Untouched DEF OnMetrics
<1>10. CASE OnOverview
  BY <1>1, <1>10, HealthTypes, Untouched DEF OnOverview, OverviewFrame
<1>11. CASE OnHow
  BY <1>1, <1>11, TourTypes, Untouched DEF OnHow
<1>12. CASE PageRenders
  BY <1>12, PageRendered DEF ConsoleInv, ConsoleTypeOK
<1>13. CASE PageOpens
  BY <1>1, <1>13, PagesOpen
<1>14. CASE LinkFollowed
  <2>1. BrowserTypeOK'
    BY <1>1, <1>14, LinksAssumption DEF LinkFollowed, FollowLink, Move, BrowserTypeOK
  <2> QED BY <1>14, <2>1, Untouched DEF LinkFollowed, pagesVars
<1>15. CASE UNCHANGED vars
  BY <1>15, Untouched DEF vars, pagesVars
<1> QED BY <1>5, <1>6, <1>7, <1>8, <1>9, <1>10, <1>11, <1>12, <1>13, <1>14, <1>15 DEF Next

\* Every page's state is what its components can render, whatever address is
\* written, linked to or gone back to, and however answers overlap.
THEOREM ConsoleTypeCorrect == Spec => []ConsoleTypeOK
<1>1. ConsoleInv => ConsoleTypeOK
  BY DEF ConsoleInv
<1> QED BY <1>1, ConsoleStart, ConsoleStep, PTL DEF Spec

=============================================================================
