------------------------------ MODULE Console ------------------------------
(***************************************************************************)
(* The browser console as a whole (frontend/src/App.tsx): one page mounted *)
(* at a time, by the route last seen.  Leaving a page unmounts it: its     *)
(* state is lost, its effects are cleaned up, and what it had in flight    *)
(* has no further effect on the screen.  So at any time one page has a     *)
(* state of its own, and the others are as they open.                      *)
(*                                                                         *)
(* The stream page is the module Stream.  The send page and the race, two  *)
(* panels of one page that share the draft and nothing else, are followed  *)
(* one at a time.                                                          *)
(***************************************************************************)
EXTENDS Explorer, DeadLetters, SendPage, Race, Scrapes, HealthPoll, Tour

VARIABLE panel   \* which panel of the send page is followed

pagesVars == <<explorerVars, deadVars, sendVars, raceVars, scrapesVars,
               healthVars, tourVars, panel>>
vars == <<browserVars, pagesVars>>

Panels == {"delivery", "race"}

PanelsOn(route) == IF route = "send" THEN Panels ELSE {"delivery"}

Init ==
  /\ BrowserInit
  /\ ExplorerBlank /\ DeadBlank /\ SendBlank /\ RaceBlank
  /\ ScrapesBlank /\ HealthBlank /\ TourBlank
  /\ panel \in PanelsOn(seen.route)

---------------------------------------------------------------------------
(* The steps of the page that is mounted *)

OnEvents ==
  /\ seen.route = "events" /\ ExplorerNext
  /\ UNCHANGED <<deadVars, sendVars, raceVars, scrapesVars, healthVars, tourVars, panel>>

DlqFrame ==
  /\ seen.route = "dlq"
  /\ UNCHANGED <<explorerVars, sendVars, raceVars, scrapesVars, healthVars, tourVars, panel>>
OnDlq == DlqFrame /\ DeadNext

SendFrame ==
  /\ seen.route = "send" /\ panel = "delivery"
  /\ UNCHANGED <<explorerVars, deadVars, raceVars, scrapesVars, healthVars, tourVars, panel>>
OnSend == SendFrame /\ SendNext

OnRace ==
  /\ seen.route = "send" /\ panel = "race" /\ RaceNext
  /\ UNCHANGED <<browserVars, explorerVars, deadVars, sendVars, scrapesVars, healthVars,
                 tourVars, panel>>

OnMetrics ==
  /\ seen.route = "metrics" /\ ScrapesNext
  /\ UNCHANGED <<explorerVars, deadVars, sendVars, raceVars, healthVars, tourVars, panel>>

OverviewFrame ==
  /\ seen.route = "overview"
  /\ UNCHANGED <<explorerVars, deadVars, sendVars, raceVars, scrapesVars, tourVars, panel>>
OnOverview == OverviewFrame /\ HealthNext

OnHow ==
  /\ seen.route = "how" /\ TourNext
  /\ UNCHANGED <<explorerVars, deadVars, sendVars, raceVars, scrapesVars, healthVars, panel>>

---------------------------------------------------------------------------
(* The address *)

\* A hashchange: the page renders with new parameters.
PageRenders ==
  /\ HashChange
  /\ IF seen.route = "how" THEN TourSeen ELSE UNCHANGED tourVars
  /\ UNCHANGED <<explorerVars, deadVars, sendVars, raceVars, scrapesVars, healthVars, panel>>

\* Another route is seen: the page is unmounted, the next one opens.
PageOpens ==
  /\ FollowLink /\ seen'.route # seen.route
  /\ ExplorerOpens /\ DeadOpens /\ SendOpens /\ RaceOpens
  /\ ScrapesOpen /\ HealthOpens /\ TourOpens
  /\ panel' \in PanelsOn(seen'.route)

LinkFollowed == FollowLink /\ seen'.route = seen.route /\ UNCHANGED pagesVars

Next ==
  \/ OnEvents \/ OnDlq \/ OnSend \/ OnRace \/ OnMetrics \/ OnOverview \/ OnHow
  \/ PageRenders \/ PageOpens \/ LinkFollowed

---------------------------------------------------------------------------

HealthProgress ==
  \E n \in DOMAIN polls : ReadKafka(n) \/ ProbeDatabase(n) \/ HealthAnswered(n)

\* The browser delivers its events, runs effects and fires timers, and every
\* request is answered or fails in the end; of the user nothing is assumed.
Fairness ==
  /\ WF_vars(PageRenders)
  /\ WF_vars(DlqFrame /\ (DlqEffect \/ SummaryEffect \/ SummaryAnswer))
  /\ WF_vars(DlqFrame /\ DlqTick) /\ WF_vars(DlqFrame /\ DlqAnswer)
  /\ WF_vars(SendFrame /\ (SendAnswered \/ TrackerEffect))
  /\ WF_vars(SendFrame /\ (TrackerPolled \/ TrackerTimer))
  /\ WF_vars(SendFrame /\ TrackerLate)
  /\ WF_vars(OverviewFrame /\ HealthTick) /\ WF_vars(OverviewFrame /\ HealthProgress)

Spec == Init /\ [][Next]_vars /\ Fairness

---------------------------------------------------------------------------
(* Properties *)

\* Every page's state is what its components can render; no offset, count or
\* total is negative, whatever the address says.
ConsoleTypeOK ==
  /\ BrowserTypeOK
  /\ ExplorerTypeOK /\ DeadTypeOK /\ SendTypeOK /\ RaceTypeOK
  /\ ScrapesTypeOK /\ HealthTypeOK /\ TourTypeOK
  /\ panel \in Panels

\* The dead letter page never stays behind for good: however requests overlap
\* and whichever answer lands last, the rows under the current filters and the
\* reasons above them come to agree with the table, or the page says that the
\* request failed (DLQ.tsx:29-49, ReasonSummary.tsx:22-37).
DlqCatchesUp == []<>(seen.route = "dlq" => DlqFresh)

\* The tracker never polls for ever: each send it follows ends with the row
\* found or with giving up (DeliveryTracker.tsx:35-64).
TrackerSettles == []<>TrackerIdle

\* While the overview is on screen its badge comes to be that of the
\* dependencies, after polls that overlap, land in any order or fail, and
\* after the tab has been hidden (usePolling.ts:31-50, HealthPanel.tsx:51-64,
\* health.py:42-60).
HealthSettles == []<>(seen.route = "overview" /\ visible => HealthCurrent)

=============================================================================
