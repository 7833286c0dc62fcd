-------------------------------- MODULE Tour --------------------------------
(***************************************************************************)
(* The guided tour: pages/HowItWorks.tsx, components/GuidedTour.tsx and    *)
(* the steps of lib/tour.ts, each a request against the running stack.     *)
(*                                                                         *)
(* The step shown is in the address and may change while a step runs; the  *)
(* event of step 1 is kept in a ref that later steps read.  Ending the     *)
(* tour or leaving the page drops both, and whatever is still running.     *)
(***************************************************************************)
EXTENDS Browser, Sequences

CONSTANTS
  TourSteps,   \* TOUR: what each step does
  MaxTour      \* bound: events sent in one visit

TourKinds == {"send", "find", "resend", "race", "break", "dlq"}

ASSUME TourAssumption == TourSteps \in Seq(TourKinds) /\ MaxTour \in Nat

VARIABLES
  tour,        \* [eventId, newest, running, results] of GuidedTour.tsx
  tourPlaces   \* where each event of the tour is: "topic", "stored", "dead"

tourVars == <<tour, tourPlaces>>

\* What stands under a step.
Says == {"nothing", "run step 1 first", "sent", "stored", "not stored", "conflict",
         "refused", "counted", "failed"}

TourIds   == 1..MaxTour
NoResult  == [ok |-> FALSE, says |-> "nothing", event |-> 0]
NoRun     == [step |-> 0, event |-> 0]
TourStart == [eventId |-> 0, newest |-> 0, running |-> NoRun,
              results |-> [step \in DOMAIN TourSteps |-> NoResult]]
Unsent    == [id \in TourIds |-> {}]

TourTypeOK ==
  /\ tour \in [eventId : 0..MaxTour, newest : 0..MaxTour,
               running : [step : 0..Len(TourSteps), event : 0..MaxTour],
               results : [DOMAIN TourSteps ->
                           [ok : BOOLEAN, says : Says, event : 0..MaxTour]]]
  /\ tour.running = NoRun \/ tour.running.step # 0
  /\ tourPlaces \in [TourIds -> SUBSET {"topic", "stored", "dead"}]

TourBlank == tour = TourStart /\ tourPlaces = Unsent
TourOpens == tour' = TourStart /\ tourPlaces' = Unsent

\* tourStep, from 1; 0 when the tour is not running.
tourStep(query) == IF query.tour \in DOMAIN TourSteps THEN query.tour ELSE 0

\* The address changes on this page: without a step the tour is unmounted.
TourSeen ==
  /\ tour' = IF tourStep(hash.query) = 0 THEN [TourStart EXCEPT !.newest = tour.newest] ELSE tour
  /\ tourPlaces' = tourPlaces

\* Start, Back, Next, and End or Finish.
TourTurn ==
  LET step == tourStep(seen.query) IN
  /\ \E to \in {step - 1, step + 1, 0} \cap 0..Len(TourSteps) : setParams([tour |-> to])
  /\ UNCHANGED tourVars

\* Run: step 1 and the race take a new event id, the others the one of step 1,
\* which a run of step 1 replaces before its request is answered.
TourRun ==
  LET step  == tourStep(seen.query)
      kind  == TourSteps[step]
      fresh == kind \in {"send", "race"}
      event == IF fresh THEN tour.newest + 1 ELSE tour.eventId
  IN /\ step # 0 /\ tour.running = NoRun
     /\ fresh => tour.newest < MaxTour
     /\ tour' = [tour EXCEPT !.newest = IF fresh THEN event ELSE @,
                             !.eventId = IF kind = "send" THEN event ELSE @,
                             !.running = [step |-> step, event |-> event]]
     /\ UNCHANGED <<tourPlaces, browserVars>>

\* What a step may report of its event, and what its request does: [ok, says,
\* publishes].  POST answers 202, 409 when the pre-check finds the row, or
\* fails with the event published or not; a race ends with a look for the row; a bad type is refused; the DLQ is only read.
Outcomes(kind, event) ==
  LET report(ok, says, publishes) == [ok |-> ok, says |-> says, publishes |-> publishes]
      known(outcomes) ==
        IF event = 0 THEN {report(FALSE, "run step 1 first", FALSE)} ELSE outcomes
      failed == {report(FALSE, "failed", publishes) : publishes \in BOOLEAN}
      stored == event # 0 /\ "stored" \in tourPlaces[event]
  IN CASE kind = "send"   -> {report(TRUE, "sent", TRUE)} \cup failed
       [] kind = "find"   -> known({report(stored, IF stored THEN "stored" ELSE "not stored", FALSE),
                                    report(FALSE, "not stored", FALSE)})
       [] kind = "resend" -> known({report(TRUE, "sent", TRUE)} \cup failed
                               \cup (IF stored THEN {report(TRUE, "conflict", FALSE)} ELSE {}))
       [] kind = "race"   -> {report(stored, IF stored THEN "stored" ELSE "not stored", FALSE),
                              report(FALSE, "not stored", FALSE)}
       [] kind = "break"  -> {report(TRUE, "refused", FALSE), report(FALSE, "failed", FALSE)}
       [] kind = "dlq"    -> {report(TRUE, "counted", FALSE), report(FALSE, "failed", FALSE)}

\* The copies of a race reach the topic long before its row is looked for.
TourRaceSent ==
  LET run == tour.running IN
  /\ run # NoRun /\ TourSteps[run.step] = "race"
  /\ tourPlaces[run.event] = {}
  /\ tourPlaces' = [tourPlaces EXCEPT ![run.event] = {"topic"}]
  /\ UNCHANGED <<tour, browserVars>>

\* Variant: the result goes to the step on screen.
TourDoneOnScreen ==
  LET run == tour.running IN
  /\ run # NoRun /\ tourStep(seen.query) # 0
  /\ \E outcome \in Outcomes(TourSteps[run.step], run.event) :
       /\ tour' = [tour EXCEPT !.running = NoRun, !.results = [@ EXCEPT ![tourStep(seen.query)] =
                      [ok |-> outcome.ok, says |-> outcome.says, event |-> run.event]]]
       /\ tourPlaces' = IF outcome.publishes
                        THEN [tourPlaces EXCEPT ![run.event] = @ \cup {"topic"}] ELSE tourPlaces
  /\ UNCHANGED browserVars

\* The result of the step that was run, whichever is on screen by now.
TourDone ==
  LET run == tour.running IN
  /\ run # NoRun
  /\ \E outcome \in Outcomes(TourSteps[run.step], run.event) :
       /\ tour' = [tour EXCEPT !.running = NoRun, !.results = [@ EXCEPT ![run.step] =
                      [ok |-> outcome.ok, says |-> outcome.says, event |-> run.event]]]
       /\ tourPlaces' = IF outcome.publishes
                        THEN [tourPlaces EXCEPT ![run.event] = @ \cup {"topic"}] ELSE tourPlaces
  /\ UNCHANGED browserVars

TourConsume ==
  /\ \E id \in TourIds :
       /\ "topic" \in tourPlaces[id]
       /\ \E to \in {"stored", "dead"} :
            tourPlaces' = [tourPlaces EXCEPT ![id] = (@ \ {"topic"}) \cup {to}]
  /\ UNCHANGED <<tour, browserVars>>

TourNext == TourTurn \/ TourRun \/ TourRaceSent \/ TourDone \/ TourConsume

---------------------------------------------------------------------------
(* Properties *)

\* "The tour can never show a result that did not happen" (tour.ts:43-44):
\* what stands under a step is of the kind of that step and about the event it
\* was run for, and that event was sent, is stored or was there to conflict
\* with as it says, although steps are run again, left while they run, and
\* joined by the event of another step (GuidedTour.tsx:17-37, tour.ts:45-135).
TourTellsTruth ==
  \A step \in DOMAIN TourSteps :
    LET result == tour.results[step]
        says   == {"sent", "stored", "conflict"} \cap {result.says}
    IN /\ says # {} => tourPlaces[result.event] # {}
       /\ result.says \in {"stored", "conflict"} => "stored" \in tourPlaces[result.event]
       /\ TourSteps[step] = "send" => result.says \in {"nothing", "sent", "failed"}
       /\ TourSteps[step] = "find" => result.says \notin {"sent", "conflict", "failed"}

=============================================================================
