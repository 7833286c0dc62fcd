------------------------------ MODULE SendPage ------------------------------
(***************************************************************************)
(* The send page: pages/Send.tsx, Composer, PresetBar, ResponsePanel and   *)
(* DeliveryTracker, over the API, the topic and the table they talk about. *)
(*                                                                         *)
(* One send is in flight at a time, but the tracker of the one before may  *)
(* still be polling when the next is answered.  The way of an event is     *)
(* kept as the set of places it is at; Ingest, Consumer and Pipeline have  *)
(* its steps.                                                              *)
(***************************************************************************)
EXTENDS Browser, Validation

CONSTANTS
  SendIds,    \* event ids
  InitialId,  \* the one the composer opens with
  Drafts,     \* the forms that may be typed, Clean among them
  MaxSends    \* bound: sends during one visit, and edits only before the last

VARIABLES
  composer,   \* [id, form, checks]: the draft, and whether it is checked
  sending,    \* the request in flight, if any
  outcome,    \* what the page knows of the last send answered
  tracker,    \* [id, readable, due, polls, timer, late, found, gaveUp]
  places,     \* where each event is: a subset of {"topic", "stored", "dead"}
  sends       \* what MaxSends bounds

sendVars == <<composer, sending, outcome, tracker, places, sends>>

ASSUME SendAssumption ==
  /\ 0 \notin SendIds
  /\ InitialId \in SendIds
  /\ Clean \in Drafts /\ Drafts \subseteq DraftForms
  /\ MaxSends \in Nat

NoRequest == [id |-> 0, form |-> Clean, checked |-> FALSE]
NoOutcome == [id |-> 0, form |-> Clean, checked |-> FALSE, status |-> -1]
NoTracker == [id |-> 0, readable |-> TRUE, due |-> FALSE, polls |-> {}, timer |-> FALSE, late |-> FALSE,
              found |-> 0, gaveUp |-> FALSE]

Ids == SendIds \cup {0}
Requests == [id : Ids, form : DraftForms, checked : BOOLEAN]

SendTypeOK ==
  /\ composer \in [id : SendIds, form : DraftForms, checks : BOOLEAN]
  /\ sending \in Requests
  /\ outcome \in [id : Ids, form : DraftForms, checked : BOOLEAN, status : Int]
  /\ tracker \in [id : Ids, readable : BOOLEAN, due : BOOLEAN, polls : SUBSET Ids,
                  timer : BOOLEAN, late : BOOLEAN, found : Ids, gaveUp : BOOLEAN]
  /\ places \in [SendIds -> SUBSET {"topic", "stored", "dead"}]
  /\ sends \in 0..MaxSends

\* The page as it opens.  INITIAL is built once per load, so its event may be
\* stored since an earlier visit.
Composing == [id |-> InitialId, form |-> Clean, checks |-> TRUE]
PlacesOn(route) ==
  {[id \in SendIds |-> IF id = InitialId THEN before ELSE {}] :
     before \in IF route = "send" THEN {{}, {"stored"}} ELSE {{}}}

SendBlank ==
  /\ composer = Composing /\ sending = NoRequest /\ outcome = NoOutcome
  /\ tracker = NoTracker /\ places \in PlacesOn(seen.route) /\ sends = 0

SendOpens ==
  /\ composer' = Composing /\ sending' = NoRequest /\ outcome' = NoOutcome
  /\ tracker' = NoTracker /\ places' \in PlacesOn(seen'.route) /\ sends' = 0

---------------------------------------------------------------------------
(* The composer *)

InvalidPresets ==
  {Deviation("event_type", "undotted"), Deviation("event_id", "bad"),
   Deviation("payload", "no object"), Deviation("payload", "oversized")}

\* A realistic event is checked; one that breaks a rule turns the checks off.
PickPreset ==
  /\ sends < MaxSends
  /\ \E id \in SendIds, form \in ({Clean} \cup InvalidPresets) \cap Drafts :
       composer' = [id |-> id, form |-> form, checks |-> form \notin InvalidPresets]
  /\ UNCHANGED <<sending, outcome, tracker, places, sends, browserVars>>

EditDraft ==
  /\ sends < MaxSends
  /\ \E id \in SendIds, form \in Drafts :
       composer' = [composer EXCEPT !.id = id, !.form = form]
  /\ UNCHANGED <<sending, outcome, tracker, places, sends, browserVars>>

ToggleChecks ==
  /\ sends < MaxSends
  /\ composer' = [composer EXCEPT !.checks = ~@]
  /\ UNCHANGED <<sending, outcome, tracker, places, sends, browserVars>>

---------------------------------------------------------------------------
(* One send *)

\* "Send event", or "Send again", which needs a valid draft whatever the box.
Send ==
  LET valid == validateDraft(composer.form) = {} IN
  /\ sends < MaxSends /\ sends' = sends + 1
  /\ sending = NoRequest
  /\ \/ composer.checks => valid
     \/ valid /\ outcome # NoOutcome
  /\ sending' = [id |-> composer.id, form |-> composer.form,
                 checked |-> valid]
  /\ UNCHANGED <<composer, outcome, tracker, places, browserVars>>

\* What POST /events may answer, and whether it published: [status, published].
\* The pre-check is skipped when it fails; a publish that fails or times out,
\* and an answer that is lost, leave open what was done (status 0).
Answers(request) ==
  LET answer(status, published) == [status |-> status, published |-> published]
      lost == {answer(0, FALSE)}
  IN IF ~EventCreate(toRequestBody(request.form)) THEN {answer(422, FALSE)} \cup lost
     ELSE {answer(status, TRUE) : status \in {202, 503, 0}}
          \cup {answer(503, FALSE)} \cup lost
          \cup (IF "stored" \in places[request.id] THEN {answer(409, FALSE)} ELSE {})

\* The answer, as setOutcome keeps it, and the effect it makes due.
SendAnswered ==
  /\ sending # NoRequest
  /\ \E answer \in Answers(sending) :
       /\ places' = IF answer.published
                    THEN [places EXCEPT ![sending.id] = @ \cup {"topic"}] ELSE places
       /\ outcome' = [id |-> sending.id, form |-> sending.form,
                      checked |-> sending.checked, status |-> answer.status]
  /\ sending' = NoRequest
  /\ tracker' = [tracker EXCEPT !.due = TRUE]
  /\ UNCHANGED <<composer, sends, browserVars>>

\* The consumer takes an event off the topic: stored, or dead lettered.
Consume ==
  /\ \E id \in SendIds, to \in {"stored", "dead"} :
       /\ "topic" \in places[id]
       /\ places' = [places EXCEPT ![id] = (@ \ {"topic"}) \cup {to}]
  /\ UNCHANGED <<composer, sending, outcome, tracker, sends, browserVars>>

---------------------------------------------------------------------------
(* The delivery tracker *)

\* GET /events/{id} takes the id as it was typed.
Readable(id) == id.pad = "none" /\ id.text \in Schema["event_id"]

\* The tracker of the last outcome: its id as typed, asked for if accepted.
Follow ==
  [NoTracker EXCEPT !.id = outcome.id, !.readable = Readable(outcome.form["event_id"]),
                    !.polls = IF outcome.status = 202 THEN {outcome.id} ELSE {}]

\* Variant: an effect without a cleanup.
TrackerEffectKeepingPolls ==
  /\ tracker.due
  /\ tracker' = [Follow EXCEPT !.polls = @ \cup tracker.polls]
  /\ UNCHANGED <<composer, sending, outcome, places, sends, browserVars>>

\* Cancel the polls and the timer of the outcome before, and follow this one.
TrackerEffect ==
  /\ tracker.due
  /\ tracker' = Follow
  /\ UNCHANGED <<composer, sending, outcome, places, sends, browserVars>>

\* GIVE_UP_MS after sentAt.
TrackerLate ==
  /\ outcome.status = 202 /\ ~tracker.due
  /\ ~tracker.late
  /\ tracker' = [tracker EXCEPT !.late = TRUE]
  /\ UNCHANGED <<composer, sending, outcome, places, sends, browserVars>>

\* Variant: a poll that goes on for as long as there is no row.
TrackerPolledForever ==
  \E id \in tracker.polls :
    /\ \/ /\ "stored" \in places[id] /\ tracker.readable
          /\ tracker' = [tracker EXCEPT !.polls = @ \ {id}, !.found = id]
       \/ tracker' = [tracker EXCEPT !.polls = @ \ {id}, !.timer = TRUE]
    /\ UNCHANGED <<composer, sending, outcome, places, sends, browserVars>>

\* GET /events/{id} for the id as it was typed: the row, if it is there, or
\* null, which is also what a request that fails gives.
TrackerPolled ==
  \E id \in tracker.polls :
    /\ \/ /\ "stored" \in places[id] /\ tracker.readable
          /\ tracker' = [tracker EXCEPT !.polls = @ \ {id}, !.found = id]
       \/ tracker' = [tracker EXCEPT !.polls = @ \ {id}, !.gaveUp = tracker.late,
                                     !.timer = ~tracker.late]
    /\ UNCHANGED <<composer, sending, outcome, places, sends, browserVars>>

TrackerTimer ==
  /\ tracker.timer
  /\ tracker' = [tracker EXCEPT !.timer = FALSE, !.polls = {tracker.id}]
  /\ UNCHANGED <<composer, sending, outcome, places, sends, browserVars>>

SendNext ==
  \/ PickPreset \/ EditDraft \/ ToggleChecks
  \/ Send \/ SendAnswered \/ Consume
  \/ TrackerEffect \/ TrackerLate \/ TrackerPolled \/ TrackerTimer

\* The "Validated", "Published" and "Stored" steps under the form.
deliverySteps ==
  LET status == outcome.status
      accepted == status = 202
  IN [validated |-> IF status = 422 THEN "failed" ELSE "done",
      published |-> CASE accepted -> "done"
                      [] status = 503 -> "failed"
                      [] OTHER -> "skipped",
      stored |-> CASE ~accepted -> "skipped"
                   [] accepted /\ tracker.found # 0 -> "done"
                   [] accepted /\ tracker.found = 0 -> IF tracker.gaveUp THEN "failed" ELSE "active"]

---------------------------------------------------------------------------
(* Properties *)

\* Once the tracker has taken up the last send, what the steps say is so: an
\* event said to be published has reached the topic, one said to be stored is
\* stored under the id of this send, not found by a poll for the send before,
\* a 409 is about a stored event, and giving up comes after the time is over
\* (DeliveryTracker.tsx:35-64, 69-102, Send.tsx:41-62).
TrackerTellsTruth ==
  outcome # NoOutcome /\ ~tracker.due =>
    /\ deliverySteps.published = "done" => places[outcome.id] # {}
    /\ deliverySteps.stored = "done" =>
         tracker.found = outcome.id /\ "stored" \in places[outcome.id]
    /\ deliverySteps.stored = "failed" => tracker.late
    /\ outcome.status = 409 => "stored" \in places[outcome.id]

\* "Checked against the same rules as the API's Pydantic model" (Send.tsx:69),
\* as far as it goes.  Whatever was edited or ticked since, a send that passed
\* the browser's rules is answered 422 exactly if it is of an id or a payload
\* that only they take, and one that did not pass is let in only if it is of a
\* form that only the schema takes (validate.ts:4-11, 28-32, schemas/events.py).
RefusalsAgree ==
  outcome # NoOutcome /\ outcome.status # 0 =>
    IF outcome.checked
    THEN outcome.status = 422 <=> Overrated(toRequestBody(outcome.form))
    ELSE outcome.status # 422 => Underrated(toRequestBody(outcome.form))

\* Nothing of the tracker is under way.
TrackerIdle == tracker.polls = {} /\ ~tracker.timer /\ ~tracker.due

=============================================================================
