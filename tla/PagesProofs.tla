---------------------------- MODULE PagesProofs ----------------------------
(***************************************************************************)
(* What the pages of the console show is so, for every value of the        *)
(* constants.  Each page has an inductive invariant that says what its     *)
(* requests in flight are about; ConsoleProofs has the types and the       *)
(* steps of the console seen from one page.                                *)
(***************************************************************************)
EXTENDS ConsoleProofs

-----------------------------------------------------------------------------
(* The events explorer *)

\* The effect's cleanup leaves requests of its last run only.
ExplorerInv ==
  /\ events.requests \subseteq {events.key}
  /\ events.key = NoKey => events.requests = {}
  /\ drawer.requests \subseteq {drawer.id}
  /\ ExplorerShowsWhatIsAsked

LEMMA ExplorerInvOpened == ExplorerBlank => ExplorerInv
BY DEF ExplorerBlank, EventsBlank, DrawerBlank, ExplorerInv, ExplorerShowsWhatIsAsked

LEMMA ExplorerInvStep == ConsoleInv /\ ExplorerInv /\ [Next]_vars => ExplorerInv'
<1> SUFFICES ASSUME ConsoleInv, ExplorerInv, [Next]_vars PROVE ExplorerInv'
  OBVIOUS
<1>1. ExplorerTypeOK
  BY DEF ConsoleInv, ConsoleTypeOK
<1>2. (ExplorerBlank => ExplorerInv)'
  BY ExplorerInvOpened, PTL
<1>3. CASE ExplorerOpens
  BY <1>2, <1>3 DEF ExplorerOpens, ExplorerBlank, EventsBlank, DrawerBlank, NoPage, NoKey
<1>4. CASE UNCHANGED explorerVars
  BY <1>4 DEF explorerVars, ExplorerInv, ExplorerShowsWhatIsAsked
<1>5. CASE EventsEffect
  <2>1. queryKey(seen.query) # NoKey
    BY LimitTyped DEF queryKey, NoKey
  <2>2. /\ events'.key = queryKey(seen.query) /\ events'.requests = {queryKey(seen.query)}
        /\ events'.loading = TRUE /\ drawer' = drawer
    BY <1>1, <1>5 DEF EventsEffect, ExplorerTypeOK
  <2> QED BY <2>1, <2>2 DEF ExplorerInv, ExplorerShowsWhatIsAsked, NoKey
<1>6. CASE EventsAnswer
  <2>1. PICK key \in events.requests :
          \/ \E total \in 0..MaxTotal :
               events' = [events EXCEPT !.requests = @ \ {key}, !.loading = FALSE,
                            !.shown = [key |-> key, total |-> total], !.failed = NoKey]
          \/ events' = [events EXCEPT !.requests = @ \ {key}, !.loading = FALSE,
                          !.failed = key]
    BY <1>6 DEF EventsAnswer
  <2>2. key = events.key /\ key # NoKey
    BY DEF ExplorerInv
  <2> DEFINE rest == events.requests \ {key}
  <2>3. rest = {}
    BY <2>2 DEF ExplorerInv
  <2> HIDE DEF rest
  <2>4. /\ events'.key = events.key /\ events'.requests = {}
        /\ \/ events'.failed = NoKey /\ events'.shown.key = key
           \/ events'.failed = key
    <3>1. CASE \E total \in 0..MaxTotal :
               events' = [events EXCEPT !.requests = rest, !.loading = FALSE,
                            !.shown = [key |-> key, total |-> total], !.failed = NoKey]
      BY <1>1, <2>3, <3>1 DEF ExplorerTypeOK
    <3>2. CASE events' = [events EXCEPT !.requests = rest, !.loading = FALSE, !.failed = key]
      BY <1>1, <2>3, <3>2 DEF ExplorerTypeOK
    <3> QED BY <2>1, <3>1, <3>2 DEF rest
  <2>5. drawer' = drawer
    BY <1>6 DEF EventsAnswer
  <2> QED BY <2>2, <2>4, <2>5 DEF ExplorerInv, ExplorerShowsWhatIsAsked, NoKey
<1>7. CASE DrawerEffect
  BY <1>1, <1>7 DEF DrawerEffect, DrawerBlank, ExplorerTypeOK, ExplorerInv,
                    ExplorerShowsWhatIsAsked
<1>8. CASE DrawerAnswer
  <2>1. PICK id \in drawer.requests :
          \/ drawer' = [drawer EXCEPT !.requests = @ \ {id}, !.shown = id]
          \/ drawer' = [drawer EXCEPT !.requests = @ \ {id}, !.failed = id]
    BY <1>8 DEF DrawerAnswer
  <2>2. id = drawer.id
    BY DEF ExplorerInv
  <2>3. /\ drawer'.id = drawer.id /\ drawer'.requests \subseteq {drawer.id}
        /\ {drawer'.shown, drawer'.failed} \subseteq {0, drawer.id}
    <3> DEFINE rest == drawer.requests \ {id}
    <3>1. rest \subseteq {drawer.id} /\ {drawer.shown, drawer.failed} \subseteq {0, drawer.id}
      BY DEF ExplorerInv, ExplorerShowsWhatIsAsked
    <3> HIDE DEF rest
    <3>2. CASE drawer' = [drawer EXCEPT !.requests = rest, !.shown = id]
      BY <1>1, <2>2, <3>1, <3>2 DEF ExplorerTypeOK
    <3>3. CASE drawer' = [drawer EXCEPT !.requests = rest, !.failed = id]
      BY <1>1, <2>2, <3>1, <3>3 DEF ExplorerTypeOK
    <3> QED BY <2>1, <3>2, <3>3 DEF rest
  <2>4. events' = events
    BY <1>8 DEF DrawerAnswer
  <2> QED BY <2>3, <2>4 DEF ExplorerInv, ExplorerShowsWhatIsAsked
<1> QED BY <1>3, <1>4, <1>5, <1>6, <1>7, <1>8, ExplorerSteps
        DEF ExplorerNext, FilterEvents, TurnEventsPage, BackToPageOne, SelectEvent, CloseDrawer

\* Rows, errors and drawers of the explorer are the answers to what was asked
\* last, however many questions are overtaken by others.
THEOREM ExplorerShowsWhatIsAskedHolds == Spec => []ExplorerShowsWhatIsAsked
<1>1. Init => ExplorerInv
  BY ExplorerInvOpened DEF Init
<1>2. ExplorerInv => ExplorerShowsWhatIsAsked
  BY DEF ExplorerInv
<1> QED BY <1>1, <1>2, ConsoleStart, ConsoleStep, ExplorerInvStep, PTL DEF Spec

-----------------------------------------------------------------------------
(* The race of copies *)

\* Until a reading is made there is none; after that the counter, which only
\* a restart takes back, has not run ahead of what was dropped.
RaceInv ==
  /\ RaceTypeOK
  /\ race.phase \in {"idle", "before", "sending", "after"} => ~race.after.read
  /\ race.phase \in {"idle", "before"} => ~race.before.read
  /\ race.before.read =>
       /\ race.before.dropped <= dropped
       /\ counter - race.before.value <= dropped - race.before.dropped
  /\ Skipped.known => Skipped.count <= race.after.dropped - race.before.dropped
  /\ race.rowFound => stored

LEMMA RaceInvOpened == RaceBlank => RaceInv
BY RaceOpened DEF RaceBlank, RaceStart, NoReading, Skipped, RaceInv

LEMMA RaceInvStep == RaceInv /\ [Next]_vars => RaceInv'
<1> SUFFICES ASSUME RaceInv, [Next]_vars PROVE RaceInv'
  OBVIOUS
<1>1. RaceTypeOK
  BY DEF RaceInv
<1>2. (RaceBlank => RaceInv)'
  BY RaceInvOpened, PTL
<1>3. CASE RaceOpens
  BY <1>2, <1>3 DEF RaceOpens, RaceBlank, RaceStart, Unanswered, NoReading
<1>4. CASE UNCHANGED raceVars
  BY <1>4 DEF raceVars, RaceInv, RaceTypeOK, Skipped
<1>5. CASE RaceNext
  <2>1. RaceTypeOK'
    BY <1>1, <1>5, RaceTypes
  <2> USE <1>1, <2>1 DEF RaceInv, RaceTypeOK, Skipped
  <2>2. CASE StartRace
    BY <2>2 DEF StartRace
  <2>3. CASE ReadBefore
    <3>1. PICK reading \in {Reading, Unreachable} :
            race' = [race EXCEPT !.phase = "sending", !.before = reading]
      BY <2>3 DEF ReadBefore
    <3>2. /\ race'.phase = "sending" /\ race'.before = reading /\ race'.after = race.after
          /\ race'.rowFound = race.rowFound
      BY <3>1
    <3>3. ~race'.after.read /\ race'.rowFound = race.rowFound
      BY <2>3, <3>2 DEF ReadBefore
    <3>4. UNCHANGED <<stored, counter, dropped>>
      BY <2>3 DEF ReadBefore
    <3>5. race'.before.read => race'.before.value = counter /\ race'.before.dropped = dropped
      BY <3>1, <3>2 DEF Reading, Unreachable
    <3>6. ~(race'.before.read /\ race'.after.read) /\ race'.phase = "sending"
      BY <3>2, <3>3
    <3>7. race'.before.read => counter' - race'.before.value = 0 /\ dropped' - race'.before.dropped = 0
                               /\ race'.before.dropped <= dropped'
      BY <3>4, <3>5
    <3>8. race'.rowFound => stored'
      BY <3>3, <3>4
    <3>9. ~(Skipped.known)'
      BY <3>6
    <3> QED BY <3>3, <3>4, <3>6, <3>7, <3>8, <3>9
  <2>4. CASE CopyAnswered
    BY <2>4 DEF CopyAnswered
  <2>5. CASE Settled
    BY <2>5 DEF Settled
  <2>6. CASE ReadAfter
    <3>1. PICK reading \in {Reading, Unreachable} :
            race' = [race EXCEPT !.phase = "row", !.after = reading]
      BY <2>6 DEF ReadAfter
    <3>2. /\ race'.phase = "row" /\ race'.after = reading /\ race'.before = race.before
          /\ race'.rowFound = race.rowFound
      BY <3>1
    <3> QED BY <2>6, <3>1, <3>2 DEF ReadAfter, Reading, Unreachable, Readings
  <2>7. CASE ReadRow
    <3>1. PICK found \in {stored, FALSE} :
            race' = [race EXCEPT !.phase = "done", !.rowFound = found]
      BY <2>7 DEF ReadRow
    <3>2. /\ race'.phase = "done" /\ race'.after = race.after /\ race'.before = race.before
          /\ race'.rowFound = found
      BY <3>1
    <3>3. UNCHANGED <<stored, counter, dropped>>
      BY <2>7 DEF ReadRow
    <3>4. found => stored
      BY Zenon
    <3> QED BY <3>2, <3>3, <3>4
  <2>8. CASE InsertCopy
    BY <2>8 DEF InsertCopy, Readings
  <2>9. CASE OtherDuplicate
    BY <2>9 DEF OtherDuplicate, Readings
  <2>10. CASE ConsumerRestarts
    BY <2>10 DEF ConsumerRestarts, Readings
  <2> QED BY <1>5, <2>2, <2>3, <2>4, <2>5, <2>6, <2>7, <2>8, <2>9, <2>10 DEF RaceNext
<1> QED BY <1>3, <1>4, <1>5, RaceSteps

\* The race never claims more duplicates than were dropped, nor a row that is
\* not there, for any number of copies and whatever else the consumer drops.
THEOREM RaceNeverOverclaimsHolds == Spec => []RaceNeverOverclaims
<1>1. Init => RaceInv
  BY RaceInvOpened DEF Init
<1>2. RaceInv => RaceNeverOverclaims
  BY DEF RaceInv, RaceNeverOverclaims
<1> QED BY <1>1, <1>2, RaceInvStep, PTL DEF Spec

-----------------------------------------------------------------------------
(* The dead letter page *)

\* What is in flight is about the filters of the effect's last run, and what
\* is shown is of a table that was no longer than it is now.
DeadInv ==
  /\ \A load \in dlq.loads : load.key = dlq.key
  /\ \/ dlq.shown.key \in {NoDlqKey, dlq.key}
     \/ dlq.failed
     \/ \E load \in dlq.loads : load.key = dlq.key
  /\ dlq.shown.at <= failures

\* The browser's check and the schema, of a row or of a body that both have
\* strings in: which fields each refuses.
LEMMA DraftChecked ==
  ASSUME NEW draft
  PROVE  validateDraft(draft) = {} <=> \A field \in Fields : draft[field].text \in Browser[field]
BY DEF validateDraft

\* A row the browser's rules pass is let in by the schema just if it is not
\* overrated, and one they do not pass only if it is underrated.
LEMMA SidesPart ==
  ASSUME NEW raw \in Forms, raw["payload"].is # "absent",
         \A field \in Strings : raw[field].is # "absent"
  PROVE  /\ (\A field \in Fields : raw[field].text \in Browser[field]) =>
              (EventCreate(raw) <=> ~Overrated(raw))
         /\ ~(\A field \in Fields : raw[field].text \in Browser[field]) =>
              (EventCreate(raw) => Underrated(raw))
<1> DEFINE id == raw["event_id"]
           type == raw["event_type"]
           source == raw["source"]
           payload == raw["payload"]
<1>1. /\ id.is \in {"string", "other"} /\ type.is \in {"string", "other"}
      /\ source.is \in {"string", "other"} /\ payload.is # "absent"
      /\ id.pad \in {"none", "some", "much"} /\ type.pad \in {"none", "some", "much"}
      /\ source.pad \in {"none", "some", "much"}
  BY DEF Forms, Values, Strings
<1>2. (\A field \in Fields : raw[field].text \in Browser[field]) <=>
        /\ id.text \in {"good", "lax"} /\ type.text = "good"
        /\ source.text = "good" /\ payload.text \in {"good", "lighter"}
  BY DEF Fields, Strings, Browser
<1>3. EventCreate(raw) <=>
        /\ id.is = "string" /\ type.is = "string" /\ source.is = "string"
        /\ id.pad = "none" /\ type.pad # "much" /\ source.pad # "much"
        /\ id.text \in {"good", "braced"} /\ type.text \in {"good", "wide"}
        /\ \/ source.text \in {"good", "wide"}
           \/ source.text = "empty" /\ source.pad = "some"
        /\ payload.text \in {"good", "heavier"}
  BY <1>1 DEF EventCreate, Fields, Strings, Schema
<1>4. Overrated(raw) <=>
        \/ id.is = "other" \/ type.is = "other" \/ source.is = "other"
        \/ id.pad # "none" \/ type.pad = "much" \/ source.pad = "much"
        \/ id.text = "lax" \/ payload.text = "lighter"
  BY DEF Overrated, Strings
<1>5. Underrated(raw) <=>
        \/ id.text = "braced" \/ type.text = "wide"
        \/ source.text \in {"wide", "empty"} \/ payload.text = "heavier"
  BY DEF Underrated
<1> HIDE DEF id, type, source, payload
<1> QED BY <1>1, <1>2, <1>3, <1>4, <1>5

\* The console's verdict on a stored row, and the script's.
LEMMA VerdictsPart ==
  ASSUME NEW raw \in Forms
  PROVE  /\ replayVerdict(raw) => (scriptReplays(raw) <=> ~Overrated(raw))
         /\ ~replayVerdict(raw) => (scriptReplays(raw) => Underrated(raw))
<1> DEFINE draft == [field \in Fields |->
                       IF field = "payload" THEN raw[field] ELSE String(raw[field])]
           Passed == \A field \in Fields : raw[field].text \in Browser[field]
           Whole == \A field \in Fields : raw[field].is # "absent"
<1>1. \A field \in Fields : draft[field].text = raw[field].text
  BY DEF Fields, Strings, String, Forms, Values
<1>2. replayVerdict(raw) <=> Whole /\ validateDraft(draft) = {}
  BY DEF replayVerdict
<1> HIDE DEF draft
<1>3. validateDraft(draft) = {} <=> Passed
  BY <1>1, DraftChecked
<1>4. Whole => /\ Passed => (EventCreate(raw) <=> ~Overrated(raw))
               /\ ~Passed => (EventCreate(raw) => Underrated(raw))
  BY SidesPart DEF Fields
<1>5. ~Whole => ~EventCreate(raw)
  BY DEF Fields, EventCreate
<1> HIDE DEF Passed, Whole
<1> QED BY <1>2, <1>3, <1>4, <1>5 DEF scriptReplays

LEMMA DeadInvSuffices == DeadTypeOK /\ DeadInv => DlqTellsTruth
<1> SUFFICES ASSUME DeadTypeOK, DeadInv PROVE DlqTellsTruth
  OBVIOUS
<1>1. \A i \in shownRows : i \in DOMAIN Failures
  <2>1. CASE dlq.shown.at = Nothing
    BY <2>1 DEF shownRows
  <2>2. CASE dlq.shown.at # Nothing
    <3>1. shownRows \subseteq 1..dlq.shown.at
      BY <2>2 DEF shownRows, PageRows, Matching
    <3>2. dlq.shown.at \in Nat /\ dlq.shown.at <= Len(Failures) /\ Len(Failures) \in Nat
      BY <2>2, DeadAssumption DEF DeadTypeOK, DeadInv, Totals
    <3> QED BY <3>1, <3>2, DeadAssumption
  <2> QED BY <2>1, <2>2
<1> DEFINE raw(i) == Failures[i].raw
<1>2. \A i \in shownRows :
        /\ replayVerdict(raw(i)) => (scriptReplays(raw(i)) <=> ~Overrated(raw(i)))
        /\ ~replayVerdict(raw(i)) => (scriptReplays(raw(i)) => Underrated(raw(i)))
  BY <1>1, FailuresTyped, VerdictsPart
<1>3. \/ dlq.shown.key \in {NoDlqKey, dlq.key}
      \/ dlq.failed
      \/ \E load \in dlq.loads : load.key = dlq.key
  BY DEF DeadInv
<1> QED BY <1>2, <1>3 DEF DlqTellsTruth, replayableRows

LEMMA DeadInvOpened == DeadBlank => DeadInv
BY DEF DeadBlank, DlqBlank, Nothing, DeadInv

LEMMA DeadInvStep == ConsoleInv /\ DeadInv /\ [Next]_vars => DeadInv'
<1> SUFFICES ASSUME ConsoleInv, DeadInv, [Next]_vars PROVE DeadInv'
  OBVIOUS
<1>1. /\ failures \in Nat
      /\ dlq \in [key : DlqKeys, loads : SUBSET [key : DlqKeys, from : 0..failures],
                  shown : [key : DlqKeys, at : Totals, counted : Totals], failed : BOOLEAN]
  BY DeadAssumption DEF ConsoleInv, ConsoleTypeOK, DeadTypeOK
<1>2. (DeadBlank => DeadInv)'
  BY DeadInvOpened, PTL
<1>3. CASE DeadOpens
  BY <1>2, <1>3 DEF DeadOpens, DeadBlank, DlqBlank, SummaryBlank, NoDlqKey
<1>4. CASE UNCHANGED <<failures, dlq>>
  BY <1>4 DEF DeadInv
<1>5. CASE EventFails
  BY <1>1, <1>5 DEF EventFails, DeadInv, Totals, Nothing
<1>6. CASE DlqEffect
  <2> DEFINE load == [key |-> dlqKey(seen.query), from |-> failures]
  <2>1. /\ dlq'.key = dlqKey(seen.query) /\ dlq'.loads = {load} /\ dlq'.shown = dlq.shown
        /\ failures' = failures
    BY <1>1, <1>6 DEF DlqEffect
  <2>2. load.key = dlqKey(seen.query)
    OBVIOUS
  <2> HIDE DEF load
  <2> QED BY <2>1, <2>2 DEF DeadInv
<1>7. CASE DlqTick
  <2> DEFINE load == [key |-> dlq.key, from |-> failures]
             loads == dlq.loads \cup {load}
  <2>1. load.key = dlq.key
    OBVIOUS
  <2>2. (\A l \in loads : l.key = dlq.key) /\ dlq.loads \subseteq loads
    BY <2>1 DEF DeadInv
  <2>3. dlq' = [dlq EXCEPT !.loads = loads] /\ failures' = failures
    BY <1>7 DEF DlqTick
  <2> HIDE DEF loads
  <2>4. /\ dlq'.key = dlq.key /\ dlq'.loads = loads /\ dlq'.shown = dlq.shown
        /\ dlq'.failed = dlq.failed
    BY <1>1, <2>3
  <2> QED BY <2>2, <2>3, <2>4 DEF DeadInv
<1>8. CASE DlqAnswer
  <2>1. PICK load \in dlq.loads :
          \/ \E at \in load.from..failures : \E counted \in at..failures :
               dlq' = [dlq EXCEPT !.loads = @ \ {load}, !.failed = FALSE,
                         !.shown = [key |-> load.key, at |-> at, counted |-> counted]]
          \/ dlq' = [dlq EXCEPT !.loads = @ \ {load}, !.failed = TRUE]
    BY <1>8 DEF DlqAnswer
  <2>2. load.key = dlq.key /\ load.from \in Nat
    BY <1>1 DEF DeadInv
  <2>3. UNCHANGED failures
    BY <1>8 DEF DlqAnswer
  <2> DEFINE rest == dlq.loads \ {load}
  <2>4. \A l \in rest : l.key = dlq.key
    BY DEF DeadInv
  <2> HIDE DEF rest
  <2>5. ASSUME NEW at \in load.from..failures, NEW counted \in at..failures,
               dlq' = [dlq EXCEPT !.loads = rest, !.failed = FALSE,
                         !.shown = [key |-> load.key, at |-> at, counted |-> counted]]
        PROVE  DeadInv'
    <3>1. /\ dlq'.key = dlq.key /\ dlq'.loads = rest
          /\ dlq'.shown.key = load.key /\ dlq'.shown.at = at
      BY <1>1, <2>5
    <3> QED BY <1>1, <2>2, <2>3, <2>4, <3>1 DEF DeadInv
  <2>6. ASSUME dlq' = [dlq EXCEPT !.loads = rest, !.failed = TRUE]
        PROVE  DeadInv'
    <3>1. /\ dlq'.key = dlq.key /\ dlq'.loads = rest /\ dlq'.shown = dlq.shown
          /\ dlq'.failed = TRUE
      BY <1>1, <2>6
    <3> QED BY <2>3, <2>4, <3>1 DEF DeadInv
  <2> QED BY <2>1, <2>5, <2>6 DEF rest
<1> QED BY <1>3, <1>4, <1>5, <1>6, <1>7, <1>8, DeadSteps
        DEF DeadNext, deadVars, FilterDlq, TurnDlqPage, SelectFailure, CloseFailure,
            SummaryEffect, SummaryAnswer

\* The rows of the dead letter page are those asked for, however \* overlap; and those the guide counts are those the script would republish, but
\* for the rows on which the two sides are known to part.
THEOREM DlqTellsTruthHolds == Spec => []DlqTellsTruth
<1>1. Init => DeadInv
  BY DeadInvOpened DEF Init
<1>2. ConsoleInv /\ DeadInv => DlqTellsTruth
  BY DeadInvSuffices DEF ConsoleInv, ConsoleTypeOK
<1> QED BY <1>1, <1>2, ConsoleStart, ConsoleStep, DeadInvStep, PTL DEF Spec

-----------------------------------------------------------------------------
(* The send page *)

\* What is sent of a draft has its strings trimmed, and is passed by the
\* browser's rules just if the draft is.
LEMMA BodySent ==
  ASSUME NEW form \in DraftForms
  PROVE  LET body == toRequestBody(form) IN
         /\ body \in Forms /\ \A field \in Fields : body[field].is # "absent"
         /\ validateDraft(form) = {} <=>
              \A field \in Fields : body[field].text \in Browser[field]
<1> DEFINE body == toRequestBody(form)
<1>1. /\ form \in Forms /\ form.payload.is = "other"
      /\ \A field \in Strings : form[field].is = "string"
  BY DEF DraftForms
<1>2. /\ body = [field \in Fields |-> body[field]]
      /\ body["event_id"] = trimmed(form["event_id"])
      /\ body["event_type"] = trimmed(form["event_type"])
      /\ body["source"] = trimmed(form["source"])
      /\ body["payload"] = IF form["payload"].text = "broken"
                           THEN [form["payload"] EXCEPT !.text = "no object"] ELSE form["payload"]
  BY DEF toRequestBody, Fields, Strings
<1> HIDE DEF body
<1>3. \A texts : \A value \in Values(texts) :
        /\ trimmed(value) \in Values(texts)
        /\ trimmed(value).text = value.text /\ trimmed(value).is = value.is
  BY DEF Values, trimmed
<1> DEFINE Payloads == [is : {"other", "absent"},
                        text : {"good", "oversized", "lighter", "heavier", "no object", "broken"}]
<1>4. /\ form["event_id"] \in Values({"good", "lax", "braced", "bad"})
      /\ form["event_type"] \in Values({"good", "undotted", "empty", "wide", "long"})
      /\ form["source"] \in Values({"good", "empty", "wide", "long"})
      /\ form["payload"] \in Payloads /\ form["payload"].is = "other"
  BY <1>1 DEF Forms
<1>5. body \in Forms /\ \A field \in Fields : body[field].is # "absent"
  <2>1. /\ body["event_id"] \in Values({"good", "lax", "braced", "bad"})
        /\ body["event_type"] \in Values({"good", "undotted", "empty", "wide", "long"})
        /\ body["source"] \in Values({"good", "empty", "wide", "long"})
    <3> HIDE DEF Payloads
    <3>1. /\ trimmed(form["event_id"]) \in Values({"good", "lax", "braced", "bad"})
          /\ trimmed(form["event_type"]) \in Values({"good", "undotted", "empty", "wide", "long"})
          /\ trimmed(form["source"]) \in Values({"good", "empty", "wide", "long"})
      BY <1>3, <1>4, Zenon
    <3> QED BY <1>2, <3>1, Zenon
  <2>2. body["payload"] \in Payloads /\ body["payload"].is = "other"
    BY <1>2, <1>4
  <2>3. /\ body["event_id"].is = "string" /\ body["event_type"].is = "string"
        /\ body["source"].is = "string"
    <3>1. /\ form["event_id"].is = "string" /\ form["event_type"].is = "string"
          /\ form["source"].is = "string"
      BY <1>1 DEF Strings
    <3>2. /\ trimmed(form["event_id"]).is = form["event_id"].is
          /\ trimmed(form["event_type"]).is = form["event_type"].is
          /\ trimmed(form["source"]).is = form["source"].is
      BY <1>3, <1>4, Zenon
    <3> QED BY <1>2, <3>1, <3>2
  <2>4. body = [event_id |-> body["event_id"], event_type |-> body["event_type"],
                source |-> body["source"], payload |-> body["payload"]]
    BY <1>2 DEF Fields, Strings
  <2>5. body \in Forms
    BY <2>1, <2>2, <2>4 DEF Forms
  <2>6. \A field \in Fields : body[field].is # "absent"
    BY <2>2, <2>3 DEF Fields, Strings
  <2> QED BY <2>5, <2>6
<1>6. /\ body["event_id"].text = form["event_id"].text
      /\ body["event_type"].text = form["event_type"].text
      /\ body["source"].text = form["source"].text
      /\ body["payload"].text \in {"good", "lighter"} <=> form["payload"].text \in {"good", "lighter"}
  BY <1>2, <1>3, <1>4
<1>7. (\A field \in Fields : body[field].text \in Browser[field]) <=>
        \A field \in Fields : form[field].text \in Browser[field]
  BY <1>6 DEF Fields, Strings, Browser
<1> QED BY <1>5, <1>7, DraftChecked DEF body

\* Whatever is sent, the API refuses it as RefusalsAgree says.
LEMMA RefusalsPart ==
  ASSUME NEW form \in DraftForms
  PROVE  LET body == toRequestBody(form) IN
         /\ validateDraft(form) = {} => (EventCreate(body) <=> ~Overrated(body))
         /\ validateDraft(form) # {} => (EventCreate(body) => Underrated(body))
<1> DEFINE body == toRequestBody(form)
<1>1. /\ body \in Forms /\ \A field \in Fields : body[field].is # "absent"
      /\ validateDraft(form) = {} <=> \A field \in Fields : body[field].text \in Browser[field]
  BY BodySent
<1> HIDE DEF body
<1>2. body["payload"].is # "absent" /\ \A field \in Strings : body[field].is # "absent"
  BY <1>1 DEF Fields
<1> QED BY <1>1, <1>2, SidesPart DEF body

\* A checked send is of a valid draft, and an answer tells what was done; the
\* tracker asks for the event it follows and finds only what is stored.
SendInv ==
  /\ sending # NoRequest =>
       /\ sending.id \in SendIds
       /\ sending.checked <=> validateDraft(sending.form) = {}
  /\ RefusalsAgree
  /\ outcome # NoOutcome => outcome.id \in SendIds
  /\ outcome.status = 202 => places[outcome.id] # {} /\ outcome # NoOutcome
  /\ outcome.status = 409 => "stored" \in places[outcome.id] /\ outcome # NoOutcome
  /\ tracker.polls \subseteq {tracker.id}
  /\ tracker.found \in {0, tracker.id}
  /\ tracker.found # 0 => "stored" \in places[tracker.found]
  /\ tracker.gaveUp => tracker.late
  /\ outcome # NoOutcome /\ ~tracker.due => tracker.id = outcome.id

LEMMA SendInvSuffices == SendTypeOK /\ SendInv => TrackerTellsTruth
<1> SUFFICES ASSUME SendTypeOK, SendInv, outcome # NoOutcome, ~tracker.due
             PROVE  /\ deliverySteps.published = "done" => places[outcome.id] # {}
                    /\ deliverySteps.stored = "done" =>
                         tracker.found = outcome.id /\ "stored" \in places[outcome.id]
                    /\ deliverySteps.stored = "failed" => tracker.late
                    /\ outcome.status = 409 => "stored" \in places[outcome.id]
  BY DEF TrackerTellsTruth
<1>1. deliverySteps.published = "done" => outcome.status = 202
  BY DEF deliverySteps
<1>2. deliverySteps.stored = "done" => tracker.found # 0
  BY DEF deliverySteps
<1>3. deliverySteps.stored = "failed" => tracker.gaveUp
  BY DEF deliverySteps
<1> QED BY <1>1, <1>2, <1>3 DEF SendInv

LEMMA SendInvOpened == SendBlank => SendInv
BY DEF SendBlank, NoRequest, NoOutcome, NoTracker, SendInv, RefusalsAgree

\* Whatever the places become, an event that was somewhere still is, and one
\* that was stored still is.
PlacesGrow ==
  \A id \in SendIds :
    /\ places[id] # {} => places'[id] # {}
    /\ "stored" \in places[id] => "stored" \in places'[id]

LEMMA AnswerTells ==
  ASSUME SendTypeOK, SendInv, sending # NoRequest, NEW answer \in Answers(sending)
  PROVE  /\ answer.status # 0 =>
              LET body == toRequestBody(sending.form) IN
              IF sending.checked THEN answer.status = 422 <=> Overrated(body)
              ELSE answer.status # 422 => Underrated(body)
         /\ answer.status = 202 => answer.published
         /\ answer.status = 409 => "stored" \in places[sending.id]
<1>1. sending \in Requests
  BY DEF SendTypeOK
<1> DEFINE body == toRequestBody(sending.form)
           Refusals == {[status |-> 422, published |-> FALSE], [status |-> 0, published |-> FALSE]}
           Passes == {[status |-> status, published |-> TRUE] : status \in {202, 503, 0}}
           Fails == {[status |-> 503, published |-> FALSE], [status |-> 0, published |-> FALSE]}
           Duplicate == [status |-> 409, published |-> FALSE]
<1>2. \/ answer \in Refusals /\ ~EventCreate(body)
      \/ answer \in Passes \cup Fails /\ EventCreate(body)
      \/ answer = Duplicate /\ "stored" \in places[sending.id] /\ EventCreate(body)
  BY DEF Answers
<1>3. IF sending.checked THEN EventCreate(body) <=> ~Overrated(body)
      ELSE EventCreate(body) => Underrated(body)
  BY <1>1, RefusalsPart DEF SendInv, Requests
<1>4. answer \in Refusals => answer.status \in {422, 0}
  OBVIOUS
<1>5. answer \in Passes \cup Fails =>
        answer.status \in {202, 503, 0} /\ (answer.status = 202 => answer.published)
  OBVIOUS
<1>6. answer = Duplicate => answer.status = 409
  OBVIOUS
<1> HIDE DEF body, Refusals, Passes, Fails, Duplicate
<1> QED BY <1>2, <1>3, <1>4, <1>5, <1>6 DEF body

LEMMA SendInvStep == ConsoleInv /\ SendInv /\ [Next]_vars => SendInv'
<1> SUFFICES ASSUME ConsoleInv, SendInv, [Next]_vars PROVE SendInv'
  OBVIOUS
<1>1. SendTypeOK
  BY DEF ConsoleInv, ConsoleTypeOK
<1> DEFINE Trackers == [id : Ids, readable : BOOLEAN, due : BOOLEAN, polls : SUBSET Ids,
                        timer : BOOLEAN, late : BOOLEAN, found : Ids, gaveUp : BOOLEAN]
<1>t. tracker \in Trackers /\ sending \in Requests
      /\ places \in [SendIds -> SUBSET {"topic", "stored", "dead"}]
  BY <1>1 DEF SendTypeOK
<1>2. (SendBlank => SendInv)'
  BY SendInvOpened, PTL
<1>3. CASE SendOpens
  BY <1>2, <1>3 DEF SendOpens, SendBlank, Composing, NoRequest, NoOutcome, NoTracker, Clean,
                    Plain, PlacesOn
<1>4. CASE UNCHANGED <<sending, outcome, tracker, places>>
  BY <1>4 DEF SendInv, RefusalsAgree
<1>5. CASE Send
  <2> DEFINE valid == validateDraft(composer.form) = {}
  <2>1. sending' = [id |-> composer.id, form |-> composer.form, checked |-> valid]
    BY <1>5 DEF Send
  <2>2. sending'.checked <=> validateDraft(sending'.form) = {}
    BY <2>1
  <2>3. sending'.id \in SendIds
    BY <1>1, <2>1 DEF SendTypeOK
  <2>4. UNCHANGED <<outcome, tracker, places>>
    BY <1>5 DEF Send
  <2> QED BY <2>2, <2>3, <2>4 DEF SendInv, RefusalsAgree
<1>6. CASE SendAnswered
  <2>1. PICK answer \in Answers(sending) :
          /\ places' = IF answer.published
                       THEN [places EXCEPT ![sending.id] = @ \cup {"topic"}] ELSE places
          /\ outcome' = [id |-> sending.id, form |-> sending.form,
                         checked |-> sending.checked, status |-> answer.status]
    BY <1>6 DEF SendAnswered
  <2>2. /\ answer.status # 0 =>
             LET body == toRequestBody(sending.form) IN
             IF sending.checked THEN answer.status = 422 <=> Overrated(body)
             ELSE answer.status # 422 => Underrated(body)
        /\ answer.status = 202 => answer.published
        /\ answer.status = 409 => "stored" \in places[sending.id]
    BY <1>1, <1>6, AnswerTells DEF SendAnswered
  <2>3. sending' = NoRequest /\ tracker' = [tracker EXCEPT !.due = TRUE]
    BY <1>6 DEF SendAnswered
  <2>4. sending.id \in SendIds
    BY <1>6 DEF SendAnswered, SendInv
  <2>5. PlacesGrow /\ (answer.published => places'[sending.id] # {})
    BY <1>t, <2>1, <2>4 DEF PlacesGrow
  <2>6. /\ tracker'.due = TRUE /\ tracker'.polls = tracker.polls /\ tracker'.id = tracker.id
        /\ tracker'.found = tracker.found /\ tracker'.gaveUp = tracker.gaveUp
        /\ tracker'.late = tracker.late
    BY <1>t, <2>3
  <2>7. tracker'.found # 0 => "stored" \in places'[tracker'.found]
    BY <1>t, <2>5, <2>6 DEF SendInv, PlacesGrow, Ids
  <2>8. /\ outcome'.id = sending.id /\ outcome'.status = answer.status
        /\ outcome'.form = sending.form /\ outcome'.checked = sending.checked
    BY <2>1
  <2>9. outcome'.id # 0
    BY <2>4, <2>8, SendAssumption
  <2>10. RefusalsAgree'
    BY <2>2, <2>8 DEF RefusalsAgree
  <2>11. outcome'.status = 202 => places'[outcome'.id] # {}
    BY <2>2, <2>5, <2>8
  <2>12. outcome'.status = 409 => "stored" \in places'[outcome'.id]
    BY <2>2, <2>4, <2>5, <2>8 DEF PlacesGrow
  <2> QED BY <2>3, <2>4, <2>6, <2>7, <2>8, <2>9, <2>10, <2>11, <2>12
          DEF SendInv, NoOutcome
<1>7. CASE Consume
  <2>1. PICK id \in SendIds, to \in {"stored", "dead"} :
          places' = [places EXCEPT ![id] = (@ \ {"topic"}) \cup {to}]
    BY <1>7 DEF Consume
  <2>2. PlacesGrow
    BY <1>t, <2>1 DEF PlacesGrow
  <2>3. UNCHANGED <<sending, outcome, tracker>>
    BY <1>7 DEF Consume
  <2> QED BY <1>t, <2>2, <2>3 DEF SendInv, RefusalsAgree, PlacesGrow, Ids
<1>8. CASE TrackerEffect
  <2> DEFINE asked == IF outcome.status = 202 THEN {outcome.id} ELSE {}
             readable == Readable(outcome.form["event_id"])
  <2>1. tracker' = [NoTracker EXCEPT !.id = outcome.id, !.readable = readable, !.polls = asked]
        /\ UNCHANGED <<sending, outcome, places>>
    BY <1>8 DEF TrackerEffect, Follow
  <2>2. asked \subseteq {outcome.id}
    OBVIOUS
  <2> HIDE DEF asked, readable
  <2>3. /\ tracker'.id = outcome.id /\ tracker'.polls = asked /\ tracker'.found = 0
        /\ tracker'.gaveUp = FALSE /\ tracker'.due = FALSE
    BY <2>1 DEF NoTracker
  <2> QED BY <2>1, <2>2, <2>3 DEF SendInv, RefusalsAgree
<1>9. CASE TrackerLate
  <2>1. tracker' = [tracker EXCEPT !.late = TRUE] /\ UNCHANGED <<sending, outcome, places>>
    BY <1>9 DEF TrackerLate
  <2>2. /\ tracker'.late = TRUE /\ tracker'.due = tracker.due /\ tracker'.polls = tracker.polls
        /\ tracker'.id = tracker.id /\ tracker'.found = tracker.found
    BY <1>t, <2>1
  <2> QED BY <2>1, <2>2 DEF SendInv, RefusalsAgree
<1>10. CASE TrackerPolled
  <2>1. PICK id \in tracker.polls :
          \/ /\ "stored" \in places[id] /\ tracker.readable
             /\ tracker' = [tracker EXCEPT !.polls = @ \ {id}, !.found = id]
          \/ tracker' = [tracker EXCEPT !.polls = @ \ {id}, !.gaveUp = tracker.late,
                                        !.timer = ~tracker.late]
    BY <1>10 DEF TrackerPolled
  <2>2. UNCHANGED <<sending, outcome, places>>
    BY <1>10 DEF TrackerPolled
  <2> DEFINE rest == tracker.polls \ {id}
  <2>3. rest \subseteq {tracker.id} /\ id = tracker.id
    BY DEF SendInv
  <2> HIDE DEF rest
  <2>4. CASE /\ "stored" \in places[id]
             /\ tracker' = [tracker EXCEPT !.polls = rest, !.found = id]
    <3>1. /\ tracker'.id = tracker.id /\ tracker'.polls = rest /\ tracker'.found = id
          /\ tracker'.due = tracker.due /\ tracker'.gaveUp = tracker.gaveUp
          /\ tracker'.late = tracker.late
      BY <1>t, <2>4
    <3> QED BY <2>2, <2>3, <2>4, <3>1 DEF SendInv, RefusalsAgree
  <2>5. ASSUME NEW late \in BOOLEAN, NEW again \in BOOLEAN, late => tracker.late,
               tracker' = [tracker EXCEPT !.polls = rest, !.gaveUp = late, !.timer = again]
        PROVE  SendInv'
    <3>1. /\ tracker'.id = tracker.id /\ tracker'.polls = rest /\ tracker'.found = tracker.found
          /\ tracker'.due = tracker.due /\ tracker'.gaveUp = late
          /\ tracker'.late = tracker.late
      BY <1>t, <2>5
    <3> QED BY <2>2, <2>3, <2>5, <3>1 DEF SendInv, RefusalsAgree
  <2>6. tracker.late \in BOOLEAN /\ (~tracker.late) \in BOOLEAN
    BY <1>t
  <2>7. CASE tracker' = [tracker EXCEPT !.polls = rest, !.gaveUp = tracker.late,
                                        !.timer = ~tracker.late]
    BY <2>5, <2>6, <2>7, Zenon
  <2> QED BY <2>1, <2>4, <2>7 DEF rest
<1>11. CASE TrackerTimer
  <2>1. tracker' = [tracker EXCEPT !.timer = FALSE, !.polls = {tracker.id}]
        /\ UNCHANGED <<sending, outcome, places>>
    BY <1>11 DEF TrackerTimer
  <2>2. /\ tracker'.id = tracker.id /\ tracker'.polls = {tracker.id}
        /\ tracker'.found = tracker.found /\ tracker'.due = tracker.due
        /\ tracker'.gaveUp = tracker.gaveUp /\ tracker'.late = tracker.late
    BY <1>t, <2>1
  <2> QED BY <2>1, <2>2 DEF SendInv, RefusalsAgree
<1> QED BY <1>3, <1>4, <1>5, <1>6, <1>7, <1>8, <1>9, <1>10, <1>11, SendSteps
        DEF SendNext, sendVars, PickPreset, EditDraft, ToggleChecks

\* A send that passed the browser's checks is refused just if it is of a form
\* that only they take, and one that did not is let in only if it is of a form
\* that only the schema takes: the differences named in Validation are all.
THEOREM RefusalsAgreeHolds == Spec => []RefusalsAgree
<1>1. Init => SendInv
  BY SendInvOpened DEF Init
<1>2. SendInv => RefusalsAgree
  BY DEF SendInv
<1> QED BY <1>1, <1>2, ConsoleStart, ConsoleStep, SendInvStep, PTL DEF Spec

\* The delivery tracker says of the last send what is so, although the polls
\* for the one before may be answered late.
THEOREM TrackerTellsTruthHolds == Spec => []TrackerTellsTruth
<1>1. Init => SendInv
  BY SendInvOpened DEF Init
<1>2. ConsoleInv /\ SendInv => TrackerTellsTruth
  BY SendInvSuffices DEF ConsoleInv, ConsoleTypeOK
<1> QED BY <1>1, <1>2, ConsoleStart, ConsoleStep, SendInvStep, PTL DEF Spec

-----------------------------------------------------------------------------
(* The guided tour *)

LEMMA TourPageSteps ==
  ASSUME [Next]_vars
  PROVE  TourNext \/ TourSeen \/ TourOpens \/ UNCHANGED tourVars
BY DEF Next, vars, pagesVars, OnEvents, OnDlq, DlqFrame, OnSend, SendFrame, OnRace,
       OnMetrics, OnOverview, OverviewFrame, OnHow, PageRenders, PageOpens, LinkFollowed

\* What a result of a step of this kind may say, and of which event.
ResultSound(kind, result, where) ==
  /\ result.says \in {"sent", "stored", "conflict"} =>
       result.event \in TourIds /\ where[result.event] # {}
  /\ result.says \in {"stored", "conflict"} => "stored" \in where[result.event]
  /\ kind = "send" => result.says \in {"nothing", "sent", "failed"}
  /\ kind = "find" => result.says \notin {"sent", "conflict", "failed"}

\* A step that sends an event of its own runs with that event.
TourInv ==
  /\ \A step \in DOMAIN TourSteps : ResultSound(TourSteps[step], tour.results[step], tourPlaces)
  /\ tour.running # NoRun /\ TourSteps[tour.running.step] \in {"send", "race"} =>
       tour.running.event \in TourIds

LEMMA TourInvSuffices == TourInv => TourTellsTruth
BY DEF TourInv, ResultSound, TourTellsTruth

LEMMA TourInvOpened == TourBlank => TourInv
<1> SUFFICES ASSUME TourBlank PROVE TourInv
  OBVIOUS
<1>1. \A step \in DOMAIN TourSteps : tour.results[step] = NoResult
  BY DEF TourBlank, TourStart
<1>2. \A kind, where : ResultSound(kind, NoResult, where)
  BY DEF ResultSound, NoResult
<1>3. tour.running = NoRun
  BY DEF TourBlank, TourStart
<1> QED BY <1>1, <1>2, <1>3 DEF TourInv

LEMMA OutcomeSound ==
  ASSUME NEW kind \in TourKinds, NEW event \in 0..MaxTour, NEW result \in Outcomes(kind, event),
         kind \in {"send", "race"} => event \in TourIds
  PROVE  /\ result.says = "sent" => event \in TourIds /\ result.publishes
         /\ result.says \in {"stored", "conflict"} =>
              event \in TourIds /\ "stored" \in tourPlaces[event]
         /\ kind = "send" => result.says \in {"nothing", "sent", "failed"}
         /\ kind = "find" => result.says \notin {"sent", "conflict", "failed"}
<1>0. event # 0 => event \in TourIds
  BY TourAssumption DEF TourIds
<1> DEFINE stored_ == event # 0 /\ "stored" \in tourPlaces[event]
           word == IF stored_ THEN "stored" ELSE "not stored"
<1>s. stored_ \in BOOLEAN
  OBVIOUS
<1>w. (word = "stored" /\ stored_) \/ word = "not stored"
  OBVIOUS
<1>1. CASE kind = "send"
  BY <1>1 DEF Outcomes
<1>2. CASE kind = "find"
  <2>1. \/ result = [ok |-> FALSE, says |-> "run step 1 first", publishes |-> FALSE]
        \/ \E ok \in BOOLEAN :
             result = [ok |-> ok, says |-> word, publishes |-> FALSE]
        \/ result = [ok |-> FALSE, says |-> "not stored", publishes |-> FALSE]
    BY <1>s, <1>2 DEF Outcomes
  <2>2. \/ result.says = "run step 1 first" \/ result.says = "not stored"
        \/ result.says = "stored" /\ stored_
    <3> HIDE DEF word, stored_
    <3>1. CASE \E ok \in BOOLEAN : result = [ok |-> ok, says |-> word, publishes |-> FALSE]
      <4>1. PICK ok \in BOOLEAN : result = [ok |-> ok, says |-> word, publishes |-> FALSE]
        BY <3>1
      <4>2. result.says = word
        BY <4>1
      <4> QED BY <1>w, <4>2
    <3>2. CASE result = [ok |-> FALSE, says |-> "not stored", publishes |-> FALSE]
      BY <3>2
    <3>3. CASE result = [ok |-> FALSE, says |-> "run step 1 first", publishes |-> FALSE]
      BY <3>3
    <3> QED BY <2>1, <3>1, <3>2, <3>3, Zenon
  <2> QED BY <1>0, <1>2, <2>2
<1>3. CASE kind = "resend"
  <2>1. \/ result = [ok |-> FALSE, says |-> "run step 1 first", publishes |-> FALSE]
        \/ event # 0 /\ result = [ok |-> TRUE, says |-> "sent", publishes |-> TRUE]
        \/ result \in {[ok |-> FALSE, says |-> "failed", publishes |-> b] : b \in BOOLEAN}
        \/ stored_ /\ result = [ok |-> TRUE, says |-> "conflict", publishes |-> FALSE]
    BY <1>3 DEF Outcomes
  <2>2. \/ result.says \in {"run step 1 first", "failed"}
        \/ event # 0 /\ result.says = "sent" /\ result.publishes
        \/ result.says = "conflict" /\ stored_
    <3> HIDE DEF stored_
    <3>1. CASE result \in {[ok |-> FALSE, says |-> "failed", publishes |-> b] : b \in BOOLEAN}
      <4>1. PICK b \in BOOLEAN : result = [ok |-> FALSE, says |-> "failed", publishes |-> b]
        BY <3>1
      <4> QED BY <4>1
    <3>2. CASE event # 0 /\ result = [ok |-> TRUE, says |-> "sent", publishes |-> TRUE]
      BY <3>2
    <3>3. CASE stored_ /\ result = [ok |-> TRUE, says |-> "conflict", publishes |-> FALSE]
      BY <3>3
    <3>4. CASE result = [ok |-> FALSE, says |-> "run step 1 first", publishes |-> FALSE]
      BY <3>4
    <3> QED BY <2>1, <3>1, <3>2, <3>3, <3>4
  <2> QED BY <1>0, <1>3, <2>2
<1>4. CASE kind = "race"
  <2>1. \/ \E ok \in BOOLEAN :
             result = [ok |-> ok, says |-> word, publishes |-> FALSE]
        \/ result = [ok |-> FALSE, says |-> "not stored", publishes |-> FALSE]
    BY <1>s, <1>4 DEF Outcomes
  <2>2. \/ result.says = "not stored"
        \/ result.says = "stored" /\ stored_
    <3> HIDE DEF word, stored_
    <3>1. CASE \E ok \in BOOLEAN : result = [ok |-> ok, says |-> word, publishes |-> FALSE]
      <4>1. PICK ok \in BOOLEAN : result = [ok |-> ok, says |-> word, publishes |-> FALSE]
        BY <3>1
      <4>2. result.says = word
        BY <4>1
      <4> QED BY <1>w, <4>2
    <3>2. CASE result = [ok |-> FALSE, says |-> "not stored", publishes |-> FALSE]
      BY <3>2
    <3> QED BY <2>1, <3>1, <3>2, Zenon
  <2> QED BY <1>0, <1>4, <2>2
<1>5. CASE kind = "break"
  BY <1>5 DEF Outcomes
<1>6. CASE kind = "dlq"
  BY <1>6 DEF Outcomes
<1> QED BY <1>1, <1>2, <1>3, <1>4, <1>5, <1>6 DEF TourKinds

\* Results stay sound while events only move on.
TourPlacesGrow ==
  \A id \in TourIds :
    /\ tourPlaces[id] # {} => tourPlaces'[id] # {}
    /\ "stored" \in tourPlaces[id] => "stored" \in tourPlaces'[id]

LEMMA ResultStaysSound ==
  ASSUME TourPlacesGrow, NEW kind, NEW result, ResultSound(kind, result, tourPlaces)
  PROVE  ResultSound(kind, result, tourPlaces')
BY DEF TourPlacesGrow, ResultSound

LEMMA TourInvKept ==
  ASSUME TourInv, TourPlacesGrow, tour'.results = tour.results
  PROVE  (\A step \in DOMAIN TourSteps : ResultSound(TourSteps[step], tour.results[step], tourPlaces))'
BY ResultStaysSound DEF TourInv, ResultSound

LEMMA TourInvStep == ConsoleInv /\ TourInv /\ [Next]_vars => TourInv'
<1> SUFFICES ASSUME ConsoleInv, TourInv, [Next]_vars PROVE TourInv'
  OBVIOUS
<1> USE TourAssumption
<1> DEFINE Tours == [eventId : 0..MaxTour, newest : 0..MaxTour,
                     running : [step : 0..Len(TourSteps), event : 0..MaxTour],
                     results : TourResults]
<1>1. /\ tour \in Tours /\ tourPlaces \in [TourIds -> SUBSET {"topic", "stored", "dead"}]
      /\ tour.running = NoRun \/ tour.running.step # 0
  BY DEF ConsoleInv, ConsoleTypeOK, TourTypeOK, TourResults
<1>2. (TourBlank => TourInv)'
  BY TourInvOpened, PTL
<1>3. CASE TourOpens
  BY <1>2, <1>3 DEF TourOpens, TourBlank, TourStart, Unsent, NoRun, NoResult
<1>4. CASE UNCHANGED tourVars
  BY <1>4 DEF tourVars, TourInv, ResultSound
<1>5. CASE TourTurn
  BY <1>4, <1>5 DEF TourTurn
<1>6. CASE TourSeen
  <2>1. CASE UNCHANGED tourVars
    BY <1>4, <2>1
  <2>2. CASE tour' = [TourStart EXCEPT !.newest = tour.newest]
    <3>1. tour'.running = NoRun /\ tour'.results = [step \in DOMAIN TourSteps |-> NoResult]
      BY <2>2 DEF TourStart
    <3>2. \A kind, where : ResultSound(kind, NoResult, where)
      BY DEF ResultSound, NoResult
    <3> QED BY <3>1, <3>2 DEF TourInv, NoRun, ResultSound, NoResult
  <2> QED BY <1>6, <2>1, <2>2 DEF TourSeen, tourVars
<1>7. CASE TourRun
  <2> DEFINE step  == tourStep(seen.query)
             fresh == TourSteps[step] \in {"send", "race"}
             event == IF fresh THEN tour.newest + 1 ELSE tour.eventId
  <2>1. /\ fresh => tour.newest < MaxTour
        /\ tour' = [tour EXCEPT !.newest = IF fresh THEN event ELSE @,
                                !.eventId = IF TourSteps[step] = "send" THEN event ELSE @,
                                !.running = [step |-> step, event |-> event]]
        /\ UNCHANGED tourPlaces
    BY <1>7 DEF TourRun
  <2>2. fresh => event \in TourIds
    BY <1>1, <2>1 DEF TourIds
  <2>3. tour'.running = [step |-> step, event |-> event] /\ tour'.results = tour.results
    <3> HIDE DEF step, event, fresh
    <3> QED BY <1>1, <2>1
  <2>4. TourPlacesGrow
    BY <2>1 DEF TourPlacesGrow
  <2>5. tour'.running.step = step /\ tour'.running.event = event
    BY <2>3
  <2> QED BY <2>2, <2>3, <2>4, <2>5, TourInvKept DEF TourInv
<1>8. CASE TourRaceSent
  <2>1. tour' = tour /\ tourPlaces' = [tourPlaces EXCEPT ![tour.running.event] = {"topic"}]
        /\ tourPlaces[tour.running.event] = {}
    BY <1>8 DEF TourRaceSent
  <2>2. TourPlacesGrow
    BY <1>1, <2>1 DEF TourPlacesGrow
  <2> QED BY <2>1, <2>2, TourInvKept DEF TourInv
<1>9. CASE TourConsume
  <2>1. PICK id \in TourIds : \E to \in {"stored", "dead"} :
            tourPlaces' = [tourPlaces EXCEPT ![id] = (@ \ {"topic"}) \cup {to}]
    BY <1>9 DEF TourConsume
  <2>2. TourPlacesGrow
    BY <1>1, <2>1 DEF TourPlacesGrow
  <2>3. tour' = tour
    BY <1>9 DEF TourConsume
  <2> QED BY <2>2, <2>3, TourInvKept DEF TourInv
<1>10. CASE TourDone
  <2> DEFINE run == tour.running
             kind == TourSteps[run.step]
             done(result) == [ok |-> result.ok, says |-> result.says, event |-> run.event]
  <2>1. PICK result \in Outcomes(kind, run.event) :
          /\ tour' = [tour EXCEPT !.running = NoRun, !.results = [@ EXCEPT ![run.step] =
                        [ok |-> result.ok, says |-> result.says, event |-> run.event]]]
          /\ tourPlaces' = IF result.publishes
                           THEN [tourPlaces EXCEPT ![run.event] = @ \cup {"topic"}]
                           ELSE tourPlaces
    BY <1>10 DEF TourDone
  <2>2. run # NoRun /\ run.step \in DOMAIN TourSteps /\ kind \in TourKinds /\ run.event \in 0..MaxTour
    BY <1>1, <1>10 DEF TourDone
  <2>3. kind \in {"send", "race"} => run.event \in TourIds
    BY <2>2 DEF TourInv
  <2>4. /\ result.says = "sent" => run.event \in TourIds /\ result.publishes
        /\ result.says \in {"stored", "conflict"} =>
             run.event \in TourIds /\ "stored" \in tourPlaces[run.event]
        /\ kind = "send" => result.says \in {"nothing", "sent", "failed"}
        /\ kind = "find" => result.says \notin {"sent", "conflict", "failed"}
    <3> HIDE DEF kind, run
    <3> QED BY <2>1, <2>2, <2>3, OutcomeSound
  <2>5. TourPlacesGrow
    BY <1>1, <2>1 DEF TourPlacesGrow
  <2>6. /\ result.says = "sent" => tourPlaces'[run.event] # {}
        /\ result.says \in {"stored", "conflict"} => "stored" \in tourPlaces'[run.event]
    BY <1>1, <2>1, <2>4, <2>5 DEF TourPlacesGrow
  <2>7. tour'.running = NoRun /\ tour'.results = [tour.results EXCEPT ![run.step] = done(result)]
    <3> DEFINE results == [tour.results EXCEPT ![run.step] = done(result)]
    <3>1. tour' = [tour EXCEPT !.running = NoRun, !.results = results]
      BY <2>1
    <3> HIDE DEF results
    <3>2. tour'.running = NoRun /\ tour'.results = results
      BY <1>1, <3>1
    <3> QED BY <3>2 DEF results
  <2>8. done(result).says = result.says /\ done(result).event = run.event
    OBVIOUS
  <2>9. ResultSound(kind, done(result), tourPlaces')
    BY <2>4, <2>6 DEF ResultSound
  <2>10. ASSUME NEW step \in DOMAIN TourSteps
         PROVE  ResultSound(TourSteps[step], tour'.results[step], tourPlaces')
    <3>1. CASE step = run.step
      <4>1. tour'.results[step] = done(result)
        BY <1>1, <2>7, <3>1 DEF TourResults
      <4> QED BY <2>9, <3>1, <4>1 DEF ResultSound
    <3>2. CASE step # run.step
      <4>1. tour'.results[step] = tour.results[step]
        BY <1>1, <2>7, <3>2 DEF TourResults
      <4> QED BY <2>5, <4>1, ResultStaysSound DEF TourInv, ResultSound
    <3> QED BY <3>1, <3>2
  <2> QED BY <2>7, <2>10 DEF TourInv, NoRun
<1> QED BY <1>3, <1>4, <1>5, <1>6, <1>7, <1>8, <1>9, <1>10, TourPageSteps DEF TourNext

\* The tour shows no result that did not happen, in whatever order its steps
\* are run, run again, and left while they run.
THEOREM TourTellsTruthHolds == Spec => []TourTellsTruth
<1>1. Init => TourInv
  BY TourInvOpened DEF Init
<1> QED BY <1>1, TourInvSuffices, ConsoleStart, ConsoleStep, TourInvStep, PTL DEF Spec

-----------------------------------------------------------------------------
(* Turning pages *)

\* Quotient and remainder, for the solver: it has them by one axiom only.
LEMMA WholePages ==
  ASSUME NEW page \in Int, NEW limit \in Nat \ {0}
  PROVE  page * limit \in Int /\ (page * limit) % limit = 0 /\ (page * limit) \div limit = page
BY SMT

LEMMA PageAndRest ==
  ASSUME NEW offset \in Nat, NEW limit \in Nat \ {0}
  PROVE  /\ offset \div limit \in Nat
         /\ offset = limit * (offset \div limit) + (offset % limit)
         /\ 0 <= offset % limit /\ offset % limit < limit
BY SMT

LEMMA PagesApart ==
  ASSUME NEW page \in Nat, NEW count \in Nat, NEW limit \in Nat \ {0}, page < count
  PROVE  page * limit + limit <= count * limit
BY SMT

\* There are as many pages as hold all the rows, and one when there is no row.
LEMMA PageCountIs ==
  ASSUME NEW total \in Nat, NEW limit \in Nat \ {0}
  PROVE  /\ pageCount(total, limit) \in Nat \ {0}
         /\ total <= pageCount(total, limit) * limit
         /\ \/ pageCount(total, limit) = 1
            \/ pageCount(total, limit) * limit < total + limit
<1> DEFINE full == (total + limit - 1) \div limit
<1>1. full \in Nat /\ full * limit <= total + limit - 1 /\ total <= full * limit
  <2> DEFINE rows == total + limit - 1
  <2>1. rows \in Nat
    OBVIOUS
  <2> HIDE DEF rows
  <2>2. /\ rows \div limit \in Nat /\ (rows \div limit) * limit \in Int
        /\ (rows \div limit) * limit <= rows /\ rows < (rows \div limit) * limit + limit
    BY <2>1, PageAndRest, SMT
  <2> QED BY <2>2 DEF rows
<1>2. pageCount(total, limit) = Max({1, full})
  BY DEF pageCount
<1>3. full = 0 => total = 0
  BY <1>1
<1> HIDE DEF full
<1>4. Max({1, full}) \in {1, full} /\ Max({1, full}) >= 1 /\ Max({1, full}) >= full
  <2>1. \E x \in {1, full} : \A y \in {1, full} : x >= y
    BY <1>1
  <2> QED BY <2>1, <1>1 DEF Max
<1>5. CASE Max({1, full}) = full
  BY <1>1, <1>2, <1>4, <1>5
<1>6. CASE Max({1, full}) = 1 /\ full = 0
  BY <1>1, <1>2, <1>3, <1>6
<1> QED BY <1>1, <1>2, <1>4, <1>5, <1>6

\* The pages the numbered buttons count up to hold every matching row, each on
\* one page: none is skipped and none is shown twice (Pagination.tsx:26-53).
THEOREM EveryRowOnOnePage ==
  ASSUME NEW total \in Nat, NEW limit \in Nat \ {0}, NEW row \in 0..(total - 1)
  PROVE  \E page \in 0..(pageCount(total, limit) - 1) :
           /\ page * limit <= row /\ row < page * limit + limit
           /\ \A other \in Nat : other * limit <= row /\ row < other * limit + limit => other = page
<1> DEFINE page  == row \div limit
           count == pageCount(total, limit)
<1>1. row \in Nat /\ row < total
  OBVIOUS
<1>2. page \in Nat /\ row = limit * page + (row % limit) /\ 0 <= row % limit /\ row % limit < limit
  BY <1>1, PageAndRest
<1>3. count \in Nat \ {0} /\ total <= count * limit
  BY PageCountIs
<1> HIDE DEF page, count
<1>4. page * limit \in Int /\ page * limit = limit * page
  BY <1>2, SMT
<1>5. page * limit <= row /\ row < page * limit + limit
  BY <1>1, <1>2, <1>4
<1>6. ASSUME NEW p \in Nat, NEW q \in Nat, p * limit <= row, row < q * limit + limit
      PROVE  p <= q
  <2>1. CASE q < p
    <3>1. q * limit + limit <= p * limit
      BY <2>1, PagesApart
    <3>2. p * limit \in Int /\ q * limit \in Int
      OBVIOUS
    <3> QED BY <1>1, <1>6, <3>1, <3>2
  <2> QED BY <2>1
<1>7. ASSUME NEW other \in Nat, other * limit <= row, row < other * limit + limit
      PROVE  other = page
  <2>1. other <= page /\ page <= other
    BY <1>2, <1>5, <1>6, <1>7
  <2> QED BY <1>2, <2>1
<1>8. page < count
  <2>1. CASE count <= page
    <3>1. count * limit <= page * limit
      BY <1>2, <1>3, <2>1, SMT
    <3>2. count * limit \in Int
      BY <1>3
    <3> QED BY <1>1, <1>3, <1>4, <1>5, <3>1, <3>2
  <2> QED BY <1>2, <1>3, <2>1
<1>9. page \in 0..(count - 1)
  BY <1>2, <1>3, <1>8
<1> QED BY <1>5, <1>7, <1>9 DEF count

\* On a page boundary, every button and the size menu lead to a page boundary
\* of a size the page knows.
LEMMA TurnsAligned ==
  ASSUME NEW total \in Int, NEW limit \in Sizes, NEW offset \in Nat, offset % limit = 0,
         NEW turn \in Turns(total, limit, offset)
  PROVE  turn.limit \in Sizes /\ turn.offset \in Nat /\ turn.offset % turn.limit = 0
<1> DEFINE count == pageCount(total, limit)
           current == offset \div limit
<1>1. \A size \in Sizes : size \in Nat \ {0}
  BY PageSizesAssumption DEF Sizes
<1>2. limit \in Nat \ {0}
  BY <1>1
<1>3. current \in Nat /\ offset = current * limit
  <2>1. current \in Nat /\ offset = limit * current
    BY <1>2, PageAndRest
  <2> HIDE DEF current
  <2> QED BY <1>2, <2>1, SMT
<1> HIDE DEF count, current
<1>4. \/ \E page \in pageWindow(current, count) : turn = [offset |-> page * limit, limit |-> limit]
      \/ \E size \in Sizes : turn = [offset |-> 0, limit |-> size]
      \/ current # 0 /\ turn = [offset |-> offset - limit, limit |-> limit]
      \/ turn = [offset |-> offset + limit, limit |-> limit]
  BY DEF Turns, SizeMenu, count, current
<1>5. ASSUME NEW page \in Nat, turn = [offset |-> page * limit, limit |-> limit]
      PROVE  turn.limit \in Sizes /\ turn.offset \in Nat /\ turn.offset % turn.limit = 0
  <2>1. page * limit \in Nat /\ (page * limit) % limit = 0
    BY <1>2, SMT
  <2> QED BY <1>5, <2>1
<1>6. CASE \E page \in pageWindow(current, count) : turn = [offset |-> page * limit, limit |-> limit]
  <2>1. pageWindow(current, count) \subseteq Nat
    BY DEF pageWindow
  <2> QED BY <1>5, <1>6, <2>1
<1>7. CASE \E size \in Sizes : turn = [offset |-> 0, limit |-> size]
  <2>1. PICK size \in Sizes : turn = [offset |-> 0, limit |-> size]
    BY <1>7
  <2>2. 0 % size = 0
    BY <1>1, SMT
  <2> QED BY <2>1, <2>2
<1>8. CASE current # 0 /\ turn = [offset |-> offset - limit, limit |-> limit]
  <2>1. current - 1 \in Nat
    BY <1>3, <1>8
  <2>2. (current - 1) * limit = offset - limit
    BY <1>2, <1>3, SMT
  <2> QED BY <1>5, <1>8, <2>1, <2>2
<1>9. CASE turn = [offset |-> offset + limit, limit |-> limit]
  <2>1. current + 1 \in Nat
    BY <1>3
  <2>2. (current + 1) * limit = offset + limit
    BY <1>2, <1>3, SMT
  <2> QED BY <1>5, <1>9, <2>1, <2>2
<1> QED BY <1>4, <1>6, <1>7, <1>8, <1>9

\* On a page boundary with rows, each leads to a page with rows.
LEMMA TurnsHoldRows ==
  ASSUME NEW total \in Int, NEW limit \in Nat \ {0}, NEW offset \in Nat, offset % limit = 0,
         RowsOnPage(total, limit, offset) > 0,
         NEW turn \in Turns(total, limit, offset)
  PROVE  RowsOnPage(total, turn.limit, turn.offset) > 0
<1> DEFINE count == pageCount(total, limit)
           current == offset \div limit
<1>1. total \in Nat /\ offset < total
  BY DEF RowsOnPage
<1>2. /\ count \in Nat \ {0}
      /\ count = 1 \/ count * limit < total + limit
  BY <1>1, PageCountIs
<1>3. current \in Nat /\ offset = current * limit
  <2>1. current \in Nat /\ offset = limit * current
    BY PageAndRest
  <2> HIDE DEF current
  <2> QED BY <2>1, SMT
<1> HIDE DEF count, current
<1>4. ASSUME NEW first \in Int, first < total, NEW size \in Nat \ {0}
      PROVE  RowsOnPage(total, size, first) > 0
  BY <1>1, <1>4 DEF RowsOnPage
<1>5. ASSUME NEW page \in 0..(count - 1)
      PROVE  page * limit \in Int /\ page * limit < total
  <2>1. CASE count = 1
    <3>1. page = 0
      BY <1>2, <2>1
    <3> QED BY <1>1, <3>1
  <2>2. CASE count * limit < total + limit
    <3>1. page * limit + limit <= count * limit
      BY <1>2, PagesApart
    <3>2. page * limit \in Int /\ count * limit \in Int
      BY <1>2
    <3> QED BY <1>1, <2>2, <3>1, <3>2
  <2> QED BY <1>2, <2>1, <2>2
<1>6. \/ \E page \in pageWindow(current, count) : turn = [offset |-> page * limit, limit |-> limit]
      \/ \E size \in Sizes : turn = [offset |-> 0, limit |-> size]
      \/ turn = [offset |-> offset - limit, limit |-> limit]
      \/ ~(current >= count - 1) /\ turn = [offset |-> offset + limit, limit |-> limit]
  BY DEF Turns, SizeMenu, count, current
<1>7. CASE \E page \in pageWindow(current, count) : turn = [offset |-> page * limit, limit |-> limit]
  <2>1. pageWindow(current, count) \subseteq 0..(count - 1)
    BY DEF pageWindow
  <2> QED BY <1>4, <1>5, <1>7, <2>1
<1>8. CASE \E size \in Sizes : turn = [offset |-> 0, limit |-> size]
  <2>1. \A size \in Sizes : size \in Nat \ {0}
    BY PageSizesAssumption DEF Sizes
  <2>2. 0 < total
    BY <1>1
  <2> QED BY <1>4, <1>8, <2>1, <2>2
<1>9. CASE turn = [offset |-> offset - limit, limit |-> limit]
  <2>1. offset - limit \in Int /\ offset - limit < total
    BY <1>1
  <2> QED BY <1>4, <1>9, <2>1
<1>10. CASE ~(current >= count - 1) /\ turn = [offset |-> offset + limit, limit |-> limit]
  <2>1. current + 1 \in 0..(count - 1)
    BY <1>2, <1>3, <1>10
  <2>2. (current + 1) * limit = offset + limit
    BY <1>3, SMT
  <2>3. offset + limit \in Int /\ offset + limit < total
    BY <1>5, <2>1, <2>2
  <2> QED BY <1>4, <1>10, <2>3
<1> QED BY <1>6, <1>7, <1>8, <1>9, <1>10

\* The parameters of a list, on a page boundary of the limit in force.
Aligned(query) == offsetOf(query) % limitOf(query) = 0

\* The links to a list, the console's own or a bookmark's, are aligned.  Those
\* of the console have no offset; an offset typed by hand may be any.
AlignedLinks == \A link \in Links : parse(link.route) \in {"events", "dlq"} => Aligned(link.query)

LEMMA OffsetTyped == \A query \in Queries : offsetOf(query) \in Nat
BY DEF offsetOf, Queries

\* What the buttons write is read back as it was meant.
LEMMA TurnReadBack ==
  ASSUME NEW turn, turn.limit \in Sizes, turn.offset \in Nat, turn.offset % turn.limit = 0,
         NEW query, query.offset = turnTo(turn).offset, query.limit = turnTo(turn).limit
  PROVE  Aligned(query)
<1>1. offsetOf(query) = turn.offset
  BY DEF turnTo, offsetOf
<1>2. limitOf(query) = turn.limit
  <2>1. 0 \notin Sizes
    BY PageSizesAssumption DEF Sizes
  <2> QED BY <2>1 DEF turnTo, limitOf
<1> QED BY <1>1, <1>2 DEF Aligned

\* The address and the page's reading of it are of one page, and a list is
\* on a page boundary in both: buttons act on the reading, not on the address.
PagesInv ==
  /\ seen.route = parse(hash.route)
  /\ seen.route \in {"events", "dlq"} => Aligned(hash.query) /\ Aligned(seen.query)
  /\ seen.route # "events" => events.shown = NoPage

\* What a list writes into the address: the first page, a turn, or neither
\* offset nor limit.
Paged(next) ==
  \/ DOMAIN next \cap {"offset", "limit"} = {}
  \/ "offset" \in DOMAIN next /\ next["offset"] = 0
  \/ \E turn \in [offset : Nat, limit : Sizes] :
       turn.offset % turn.limit = 0 /\ next = turnTo(turn)

LEMMA SetParamsAligned ==
  ASSUME BrowserTypeOK, PagesInv, NEW next, setParams(next),
         seen.route \in {"events", "dlq"} => Paged(next),
         seen.route = "events" \/ UNCHANGED explorerVars
  PROVE  PagesInv'
<1> DEFINE query == [f \in DOMAIN hash.query |->
                       IF f \in DOMAIN next THEN next[f] ELSE hash.query[f]]
<1>1. hash.query \in Queries /\ hash \in Addresses
  BY DEF BrowserTypeOK, Addresses
<1>2. hash'.query = query /\ hash'.route = hash.route /\ seen' = seen
  BY <1>1 DEF setParams, Addresses
<1>3. /\ query.offset = IF "offset" \in DOMAIN next THEN next["offset"] ELSE hash.query.offset
      /\ query.limit = IF "limit" \in DOMAIN next THEN next["limit"] ELSE hash.query.limit
  BY <1>1 DEF Queries
<1> HIDE DEF query
<1>4. ASSUME seen.route \in {"events", "dlq"} PROVE Aligned(query)
  <2>1. Aligned(hash.query)
    BY <1>4 DEF PagesInv
  <2>2. CASE DOMAIN next \cap {"offset", "limit"} = {}
    <3>1. offsetOf(query) = offsetOf(hash.query) /\ limitOf(query) = limitOf(hash.query)
      BY <1>3, <2>2 DEF offsetOf, limitOf
    <3> QED BY <2>1, <3>1 DEF Aligned
  <2>3. CASE "offset" \in DOMAIN next /\ next["offset"] = 0
    <3>1. offsetOf(query) = 0 /\ limitOf(query) \in Nat \ {0}
      BY <1>3, <2>3, LimitTyped DEF offsetOf
    <3>2. 0 % limitOf(query) = 0
      BY <3>1, WholePages, SMT
    <3> QED BY <3>1, <3>2 DEF Aligned
  <2>4. CASE \E turn \in [offset : Nat, limit : Sizes] :
               turn.offset % turn.limit = 0 /\ next = turnTo(turn)
    <3>1. PICK turn \in [offset : Nat, limit : Sizes] :
            turn.offset % turn.limit = 0 /\ next = turnTo(turn)
      BY <2>4
    <3>2. DOMAIN next = {"offset", "limit"}
      BY <3>1 DEF turnTo
    <3>3. query.offset = turnTo(turn).offset /\ query.limit = turnTo(turn).limit
      BY <1>3, <3>1, <3>2
    <3> QED BY <3>1, <3>3, TurnReadBack
  <2> QED BY <1>4, <2>2, <2>3, <2>4 DEF Paged
<1> QED BY <1>2, <1>4 DEF PagesInv, Aligned, explorerVars

LEMMA TurnPaged ==
  ASSUME BrowserTypeOK, PagesInv, seen.route \in {"events", "dlq"},
         NEW total \in Int,
         NEW turn \in Turns(total, limitOf(seen.query), offsetOf(seen.query))
  PROVE  Paged(turnTo(turn))
<1>1. limitOf(seen.query) \in Sizes /\ offsetOf(seen.query) \in Nat
  BY PageSizesAssumption, OffsetTyped DEF limitOf, Sizes, BrowserTypeOK
<1>2. turn.limit \in Sizes /\ turn.offset \in Nat /\ turn.offset % turn.limit = 0
  BY <1>1, TurnsAligned DEF PagesInv, Aligned
<1> DEFINE asked == [offset |-> turn.offset, limit |-> turn.limit]
<1>3. asked \in [offset : Nat, limit : Sizes] /\ asked.offset % asked.limit = 0
  BY <1>2
<1>4. turnTo(turn) = turnTo(asked)
  BY DEF turnTo
<1> QED BY <1>3, <1>4 DEF Paged

\* The steps of the two lists, by what they write.
LEMMA EventsPaged ==
  ASSUME BrowserTypeOK, ExplorerTypeOK, PagesInv, seen.route = "events", ExplorerNext
  PROVE  UNCHANGED browserVars \/ \E next : Paged(next) /\ setParams(next)
<1>1. CASE FilterEvents
  <2>1. \E type, since : changeFilter(type, since)
    BY <1>1 DEF FilterEvents
  <2>2. PICK type, since : setParams([event_type |-> type, since |-> since, offset |-> 0])
    BY <2>1 DEF changeFilter
  <2>3. Paged([event_type |-> type, since |-> since, offset |-> 0])
    BY DEF Paged
  <2> QED BY <2>2, <2>3
<1>2. CASE TurnEventsPage
  <2>1. PICK turn \in Turns(events.shown.total, limitOf(seen.query), offsetOf(seen.query)) :
          setParams(turnTo(turn))
    BY <1>2 DEF TurnEventsPage
  <2>2. events.shown.total \in Int
    BY DEF ExplorerTypeOK
  <2>3. Paged(turnTo(turn))
    BY <2>2, TurnPaged
  <2> QED BY <2>1, <2>3
<1>3. CASE BackToPageOne
  <2>1. Paged([offset |-> 0])
    BY DEF Paged
  <2> QED BY <1>3, <2>1 DEF BackToPageOne
<1>4. \A id : Paged([item |-> id])
  BY DEF Paged
<1>5. CASE SelectEvent \/ CloseDrawer
  BY <1>4, <1>5 DEF SelectEvent, CloseDrawer
<1> QED BY <1>1, <1>2, <1>3, <1>5
        DEF ExplorerNext, EventsEffect, EventsAnswer, DrawerEffect, DrawerAnswer

LEMMA DlqPaged ==
  ASSUME BrowserTypeOK, DeadTypeOK, PagesInv, seen.route = "dlq", DeadNext
  PROVE  UNCHANGED browserVars \/ \E next : Paged(next) /\ setParams(next)
<1>1. CASE FilterDlq
  <2>1. PICK type : setParams([event_type |-> type, offset |-> 0])
    BY <1>1 DEF FilterDlq
  <2>2. Paged([event_type |-> type, offset |-> 0])
    BY DEF Paged
  <2> QED BY <2>1, <2>2
<1>2. CASE TurnDlqPage
  <2>1. PICK turn \in Turns(shownTotal, limitOf(seen.query), offsetOf(seen.query)) :
          setParams(turnTo(turn))
    BY <1>2 DEF TurnDlqPage
  <2>2. shownTotal \in Int
    BY RowsTyped DEF Totals, Nothing
  <2>3. Paged(turnTo(turn))
    BY <2>2, TurnPaged
  <2> QED BY <2>1, <2>3
<1>3. \A id : Paged([item |-> id])
  BY DEF Paged
<1>4. CASE SelectFailure \/ CloseFailure
  BY <1>3, <1>4 DEF SelectFailure, CloseFailure
<1> QED BY <1>1, <1>2, <1>4
        DEF DeadNext, EventFails, DlqEffect, DlqTick, DlqAnswer, SummaryEffect, SummaryAnswer

LEMMA PagesInvOpened ==
  ASSUME AlignedLinks, Init
  PROVE  PagesInv
BY DEF AlignedLinks, Init, BrowserInit, readHash, PagesInv, parse, Aligned, ExplorerBlank,
       EventsBlank

LEMMA PagesInvStep ==
  ASSUME AlignedLinks, ConsoleInv, PagesInv, [Next]_vars
  PROVE  PagesInv'
<1>1. BrowserTypeOK /\ ExplorerTypeOK /\ DeadTypeOK /\ seen.query \in Queries
  BY DEF ConsoleInv, ConsoleTypeOK, BrowserTypeOK
<1> DEFINE Mounted == seen.route = "events" \/ UNCHANGED explorerVars
<1>2. CASE UNCHANGED browserVars /\ Mounted
  BY <1>2 DEF browserVars, PagesInv, Aligned, explorerVars
<1>3. ASSUME NEW next, setParams(next), seen.route \in {"events", "dlq"} => Paged(next), Mounted
      PROVE  PagesInv'
  BY <1>1, <1>3, SetParamsAligned
<1>4. CASE OnEvents
  BY <1>1, <1>2, <1>3, <1>4, EventsPaged DEF OnEvents
<1>5. CASE OnDlq
  BY <1>1, <1>2, <1>3, <1>5, DlqPaged DEF OnDlq, DlqFrame
<1>6. CASE SwitchTab /\ UNCHANGED explorerVars
  BY <1>6 DEF SwitchTab, PagesInv, Aligned, explorerVars
<1>7. CASE OnHow
  <2>1. CASE TourTurn
    <3>1. \E to : setParams([tour |-> to])
      BY <2>1 DEF TourTurn
    <3> QED BY <1>3, <1>7, <3>1 DEF OnHow
  <2> QED BY <1>2, <1>7, <2>1
          DEF OnHow, TourNext, TourRun, TourDone, TourConsume, TourRaceSent
<1>8. CASE OnSend \/ OnRace \/ OnMetrics \/ OnOverview
  <2>1. CASE OnSend
    BY <1>2, <2>1 DEF OnSend, SendFrame, SendNext, PickPreset, EditDraft, ToggleChecks, Send,
                      SendAnswered, Consume, TrackerEffect, TrackerLate, TrackerPolled,
                      TrackerTimer
  <2>2. CASE OnRace
    BY <1>2, <2>2 DEF OnRace
  <2>3. CASE OnMetrics
    BY <1>2, <1>6, <2>3 DEF OnMetrics, ScrapesNext, Count, Restart, ScrapeTick,
                            ScrapeTabSwitch, ScrapeRead, ScrapeLands
  <2>4. CASE OnOverview
    BY <1>2, <1>6, <2>4 DEF OnOverview, OverviewFrame, HealthNext, DependencyChanges,
                            HealthTick, HealthTabSwitch, ReadKafka, ProbeDatabase,
                            HealthAnswered, HealthFails
  <2> QED BY <1>8, <2>1, <2>2, <2>3, <2>4
<1>9. CASE PageRenders
  <2>1. seen' = readHash /\ hash' = hash
    BY <1>9 DEF PageRenders, HashChange
  <2>2. seen'.route = seen.route /\ events' = events
    BY <1>9, <2>1 DEF PageRenders, readHash, PagesInv, explorerVars
  <2> QED BY <2>1, <2>2 DEF readHash, PagesInv, Aligned, parse
<1>10. CASE PageOpens \/ LinkFollowed
  <2>1. /\ hash' \in Links
        /\ \/ readHash'.route = seen.route /\ seen' = seen
           \/ seen' = readHash'
    BY <1>10 DEF PageOpens, LinkFollowed, FollowLink
  <2>2. parse(hash'.route) \in {"events", "dlq"} => Aligned(hash'.query)
    BY <2>1 DEF AlignedLinks
  <2>3. seen'.route # "events" => events'.shown = NoPage
    <3>1. CASE PageOpens
      BY <3>1 DEF PageOpens, ExplorerOpens, EventsBlank
    <3>2. CASE LinkFollowed
      BY <3>2 DEF LinkFollowed, pagesVars, explorerVars, PagesInv
    <3> QED BY <1>10, <3>1, <3>2
  <2> QED BY <2>1, <2>2, <2>3 DEF PagesInv, readHash, Aligned
<1>11. CASE UNCHANGED vars
  BY <1>2, <1>11 DEF vars, pagesVars
<1> QED BY <1>4, <1>5, <1>7, <1>8, <1>9, <1>10, <1>11 DEF Next

LEMMA PagesInvSuffices ==
  ASSUME ConsoleInv, PagesInv
  PROVE  PagesHold
<1>1. BrowserTypeOK /\ ExplorerTypeOK /\ seen.query \in Queries
  BY DEF ConsoleInv, ConsoleTypeOK, BrowserTypeOK
<1> DEFINE total  == events.shown.total
           limit  == limitOf(seen.query)
           offset == offsetOf(seen.query)
<1>2. total \in Int /\ limit \in Nat \ {0} /\ offset \in Nat
  BY <1>1, LimitTyped, OffsetTyped DEF ExplorerTypeOK
<1>3. ASSUME eventsView = "rows", events.shown.key = queryKey(seen.query),
             NEW turn \in Turns(total, limit, offset)
      PROVE  RowsOnPage(total, turn.limit, turn.offset) > 0
  <2>1. events.shown # NoPage /\ RowsOnPage(total, events.shown.key.limit, events.shown.key.offset) > 0
    BY <1>3 DEF eventsView
  <2>2. RowsOnPage(total, limit, offset) > 0
    BY <1>3, <2>1 DEF queryKey
  <2>3. offset % limit = 0
    BY <2>1 DEF PagesInv, Aligned
  <2> HIDE DEF total, limit, offset
  <2> QED BY <1>2, <1>3, <2>2, <2>3, TurnsHoldRows
<1> QED BY <1>3 DEF PagesInv, Aligned, PagesHold

\* From links on page boundaries, every offset the lists ever come to is on a
\* page boundary, and no button leads past the last row.
THEOREM PagesHoldHolds ==
  ASSUME AlignedLinks
  PROVE  Spec => []PagesHold
<1>1. Init => PagesInv
  BY PagesInvOpened
<1>2. ConsoleInv /\ PagesInv /\ [Next]_vars => PagesInv'
  BY PagesInvStep
<1>3. ConsoleInv /\ PagesInv => PagesHold
  BY PagesInvSuffices
<1> QED BY <1>1, <1>2, <1>3, ConsoleStart, ConsoleStep, PTL DEF Spec

=============================================================================
