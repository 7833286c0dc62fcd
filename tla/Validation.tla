----------------------------- MODULE Validation -----------------------------
(***************************************************************************)
(* The checks an event passes before it is published: the browser's        *)
(* (lib/validate.ts), the API's (app/schemas/events.py), and the two       *)
(* verdicts on a payload in the dead letter queue, the console's           *)
(* (lib/replay.ts) and the replay script's.                                *)
(*                                                                         *)
(* A value is kept as what it `is`, the form of the `text` that String()   *)
(* makes of it once trimmed, and the white space (`pad`) around that:      *)
(* some, or so much that the text with it has more than 50 characters.     *)
(* An array of one string has the text of the string, a missing or null    *)
(* field that of its name.  A payload has the form of the JSON value it    *)
(* is, or that was typed.  The forms are the classes a check tells apart:  *)
(*   good       what the field is for                                      *)
(*   lax        an id that only the browser's pattern takes: some of the   *)
(*              hyphens, URN:UUID:, or urn:uuid: before bare hex digits    *)
(*   braced     a UUID in braces, which only the schema's parser takes     *)
(*   bad        an id that neither takes                                   *)
(*   undotted   a type without a "."                                       *)
(*   empty      no text                                                    *)
(*   long       over 50 characters                                         *)
(*   wide       good, at most 50 code points but over 50 UTF-16 units      *)
(*   oversized  an object over 32768 bytes                                 *)
(*   lighter    one over the limit as json.dumps writes it, but not as     *)
(*              the browser does (a DEL character, 1e-07)                  *)
(*   heavier    the other way round (1e-05)                                *)
(*   no object  another JSON value        broken  text that is not JSON    *)
(* Text is well-formed Unicode.                                            *)
(***************************************************************************)
EXTENDS Naturals

Strings == {"event_id", "event_type", "source"}
Fields == Strings \cup {"payload"}

Values(texts) == [is : {"string", "other", "absent"}, text : texts,
                  pad : {"none", "some", "much"}]

\* A draft, a request body or a raw_payload.  The last is an object in every
\* row, since the consumer reads its fields before it writes one.
Forms ==
  [event_id   : Values({"good", "lax", "braced", "bad"}),
   event_type : Values({"good", "undotted", "empty", "wide", "long"}),
   source     : Values({"good", "empty", "wide", "long"}),
   payload    : [is : {"other", "absent"},
                 text : {"good", "oversized", "lighter", "heavier", "no object", "broken"}]]

\* What can be typed into the composer.
DraftForms ==
  {form \in Forms : /\ \A field \in Strings : form[field].is = "string"
                    /\ form.payload.is = "other"}

Plain == [is |-> "string", text |-> "good", pad |-> "none"]
Clean == [event_id |-> Plain, event_type |-> Plain, source |-> Plain,
          payload |-> [is |-> "other", text |-> "good"]]

\* Clean but for the text of one field.
Deviation(field, form) == [Clean EXCEPT ![field].text = form]

\* String.prototype.trim, and String() of any value.
trimmed(value) == [value EXCEPT !.pad = "none"]
String(value) == [value EXCEPT !.is = "string"]

\* The forms of text that each side takes in a field.
Browser == [event_id |-> {"good", "lax"}, event_type |-> {"good"}, source |-> {"good"},
            payload |-> {"good", "lighter"}]
Schema == [event_id |-> {"good", "braced"}, event_type |-> {"good", "wide"},
           source |-> {"good", "wide"}, payload |-> {"good", "heavier"}]

\* Variant: a check that stops at fields left empty.
validateRequired(draft) == {field \in Strings : draft[field].text = "empty"}

\* The fields validateDraft reports, whatever the white space around them.
validateDraft(draft) == {field \in Fields : draft[field].text \notin Browser[field]}

\* What is sent: trimmed fields, and a payload as parsed, or a string of the
\* text typed when that is no object.
toRequestBody(draft) ==
  [field \in Fields |->
     IF field \in Strings THEN trimmed(draft[field])
     ELSE IF draft[field].text = "broken" THEN [draft[field] EXCEPT !.text = "no object"]
          ELSE draft[field]]

\* The strings of EventCreate, which trims nothing: a source of white space is
\* one, a UUID takes none around it, and all of it counts to the length.
EventCreate(body) ==
  /\ \A field \in Strings : body[field].is = "string" /\ body[field].pad # "much"
  /\ body["event_id"].pad = "none"
  /\ \A field \in Fields \ {"source"} : body[field].text \in Schema[field]
  /\ \/ body["source"].text \in Schema["source"]
     \/ body["source"].text = "empty" /\ body["source"].pad = "some"
  /\ body["payload"].is # "absent"

\* Variant: a verdict on the fields the consumer itself requires.
replayIfComplete(raw) == \A field \in Fields : raw[field].is # "absent"

\* replayVerdict(rawPayload).replayable.
replayVerdict(raw) ==
  /\ \A field \in Fields : raw[field].is # "absent"
  /\ validateDraft([field \in Fields |->
       IF field = "payload" THEN raw[field] ELSE String(raw[field])]) = {}

\* classify(raw_payload) of scripts/replay_dlq.py.
scriptReplays(raw) == EventCreate(raw)

-----------------------------------------------------------------------------
(* Where the two sides part *)

\* Passed by the browser's rules and not by the schema: a value that is no
\* string, too much white space, or an id or a payload that only they take.
Overrated(form) ==
  \/ \E field \in Strings : form[field].is = "other" \/ form[field].pad = "much"
  \/ form["event_id"].pad # "none" \/ form["event_id"].text = "lax"
  \/ form["payload"].text = "lighter"

\* The other way round: braces, a source that is white space, a text counted
\* in UTF-16 units, a payload that json.dumps writes shorter.
Underrated(form) ==
  \/ form["event_id"].text = "braced"
  \/ form["event_type"].text = "wide"
  \/ form["source"].text \in {"wide", "empty"}
  \/ form["payload"].text = "heavier"

=============================================================================
