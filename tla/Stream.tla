------------------------------- MODULE Stream -------------------------------
(***************************************************************************)
(* The live feed: the ids of the events table (app/db/repository.py), the  *)
(* server-sent event streams of app/api/routes/stream.py and the browser   *)
(* hook frontend/src/hooks/useEventStream.ts that reads them.              *)
(*                                                                         *)
(* Three kinds of actor interleave.  A writer is a consumer instance in    *)
(* insert_event: its row takes an id when the INSERT executes and becomes  *)
(* visible when the transaction commits, so ids need not become visible in *)
(* order.  A connection is one request being served; a step of it is what  *)
(* the server does between two awaits.  A tab is one use of the hook; a    *)
(* connection it has closed, or lost, goes on at the server until the      *)
(* server notices.                                                         *)
(*                                                                         *)
(* A frame on its way to a tab is one the server has not yielded yet: a    *)
(* frame lost with its connection and a frame never sent look the same to  *)
(* the tab, and what the server does after it is the same too.             *)
(***************************************************************************)
EXTENDS Naturals, FiniteSets, FiniteSetsExt

CONSTANTS
  Writers,     \* consumer instances inserting rows
  Tabs,        \* uses of useEventStream
  Conns,       \* bound: requests to the endpoint being served at once
  MaxClients,  \* settings.stream_max_clients
  MaxBatch,    \* MAX_BATCH
  MaxId,       \* bound: ids given out by the sequence
  MaxFaults,   \* bound: drops, pauses, errors and restarts in one behaviour
  NoConn       \* no connection

ASSUME StreamConstants ==
  /\ IsFiniteSet(Conns)
  /\ MaxClients \in Nat
  /\ MaxBatch \in Nat \ {0}
  /\ MaxId \in Nat
  /\ MaxFaults \in Nat
  /\ NoConn \notin Conns

Ids == 1..MaxId
NoId == 0              \* no "after" parameter, lastIdRef.current = null
Nowhere == MaxId + 1   \* a tab that has not attached yet

VARIABLES
  nextId,       \* the sequence behind Event.id
  inserting,    \* the id of each writer's open transaction, or NoId
  stored        \* the ids of the committed rows

VARIABLES
  openStreams,  \* _open_streams
  stage,        \* where each connection is in stream_events and its generator
  after,        \* its "after" parameter
  cursor,       \* _poll_loop's cursor
  batch         \* the rows it has read and not sent yet

VARIABLES
  mode,         \* the hook's effect: opening, linked or paused
  link,         \* the tab's EventSource
  lastId,       \* lastIdRef.current
  received,     \* how many messages the hook has counted
  seen,         \* history: the ids the tab was sent
  since,        \* history: the cursor the tab first attached at
  budget

storeVars  == <<nextId, inserting, stored>>
serverVars == <<openStreams, stage, after, cursor, batch>>
tabVars    == <<mode, link, lastId, received, seen, since>>
vars == <<storeVars, serverVars, tabVars, budget>>

Stages == {"free", "requested", "admitted", "attaching", "polling", "sending"}

\* The generator has taken its slot and not released it.
Started == {"attaching", "polling", "sending"}
Streaming == {c \in Conns : stage[c] \in Started}

TypeOK ==
  /\ nextId \in 1..(MaxId + 1)
  /\ inserting \in [Writers -> Ids \cup {NoId}]
  /\ stored \in SUBSET Ids
  /\ openStreams \in Nat
  /\ stage \in [Conns -> Stages]
  /\ after \in [Conns -> Ids \cup {NoId}]
  /\ cursor \in [Conns -> Ids \cup {NoId}]
  /\ batch \in [Conns -> SUBSET Ids]
  /\ mode \in [Tabs -> {"opening", "linked", "paused"}]
  /\ link \in [Tabs -> Conns \cup {NoConn}]
  /\ lastId \in [Tabs -> Ids \cup {NoId}]
  /\ received \in [Tabs -> Nat]
  /\ seen \in [Tabs -> SUBSET Ids]
  /\ since \in [Tabs -> Ids \cup {NoId, Nowhere}]
  /\ budget \in 0..MaxFaults

Init ==
  /\ nextId = 1
  /\ inserting = [w \in Writers |-> NoId]
  /\ stored = {}
  /\ openStreams = 0
  /\ stage = [c \in Conns |-> "free"]
  /\ after = [c \in Conns |-> NoId]
  /\ cursor = [c \in Conns |-> NoId]
  /\ batch = [c \in Conns |-> {}]
  /\ mode = [t \in Tabs |-> "opening"]
  /\ link = [t \in Tabs |-> NoConn]
  /\ lastId = [t \in Tabs |-> NoId]
  /\ received = [t \in Tabs |-> 0]
  /\ seen = [t \in Tabs |-> {}]
  /\ since = [t \in Tabs |-> Nowhere]
  /\ budget = MaxFaults

Spend == budget > 0 /\ budget' = budget - 1

-----------------------------------------------------------------------------
(* The events table                                                        *)

\* insert_event executes its INSERT: nextval gives the row an id.
Insert(w) ==
  /\ inserting[w] = NoId
  /\ nextId <= MaxId
  /\ inserting' = [inserting EXCEPT ![w] = nextId]
  /\ nextId' = nextId + 1
  /\ UNCHANGED <<stored, serverVars, tabVars, budget>>

\* The transaction commits and the row is visible.
Commit(w) ==
  /\ inserting[w] # NoId
  /\ stored' = stored \cup {inserting[w]}
  /\ inserting' = [inserting EXCEPT ![w] = NoId]
  /\ UNCHANGED <<nextId, serverVars, tabVars, budget>>

\* ON CONFLICT DO NOTHING found the event stored already, or the transaction
\* was rolled back: the id is used up.
Discard(w) ==
  /\ inserting[w] # NoId
  /\ inserting' = [inserting EXCEPT ![w] = NoId]
  /\ UNCHANGED <<nextId, stored, serverVars, tabVars, budget>>

-----------------------------------------------------------------------------
(* The hook                                                                *)

\* Tabs reading from connection c, and what its end does to them: onerror
\* closes the source and sets the timer that opens the next one.
Readers(c) == {t \in Tabs : link[t] = c}
Sever(C) ==
  /\ mode' = [t \in Tabs |-> IF link[t] \in C THEN "opening" ELSE mode[t]]
  /\ link' = [t \in Tabs |-> IF link[t] \in C THEN NoConn ELSE link[t]]
  /\ UNCHANGED <<lastId, received, seen, since>>

\* Variant: the reconnect the browser would make by itself, without "after".
OpenFromNewest(t, c) ==
  /\ mode[t] = "opening"
  /\ stage[c] = "free"
  /\ mode' = [mode EXCEPT ![t] = "linked"]
  /\ link' = [link EXCEPT ![t] = c]
  /\ stage' = [stage EXCEPT ![c] = "requested"]
  /\ after' = [after EXCEPT ![c] = NoId]
  /\ UNCHANGED <<storeVars, openStreams, cursor, batch, lastId, received, seen,
                 since, budget>>

\* open(): mounted, resumed, or RETRY_MS after an error.
Open(t, c) ==
  /\ mode[t] = "opening"
  /\ stage[c] = "free"
  /\ mode' = [mode EXCEPT ![t] = "linked"]
  /\ link' = [link EXCEPT ![t] = c]
  /\ stage' = [stage EXCEPT ![c] = "requested"]
  /\ after' = [after EXCEPT ![c] = lastId[t]]
  /\ UNCHANGED <<storeVars, openStreams, cursor, batch, lastId, received, seen,
                 since, budget>>

\* The effect's cleanup on pause: the timer is cleared, the source closed.
Pause(t) ==
  /\ mode[t] # "paused"
  /\ Spend
  /\ mode' = [mode EXCEPT ![t] = "paused"]
  /\ link' = [link EXCEPT ![t] = NoConn]
  /\ UNCHANGED <<storeVars, serverVars, lastId, received, seen, since>>

Resume(t) ==
  /\ mode[t] = "paused"
  /\ mode' = [mode EXCEPT ![t] = "opening"]
  /\ UNCHANGED <<storeVars, serverVars, link, lastId, received, seen, since, budget>>

\* The network loses the connection; only the tab knows yet.
Drop(t) ==
  /\ mode[t] = "linked"
  /\ Spend
  /\ Sever({link[t]})
  /\ UNCHANGED <<storeVars, serverVars>>

-----------------------------------------------------------------------------
(* The server                                                              *)

\* The requests C end, and what they held goes with them.
Free(C) ==
  /\ stage' = [c \in Conns |-> IF c \in C THEN "free" ELSE stage[c]]
  /\ after' = [c \in Conns |-> IF c \in C THEN NoId ELSE after[c]]
  /\ cursor' = [c \in Conns |-> IF c \in C THEN NoId ELSE cursor[c]]
  /\ batch' = [c \in Conns |-> IF c \in C THEN {} ELSE batch[c]]

\* Variant: a refused tab gives up.
RefuseForGood(c) ==
  /\ stage[c] = "requested"
  /\ openStreams >= MaxClients
  /\ Free({c})
  /\ link' = [t \in Tabs |-> IF link[t] = c THEN NoConn ELSE link[t]]
  /\ UNCHANGED <<storeVars, openStreams, mode, lastId, received, seen, since, budget>>

\* stream_events answers 503, which the hook cannot tell from a drop.
Refuse(c) ==
  /\ stage[c] = "requested"
  /\ openStreams >= MaxClients
  /\ Free({c})
  /\ Sever({c})
  /\ UNCHANGED <<storeVars, openStreams, budget>>

\* stream_events returns the response; its body has not been asked for yet.
Admit(c) ==
  /\ stage[c] = "requested"
  /\ openStreams < MaxClients
  /\ stage' = [stage EXCEPT ![c] = "admitted"]
  /\ UNCHANGED <<storeVars, openStreams, after, cursor, batch, tabVars, budget>>

\* The first step of _event_frames: the slot is counted.
Begin(c) ==
  /\ stage[c] = "admitted"
  /\ openStreams' = openStreams + 1
  /\ stage' = [stage EXCEPT ![c] = IF after[c] = NoId THEN "attaching" ELSE "polling"]
  /\ cursor' = [cursor EXCEPT ![c] = after[c]]
  /\ UNCHANGED <<storeVars, after, batch, tabVars, budget>>

\* Tabs that attach with the cursor at i, having seen nothing before.
Attached(c, i) ==
  since' = [t \in Tabs |-> IF t \in Readers(c) /\ lastId[t] = NoId THEN i ELSE since[t]]

\* latest_event_id returns.
Attach(c) ==
  /\ stage[c] = "attaching"
  /\ LET newest == Max(stored \cup {NoId}) IN
       /\ cursor' = [cursor EXCEPT ![c] = newest]
       /\ Attached(c, newest)
  /\ stage' = [stage EXCEPT ![c] = "polling"]
  /\ UNCHANGED <<storeVars, openStreams, after, batch, mode, link, lastId,
                 received, seen, budget>>

\* Variant: "Event.id >= last_id".
PollFromCursor(c) ==
  LET rows == {i \in stored : i >= cursor[c]} IN
  /\ stage[c] = "polling"
  /\ rows # {}
  /\ batch' = [batch EXCEPT ![c] =
                 {i \in rows : Cardinality({j \in rows : j < i}) < MaxBatch}]
  /\ stage' = [stage EXCEPT ![c] = "sending"]
  /\ UNCHANGED <<storeVars, openStreams, after, cursor, tabVars, budget>>

\* list_events_after returns rows: the first MAX_BATCH beyond the cursor.  A
\* poll that finds none sends a comment and changes nothing.
Poll(c) ==
  LET rows == {i \in stored : i > cursor[c]} IN
  /\ stage[c] = "polling"
  /\ rows # {}
  /\ batch' = [batch EXCEPT ![c] =
                 {i \in rows : Cardinality({j \in rows : j < i}) < MaxBatch}]
  /\ stage' = [stage EXCEPT ![c] = "sending"]
  /\ UNCHANGED <<storeVars, openStreams, after, cursor, tabVars, budget>>

\* One frame reaches the tab (onmessage); after the last of the batch the
\* cursor moves to it and the generator sleeps.
Yield(c) ==
  LET i == Min(batch[c])
      last == batch[c] = {i}
      reach(f, g) == [t \in Tabs |-> IF t \in Readers(c) THEN f[t] ELSE g[t]] IN
  /\ stage[c] = "sending"
  /\ batch' = [batch EXCEPT ![c] = @ \ {i}]
  /\ stage' = [stage EXCEPT ![c] = IF last THEN "polling" ELSE @]
  /\ cursor' = [cursor EXCEPT ![c] = IF last THEN i ELSE @]
  /\ lastId' = reach([t \in Tabs |-> i], lastId)
  /\ received' = reach([t \in Tabs |-> received[t] + 1], received)
  /\ seen' = reach([t \in Tabs |-> seen[t] \cup {i}], seen)
  /\ UNCHANGED <<storeVars, openStreams, after, mode, link, since, budget>>

\* Variant: the slot is released on a disconnect only.
FailLeaks(c) ==
  /\ stage[c] \in {"attaching", "polling"}
  /\ Spend
  /\ Free({c})
  /\ Sever({c})
  /\ UNCHANGED <<storeVars, openStreams>>

\* A query raises: the generator's finally releases the slot and the response
\* breaks off.
Fail(c) ==
  /\ stage[c] \in {"attaching", "polling"}
  /\ Spend
  /\ openStreams' = openStreams - 1
  /\ Free({c})
  /\ Sever({c})
  /\ UNCHANGED storeVars

\* Variant: the slot is given back whether the generator had started or not.
GoneAlwaysReleases(c) ==
  /\ stage[c] \in {"admitted"} \cup Started
  /\ Readers(c) = {}
  /\ openStreams' = openStreams - 1
  /\ Free({c})
  /\ UNCHANGED <<storeVars, tabVars, budget>>

\* The server notices that the client has gone and cancels the response.  The
\* finally of a generator that never ran its first step does not run either.
Gone(c) ==
  /\ stage[c] \in {"admitted"} \cup Started
  /\ Readers(c) = {}
  /\ openStreams' = IF stage[c] \in Started THEN openStreams - 1 ELSE openStreams
  /\ Free({c})
  /\ UNCHANGED <<storeVars, tabVars, budget>>

\* The API process is replaced: its counter starts at zero again.
Restart ==
  /\ Spend
  /\ openStreams' = 0
  /\ Free(Conns)
  /\ Sever(Conns)
  /\ UNCHANGED storeVars

-----------------------------------------------------------------------------
Serve(c) ==
  Refuse(c) \/ Admit(c) \/ Begin(c) \/ Attach(c) \/ Poll(c) \/ Yield(c) \/ Gone(c)

Next ==
  \/ \E w \in Writers : Insert(w) \/ Commit(w) \/ Discard(w)
  \/ \E t \in Tabs :
       \/ Pause(t) \/ Resume(t) \/ Drop(t)
       \/ \E c \in Conns : Open(t, c)
  \/ \E c \in Conns : Serve(c) \/ Fail(c)
  \/ Restart

Spec == Init /\ [][Next]_vars

-----------------------------------------------------------------------------
(* Properties *)

\* stream.py:54-62: the slot count is exactly the number of generators that
\* have started and not ended, whichever way they end (an error, a disconnect
\* before or after the first frame, a restart): no slot leaks, and none is
\* given back twice.
SlotsAccounted == openStreams = Cardinality(Streaming)

\* useEventStream.ts:62-67: across drops, pauses, refusals and restarts a tab
\* is sent each row at most once and in the order of the ids, so the number it
\* shows is the number of rows it was sent.
NothingRepeats ==
  \A t \in Tabs :
    /\ received[t] = Cardinality(seen[t])
    /\ lastId[t] = Max(seen[t] \cup {NoId})

\* How far a tab has got: what it was sent, and what its connection has passed.
Reached(t) ==
  IF link[t] = NoConn THEN lastId[t] ELSE Max({lastId[t], cursor[link[t]]})

\* repository.py:135-136, "a cursor can never skip or repeat a row": of the rows
\* committed after a tab attached, it was sent all up to where it and its
\* connection's cursor have got, however often it reconnected in between.
NothingSkipped ==
  \A t \in Tabs : \A i \in stored :
    since[t] < i /\ i <= Reached(t) => i \in seen[t]

\* useEventStream.ts:22-27: a reconnect does not skip "whatever arrived during
\* the gap".  A tab that has attached never attaches again further on, past a
\* row it was not sent.
ReconnectSkipsNothing ==
  [][\A t \in Tabs : \A i \in stored : ~(since[t] < i /\ i <= since'[t])]_vars

\* stream.py:107 and config.py:52-54: stream_max_clients bounds the streams that
\* poll the database.
StreamsWithinLimit == openStreams <= MaxClients

(***************************************************************************)
(* Liveness: the server takes its steps and a tab whose timer has run out  *)
(* opens its connection.  Nothing is asked of the writers or the user.     *)
(***************************************************************************)
Fairness ==
  /\ \A c \in Conns : WF_vars(Serve(c))
  /\ \A t \in Tabs : WF_vars(\E c \in Conns : Open(t, c))

FairSpec == Spec /\ Fairness

\* A row committed after a tab attached reaches the tab in the end, through
\* refusals, drops and restarts, unless the tab is paused or has attached
\* again past it.
RowsReachTabs ==
  \A t \in Tabs, i \in Ids :
    (i \in stored /\ since[t] < i /\ mode[t] # "paused")
      ~> (i \in seen[t] \/ since[t] >= i \/ mode[t] = "paused")

=============================================================================
