------------------------------ MODULE Explorer ------------------------------
(***************************************************************************)
(* The events explorer: pages/Events.tsx, components/EventFilters.tsx and  *)
(* components/EventDrawer.tsx.                                             *)
(*                                                                         *)
(* A page renders from the parameters it has seen; its effect, which asks  *)
(* the API, runs later, and the answer to an earlier question may land     *)
(* before it, between it and its own answer, or after both.  An effect's   *)
(* cleanup cancels the request of the run before it: the requests kept     *)
(* here are those whose answer still has an effect.                        *)
(***************************************************************************)
EXTENDS Browser, Paging

CONSTANTS
  StoredIds,    \* event ids that have a row; item may name others
  MaxTotal      \* bound: rows that match a query

VARIABLES
  events,   \* [key, requests, shown, failed, loading] of Events.tsx
  drawer    \* [id, requests, shown, failed] of EventDrawer.tsx

explorerVars == <<events, drawer>>

ASSUME ExplorerAssumption ==
  /\ StoredIds \subseteq Nat
  /\ MaxTotal \in Nat

NoKey == [event_type |-> "", since |-> 0, limit |-> 0, offset |-> 0]
NoPage == [key |-> NoKey, total |-> -1]

\* queryKey: what the list depends on.
queryKey(query) ==
  [event_type |-> query.event_type, since |-> query.since,
   limit |-> limitOf(query), offset |-> offsetOf(query)]

filtered(query) == query.event_type # "" \/ query.since # 0

EventsBlank ==
  [key |-> NoKey, requests |-> {}, shown |-> NoPage, failed |-> NoKey,
   loading |-> TRUE]

DrawerBlank == [id |-> 0, requests |-> {}, shown |-> 0, failed |-> 0]

Keys == [event_type : Filters, since : Nat, limit : Nat, offset : Nat]

ExplorerTypeOK ==
  /\ events \in [key : Keys, requests : SUBSET Keys,
                 shown : [key : Keys, total : Nat \cup {-1}], failed : Keys,
                 loading : BOOLEAN]
  /\ drawer \in [id : Nat, requests : SUBSET Nat, shown : Nat, failed : Nat]

\* The page as it opens, at the start and whenever it is mounted again.
ExplorerBlank == events = EventsBlank /\ drawer = DrawerBlank
ExplorerOpens == events' = EventsBlank /\ drawer' = DrawerBlank

---------------------------------------------------------------------------
(* The list *)

\* Variant: an effect without a cleanup.
EventsEffectKeepingRequests ==
  /\ events.key # queryKey(seen.query)
  /\ events' = [events EXCEPT !.key = queryKey(seen.query),
                              !.requests = @ \cup {queryKey(seen.query)},
                              !.loading = TRUE]
  /\ UNCHANGED <<drawer, browserVars>>

\* The cleanup of the effect's last run, then the run for the new key.
EventsEffect ==
  /\ events.key # queryKey(seen.query)
  /\ events' = [events EXCEPT !.key = queryKey(seen.query),
                              !.requests = {queryKey(seen.query)},
                              !.loading = TRUE]
  /\ UNCHANGED <<drawer, browserVars>>

\* GET /events answers a page with the total of the moment, or fails.
EventsAnswer ==
  \E key \in events.requests :
    /\ \/ \E total \in 0..MaxTotal :
            events' = [events EXCEPT !.requests = @ \ {key}, !.loading = FALSE,
                         !.shown = [key |-> key, total |-> total],
                         !.failed = NoKey]
       \/ events' = [events EXCEPT !.requests = @ \ {key}, !.loading = FALSE,
                       !.failed = key]
    /\ UNCHANGED <<drawer, browserVars>>

\* What the card shows under its filters.
eventsView ==
  LET shown == events.shown
      rows  == RowsOnPage(shown.total, shown.key.limit, shown.key.offset)
  IN CASE events.failed # NoKey -> "error"
       [] events.failed = NoKey /\ shown = NoPage -> "loading"
       [] events.failed = NoKey /\ shown # NoPage /\ rows > 0 -> "rows"
       [] events.failed = NoKey /\ shown # NoPage /\ rows = 0
            /\ offsetOf(seen.query) > 0 -> "past the end"
       [] OTHER -> IF filtered(seen.query) THEN "nothing matches" ELSE "nothing stored"

\* EventFilters: a type or a source (one field stands for both), a time.  Its
\* onChange: the fields it was rendered with, one replaced, and
\* the first page.
changeFilter(type, since) ==
  setParams([event_type |-> type, since |-> since, offset |-> 0])

FilterEvents ==
  /\ \/ \E type \in Filters :
          changeFilter(type, seen.query.since)
     \/ \E since \in 0..1 : changeFilter(seen.query.event_type, since)
     \/ filtered(seen.query) /\ changeFilter("", 0)
  /\ UNCHANGED explorerVars

TurnEventsPage ==
  /\ eventsView = "rows"
  /\ \E turn \in Turns(events.shown.total, limitOf(seen.query), offsetOf(seen.query)) :
       setParams(turnTo(turn))
  /\ UNCHANGED explorerVars

BackToPageOne ==
  /\ eventsView = "past the end"
  /\ setParams([offset |-> 0])
  /\ UNCHANGED explorerVars

---------------------------------------------------------------------------
(* The drawer *)

SelectEvent ==
  /\ eventsView = "rows"
  /\ \E id \in StoredIds : setParams([item |-> id])
  /\ UNCHANGED explorerVars

CloseDrawer ==
  /\ seen.query.item # 0
  /\ setParams([item |-> 0])
  /\ UNCHANGED explorerVars

\* The drawer's effect for the id it is given; without one it is unmounted.
DrawerEffect ==
  LET id == seen.query.item IN
  /\ drawer.id # id
  /\ drawer' = [DrawerBlank EXCEPT !.id = id, !.requests = IF id = 0 THEN {} ELSE {id}]
  /\ UNCHANGED <<events, browserVars>>

\* GET /events/{event_id}: the row, or 404 and every other failure.
DrawerAnswer ==
  \E id \in drawer.requests :
    /\ \/ id \in StoredIds /\ drawer' = [drawer EXCEPT !.requests = @ \ {id}, !.shown = id]
       \/ drawer' = [drawer EXCEPT !.requests = @ \ {id}, !.failed = id]
    /\ UNCHANGED <<events, browserVars>>

ExplorerNext ==
  \/ EventsEffect \/ EventsAnswer
  \/ FilterEvents \/ TurnEventsPage \/ BackToPageOne
  \/ SelectEvent \/ CloseDrawer \/ DrawerEffect \/ DrawerAnswer

---------------------------------------------------------------------------
(* Properties *)

\* Once the list is not loading it shows, rows or error, the answer to the
\* question its effect asked last, and an open drawer the event it was opened
\* for: an answer that was overtaken by another address never lands, although
\* the address changes with requests in flight (Events.tsx:33-51,
\* EventDrawer.tsx:41-52).
ExplorerShowsWhatIsAsked ==
  /\ ~events.loading =>
       IF events.failed # NoKey THEN events.failed = events.key
                                ELSE events.shown.key = events.key
  /\ {drawer.shown, drawer.failed} \subseteq {0, drawer.id}

\* Turning pages, changing their size, filtering and following links, in any
\* order and with renders that lag behind the address, leaves the offset on a
\* page boundary of the limit in force, so no row falls between two pages; and
\* while the list shows the page asked for, each button leads to a page with
\* rows (Pagination.tsx:28-70, Events.tsx:61-66, 98-103).
PagesHold ==
  /\ seen.route \in {"events", "dlq"} =>
       offsetOf(hash.query) % limitOf(hash.query) = 0
  /\ eventsView = "rows" /\ events.shown.key = queryKey(seen.query) =>
       \A turn \in Turns(events.shown.total, limitOf(seen.query), offsetOf(seen.query)) :
         RowsOnPage(events.shown.total, turn.limit, turn.offset) > 0

=============================================================================
