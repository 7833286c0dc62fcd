------------------------------ MODULE Browser ------------------------------
(***************************************************************************)
(* The console's tab: the address bar, what React has read of it, and      *)
(* whether the tab is on screen (frontend/src/router.ts, App.tsx).         *)
(*                                                                         *)
(* Every page keeps what is asked of it in the hash, #/events?offset=50,   *)
(* and writes it through useHashParams.  The write is immediate; the       *)
(* components see it when the hashchange event is delivered, so a click on *)
(* what is still rendered acts on an older reading (seen) than the address *)
(* it merges into (hash).                                                  *)
(***************************************************************************)
EXTENDS Integers

CONSTANTS
  EventTypes,  \* event types that may be filtered by
  Links,     \* addresses reached by the sidebar, a card, a bookmark, Back
  MaxMoves,  \* bound: address changes and tab switches in one visit of a page
  MaxLeave   \* bound: links are followed only before so many of them

VARIABLES
  hash,      \* window.location.hash
  seen,      \* the route and parameters of the last hashchange delivered
  visible,   \* document.hidden is false
  moves      \* what MaxMoves bounds

browserVars == <<hash, seen, visible, moves>>

\* "nowhere" stands for every name that is no route.
Routes == {"overview", "stream", "events", "send", "dlq", "metrics", "how"}

\* The parameters of a hash: 0 and "" stand for a parameter that is absent,
\* item for the id of the open drawer (event=, dlq=), since for since/until.
NoQuery == [event_type |-> "", since |-> 0, limit |-> 0, offset |-> 0,
            item |-> 0, tour |-> 0]

\* What a filter may be set to, "" for not set.
Filters == EventTypes \cup {""}

Queries == [event_type : Filters, since : Nat, limit : Int, offset : Int,
            item : Nat, tour : Int]

parse(name) == IF name \in Routes THEN name ELSE "overview"

Addresses == [route : Routes \cup {"nowhere"}, query : Queries]

readHash == [route |-> parse(hash.route), query |-> hash.query]

ASSUME LinksAssumption ==
  /\ Links \subseteq Addresses
  /\ MaxMoves \in [Routes -> Nat]
  /\ MaxLeave \in Nat

BrowserTypeOK ==
  /\ hash \in Addresses
  /\ seen \in [route : Routes, query : Queries]
  /\ visible \in BOOLEAN
  /\ moves \in Nat

BrowserInit ==
  /\ hash \in Links
  /\ seen = readHash
  /\ visible = TRUE
  /\ moves = 0

Move == moves < MaxMoves[seen.route] /\ moves' = moves + 1

\* update(next): the parameters of next over those the address has by now.
setParams(next) ==
  /\ Move
  /\ hash' = [hash EXCEPT !.query =
       [f \in DOMAIN @ |-> IF f \in DOMAIN next THEN next[f] ELSE @[f]]]
  /\ hash' # hash
  /\ UNCHANGED <<seen, visible>>

\* A click on a link (href), or any other way to an address, while the tab is
\* on screen.  Within a page the hashchange is still to come.  To another page
\* it comes at once: what a page does in between is lost with the page.
FollowLink ==
  /\ visible /\ visible' = visible
  /\ moves < MaxLeave
  /\ hash' \in Links
  /\ hash' # hash
  /\ IF readHash'.route = seen.route THEN Move /\ seen' = seen
     ELSE moves' = 0 /\ seen' = readHash'

\* The onChange listeners of useRoute and useHashParams.
HashChange ==
  /\ seen # readHash
  /\ seen' = readHash
  /\ UNCHANGED <<hash, visible, moves>>

SwitchTab ==
  /\ Move
  /\ visible' = ~visible
  /\ UNCHANGED <<hash, seen>>

=============================================================================
