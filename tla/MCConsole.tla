----------------------------- MODULE MCConsole -----------------------------
EXTENDS Console

MCQuery(type, limit, offset, item, step) ==
  [NoQuery EXCEPT !.event_type = type, !.limit = limit, !.offset = offset,
                  !.item = item, !.tour = step]

\* The pages, by their plain address or by a link that was shared: a second
\* page with a drawer open, a filter with a limit and an offset the page does
\* not take, the tour at its first step and at its fifth;
\* and a route that is none.
MCLinks ==
  {[route |-> route, query |-> NoQuery] : route \in {"nowhere", "send", "metrics", "events", "dlq"}}
  \cup {[route |-> "events", query |-> MCQuery("", 2, 2, 1, 0)],
        [route |-> "dlq", query |-> MCQuery("A", 7, -1, 1, 0)],
        [route |-> "how", query |-> MCQuery("", 0, 0, 0, 1)],
        [route |-> "how", query |-> MCQuery("", 0, 0, 0, 5)]}

MCMaxMoves ==
  [route \in Routes |->
    CASE route = "dlq" -> 1 [] route \in {"events", "how"} -> 3 [] OTHER -> 2]

MCPageSizes == <<1, 2>>

MCFailures == <<[type |-> "A", raw |-> Deviation("event_type", "undotted")],
                [type |-> "B", raw |-> [Clean EXCEPT !.source.is = "other"]]>>

MCDrafts == {Clean, [Clean EXCEPT !.event_id.pad = "some"],
             Deviation("event_id", "braced"), Deviation("payload", "lighter"),
             Deviation("event_type", "undotted")}

MCTourSteps == <<"send", "find", "resend", "race", "break", "dlq">>

=============================================================================
