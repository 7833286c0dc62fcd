------------------------------- MODULE Paging -------------------------------
(***************************************************************************)
(* components/Pagination.tsx, and the limit and offset that the two pages  *)
(* using it read from the address (pages/Events.tsx, pages/DLQ.tsx).       *)
(***************************************************************************)
EXTENDS Integers, Sequences, FiniteSetsExt

CONSTANT PageSizes   \* PAGE_SIZES, ascending; the first is the default

ASSUME PageSizesAssumption ==
  PageSizes \in Seq(Nat \ {0}) /\ PageSizes # <<>>

Sizes == {PageSizes[i] : i \in DOMAIN PageSizes}

limitOf(query) == IF query.limit \in Sizes THEN query.limit ELSE PageSizes[1]

\* Variant: an offset taken as it is written.
offsetAsWritten(query) == query.offset

offsetOf(query) == IF query.offset > 0 THEN query.offset ELSE 0

\* The rows of the page at offset when total rows match.
RowsOnPage(total, limit, offset) ==
  IF offset >= total THEN 0
  ELSE IF total - offset < limit THEN total - offset ELSE limit

pageCount(total, limit) == Max({1, (total + limit - 1) \div limit})

\* The numbered buttons: the ends and a window around the current page.
pageWindow(current, count) ==
  {0, count - 1, current - 1, current, current + 1} \cap 0..(count - 1)

\* Variant: another page size keeps the offset.
SizeMenuKeepingOffset(offset) == {[offset |-> offset, limit |-> size] : size \in Sizes}

\* The size menu starts over from the first page.
SizeMenu(offset) == {[offset |-> 0, limit |-> size] : size \in Sizes}

\* What the buttons and the size menu ask for: an offset and a limit.
Turns(total, limit, offset) ==
  LET count == pageCount(total, limit)
      current == offset \div limit
      goTo(first, size) == [offset |-> first, limit |-> size]
  IN {goTo(page * limit, limit) : page \in pageWindow(current, count)}
     \cup SizeMenu(offset)
     \cup (IF current = 0 THEN {} ELSE {goTo(offset - limit, limit)})
     \cup (IF current >= count - 1 THEN {} ELSE {goTo(offset + limit, limit)})

\* onChange of both pages: the default of either parameter is left out.
turnTo(turn) ==
  [offset |-> IF turn.offset > 0 THEN turn.offset ELSE 0,
   limit  |-> IF turn.limit # PageSizes[1] THEN turn.limit ELSE 0]

=============================================================================
