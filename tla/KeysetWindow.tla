----------------------------- MODULE KeysetWindow ------------------------------
(******************************************************************************)
(* The bounded reads of the server: WHERE key beyond the cursor, ORDER BY key,  *)
(* LIMIT n.  A table is the set of the keys of its rows that match the reader's *)
(* filter.  src/history.rs asks in a second statement whether there is more;    *)
(* the other windows fetch one row too many and truncate.                       *)
(******************************************************************************)
EXTENDS Naturals, FiniteSets

CONSTANT NULL   \* an absent cursor or filter

Orders == {"desc", "asc"}

\* The row with key i is returned before the row with key j.
Precedes(order, i, j) == IF order = "desc" THEN i > j ELSE i < j

\* Mutant of Beyond: the cursor's own row is returned again.
BeyondOrAt(keys, order, cursor) ==
  {k \in keys : cursor = NULL \/ ~Precedes(order, k, cursor)}

Beyond(keys, order, cursor) == {k \in keys : cursor = NULL \/ Precedes(order, cursor, k)}

\* The first limit of the rows beyond the cursor.
Page(keys, order, cursor, limit) ==
  LET rest == Beyond(keys, order, cursor)
  IN {k \in rest : Cardinality({j \in rest : Precedes(order, j, k)}) < limit}

\* rows.last()
LastOf(page, order) == CHOOSE k \in page : \A j \in page \ {k} : Precedes(order, j, k)

\* Mutant of HasMore: the last row counts as a row beyond itself.
HasMoreOrLast(keys, order, page) ==
  page # {} /\ \E k \in keys : ~Precedes(order, k, LastOf(page, order))

\* has_message_before, has_message_after: a statement of its own after the page.
HasMore(keys, order, page) ==
  page # {} /\ \E k \in keys : Precedes(order, LastOf(page, order), k)

\* LIMIT n + 1: the answer keeps n rows, and the surplus row means more.
Fetched(keys, order, cursor, limit) == Page(keys, order, cursor, limit + 1)

\* Mutant of Truncated: the surplus row is kept and the first ones are dropped.
TruncatedFront(fetched, order, limit) ==
  Page(fetched, IF order = "desc" THEN "asc" ELSE "desc", NULL, limit)

Truncated(fetched, order, limit) == Page(fetched, order, NULL, limit)

Surplus(fetched, limit) == Cardinality(fetched) > limit
================================================================================
