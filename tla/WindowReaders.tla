----------------------------- MODULE WindowReaders -----------------------------
(******************************************************************************)
(* Clients that walk through the server's bounded windows page by page while    *)
(* rows are inserted and channels change: the message window of src/history.rs, *)
(* list_messages_after and the channel directory of db.rs, the administration   *)
(* events of authorization_admin.rs and the grants of authorization.rs.         *)
(* A reader holds no transaction: every statement sees the last commit.         *)
(******************************************************************************)
EXTENDS KeysetWindow, Sequences

CONSTANTS
  Readers,
  Filters,   \* channels of messages, participants of events
  Names,     \* channel names, as numbers in the order of the names
  Limit,     \* the page size asked for
  MaxRows    \* bound on the inserted rows

ASSUME WindowConstants ==
  /\ Names \subseteq Nat
  /\ Limit \in Nat \ {0} /\ MaxRows \in Nat
ASSUME NullIsNoKey == NULL \notin Nat \cup Filters

VARIABLES
  rows,      \* an AUTOINCREMENT table: per id the row's filter column
  channels,  \* per name: NULL or visibility and status
  reader     \* per reader: its walk

vars == <<rows, channels, reader>>

Listing == [visibility : {"public", "private"}, status : {"active", "archived"}]

\* "after" is list_messages_after; "guest" and "directory" are the channel directory.
Styles == {"window", "surplus", "after", "guest", "directory"}

Walks == [style : Styles, filter : Filters \cup {NULL}, order : Orders,
          stage : {"idle", "asked", "paged", "answered"},
          cursor : Nat \cup {NULL}, page : SUBSET Nat, more : BOOLEAN,
          seen : SUBSET Nat,    \* rows of the pages before this one
          base : Nat,           \* history: rows there when the walk read its first page
          steady : SUBSET Nat]  \* history: names listed ever since

TypeOK ==
  /\ rows \in Seq(Filters)
  /\ channels \in [Names -> Listing \cup {NULL}]
  /\ reader \in [Readers -> Walks]

NoWalk == [style |-> "window", filter |-> NULL, order |-> "desc", stage |-> "idle",
           cursor |-> NULL, page |-> {}, more |-> FALSE, seen |-> {}, base |-> 0, steady |-> {}]

Init ==
  /\ rows = <<>>
  /\ channels = [n \in Names |-> NULL]
  /\ reader = [r \in Readers |-> NoWalk]

--------------------------------------------------------------------------------
(* What the statements of a walk range over *)

Matching(table, filter) == {i \in DOMAIN table : filter = NULL \/ table[i] = filter}

Public(listing) == listing.visibility = "public" /\ listing.status = "active"

Listed(table, style) ==
  {n \in Names : table[n] # NULL /\ (style = "guest" => Public(table[n]))}

OfChannels(style) == style \in {"guest", "directory"}

Keys(w) == IF OfChannels(w.style) THEN Listed(channels, w.style) ELSE Matching(rows, w.filter)

--------------------------------------------------------------------------------
(* A walk *)

\* before and after go with one order each; only windows of events, and readers of every
\* channel, go without a filter, and only messages and events can be walked backwards.
Start(r) ==
  /\ reader[r].stage = "idle"
  /\ \E style \in Styles, order \in Orders, filter \in Filters \cup {NULL} :
       /\ style \notin {"window", "surplus"} => order = "asc"
       /\ style = "window" => filter # NULL
       /\ OfChannels(style) => filter = NULL
       /\ reader' = [reader EXCEPT ![r] = [NoWalk EXCEPT !.style = style, !.order = order,
                                             !.filter = filter, !.stage = "asked"]]
  /\ UNCHANGED <<rows, channels>>

FirstPage(w) ==
  IF w.cursor # NULL THEN w
  ELSE [w EXCEPT !.base = Len(rows), !.steady = Listed(channels, w.style)]

Answered(w, page, more) == [w EXCEPT !.stage = "answered", !.page = page, !.more = more]

\* read_administration_event_window, read_authorization_policy_window,
\* read_channel_directory_window: one statement decides page and has_more.
ReadSurplus(w) ==
  LET fetched == Fetched(Keys(w), w.order, w.cursor, Limit)
  IN Answered(w, Truncated(fetched, w.order, Limit), Surplus(fetched, Limit))

\* list_messages_after says nothing about more; its reader asks until nothing comes.
ReadAfter(w) ==
  LET page == Page(Keys(w), "asc", w.cursor, Limit)
  IN Answered(w, page, page # {})

\* list_message_window: the page.  An empty one needs no second statement.
ReadWindow(w) ==
  LET page == Page(Keys(w), w.order, w.cursor, Limit)
  IN IF page = {} THEN Answered(w, {}, FALSE)
     ELSE [w EXCEPT !.stage = "paged", !.page = page]

ReadPage(r) ==
  LET w == FirstPage(reader[r]) IN
  /\ w.stage = "asked"
  /\ reader' = [reader EXCEPT ![r] =
                  CASE w.style = "window" -> ReadWindow(w)
                    [] w.style = "after" -> ReadAfter(w)
                    [] OTHER -> ReadSurplus(w)]
  /\ UNCHANGED <<rows, channels>>

\* message_window: has_message_before or has_message_after of the last row.
ReadMore(r) ==
  LET w == reader[r] IN
  /\ w.stage = "paged"
  /\ reader' = [reader EXCEPT ![r] = Answered(w, w.page, HasMore(Keys(w), w.order, w.page))]
  /\ UNCHANGED <<rows, channels>>

\* The client asks for the page after the last row it got.
Continue(r) ==
  LET w == reader[r] IN
  /\ w.stage = "answered" /\ w.more
  /\ reader' = [reader EXCEPT ![r] =
                  [w EXCEPT !.stage = "asked", !.seen = w.seen \cup w.page, !.page = {},
                            !.cursor = LastOf(w.page, w.order)]]
  /\ UNCHANGED <<rows, channels>>

\* The client has everything, or stops.
Leave(r) ==
  /\ reader[r].stage = "answered"
  /\ reader' = [reader EXCEPT ![r] = NoWalk]
  /\ UNCHANGED <<rows, channels>>

--------------------------------------------------------------------------------
(* The tables *)

\* A committed write: SQLite has one writer, so ids become visible in their order.
Insert(f) ==
  /\ Len(rows) < MaxRows
  /\ rows' = Append(rows, f)
  /\ UNCHANGED <<channels, reader>>

\* A name that is not listed to a walk is not one it must see.
Relist(table) ==
  /\ channels' = table
  /\ reader' = [r \in Readers |->
                  [reader[r] EXCEPT !.steady = @ \cap Listed(table, reader[r].style)]]
  /\ UNCHANGED rows

\* create_channel, and ensure_channel on the first write.
CreateChannel(n) ==
  /\ channels[n] = NULL
  /\ \E v \in {"public", "private"} :
       Relist([channels EXCEPT ![n] = [visibility |-> v, status |-> "active"]])

\* update_channel
UpdateChannel(n) ==
  /\ channels[n] # NULL
  /\ \E l \in Listing \ {channels[n]} : Relist([channels EXCEPT ![n] = l])

Next ==
  \/ \E r \in Readers :
       Start(r) \/ ReadPage(r) \/ ReadMore(r) \/ Continue(r) \/ Leave(r)
  \/ \E f \in Filters : Insert(f)
  \/ \E n \in Names : CreateChannel(n) \/ UpdateChannel(n)

Spec == Init /\ [][Next]_vars

--------------------------------------------------------------------------------
(* Properties *)

\* The rows a walk has been given, the page in hand included.
Given(w) == w.seen \cup w.page

\* The last row a walk was given: of the page in hand or the one before.
Reached(w) == IF w.page = {} THEN w.cursor ELSE LastOf(w.page, w.order)

\* A walk through messages or events has been given exactly the matching rows it has
\* passed: downwards those from the rows there at its first page to the last one given,
\* upwards all up to the last one given.  No insert makes it skip a row.  And no row
\* is given twice in a walk, in any of the windows, whatever is inserted, hidden or
\* shown between the pages.
WalkExact ==
  \A r \in Readers :
    LET w == reader[r] IN
    /\ w.seen \cap w.page = {}
    /\ w.stage # "idle" /\ ~OfChannels(w.style) /\ Reached(w) # NULL =>
         Given(w) = {i \in Matching(rows, w.filter) :
                       IF w.order = "desc" THEN Reached(w) <= i /\ i <= w.base
                       ELSE i <= Reached(w)}

\* has_more is never wrong to the client's harm: a walk downwards that is told there is no
\* more has reached the oldest row and one told there is more will find it; a walk upwards
\* told there is more will find it, and told there is no more has all rows of its first
\* page's time.  The page and has_more may come from different commits.
HasMoreTruthful ==
  \A r \in Readers :
    LET w == reader[r]
        left == {k \in Keys(w) : Reached(w) = NULL \/ Precedes(w.order, Reached(w), k)}
    IN w.stage = "answered" /\ w.style \in {"window", "surplus"} =>
         /\ w.more => left # {}
         /\ ~w.more /\ w.order = "desc" =>
              \A k \in left : Reached(w) = NULL /\ w.base < k
         /\ ~w.more /\ w.order = "asc" => \A k \in left : w.base < k

\* A walk through the channel directory that has come to its end was given every channel
\* that was listed to it from its first page on, although channels come, are hidden
\* and reappear between the pages.
DirectoryComplete ==
  \A r \in Readers :
    LET w == reader[r] IN
    w.stage = "answered" /\ OfChannels(w.style) /\ ~w.more => w.steady \subseteq Given(w)
================================================================================
