------------------------------ MODULE WindowProofs ------------------------------
(******************************************************************************)
(* Proofs about WindowReaders: what a client that walks through bounded pages   *)
(* has been given, whatever is inserted, hidden or shown between its pages.     *)
(* Each step of a walk reads a page of KeysetProofs; Walking is the invariant.  *)
(******************************************************************************)
EXTENDS WindowReaders, KeysetProofs

--------------------------------------------------------------------------------
(* Walks *)

Listings == [Names -> Listing \cup {NULL}]

\* What a walk reads, of a table of rows and a directory of channels.
KeysOf(w, table, listings) ==
  IF OfChannels(w.style) THEN Listed(listings, w.style) ELSE Matching(table, w.filter)

\* The pages of a walk follow each other.
Ordered(w) ==
  /\ OfChannels(w.style) \/ w.style = "after" => w.order = "asc"
  /\ w.stage \in {"idle", "asked"} => w.page = {}
  /\ w.page # {} => HasLast(w.page, w.order)
  /\ w.stage = "paged" => w.page # {} /\ w.style = "window"
  /\ w.stage = "answered" /\ w.more => w.page # {}
  /\ w.cursor = NULL => w.seen = {}
  /\ w.cursor # NULL =>
       /\ w.cursor \in w.seen
       /\ \A k \in w.seen : k = w.cursor \/ Precedes(w.order, k, w.cursor)
       /\ \A k \in w.page : Precedes(w.order, w.cursor, k)

Passed(w, table) ==
  {i \in Matching(table, w.filter) :
     IF w.order = "desc" THEN Reached(w) <= i /\ i <= w.base ELSE i <= Reached(w)}

\* A walk through rows has been given what it has passed.
Exact(w, table) ==
  w.stage # "idle" /\ ~OfChannels(w.style) =>
    /\ w.base <= Len(table)
    /\ Reached(w) # NULL => Given(w) = Passed(w, table)

Left(w, table) ==
  {k \in Matching(table, w.filter) : Reached(w) = NULL \/ Precedes(w.order, Reached(w), k)}

\* What an answer says of the rows that are left.
Truthful(w, table) ==
  w.stage = "answered" /\ w.style \in {"window", "surplus"} =>
    /\ w.more => Left(w, table) # {}
    /\ ~w.more /\ w.order = "desc" =>
         \A k \in Left(w, table) : Reached(w) = NULL /\ w.base < k
    /\ ~w.more /\ w.order = "asc" => \A k \in Left(w, table) : w.base < k

\* A walk through channels has been given the steady ones that it has passed.
Directory(w, listings) ==
  OfChannels(w.style) =>
    /\ w.steady \subseteq Listed(listings, w.style)
    /\ Reached(w) # NULL => \A n \in w.steady : n <= Reached(w) => n \in Given(w)
    /\ w.stage = "answered" /\ ~w.more => w.steady \subseteq Given(w)

GoodWalk(w, table, listings) ==
  Ordered(w) /\ Exact(w, table) /\ Truthful(w, table) /\ Directory(w, listings)

\* A walk that has reached a row was given it, and none beyond it.
LEMMA ReachedIsLast ==
  ASSUME NEW w \in Walks, Ordered(w), Reached(w) # NULL
  PROVE  /\ Reached(w) \in Given(w) /\ Reached(w) \in Nat
         /\ \A k \in Given(w) : k = Reached(w) \/ Precedes(w.order, k, Reached(w))
<1>1. /\ w.page \subseteq Nat /\ w.seen \subseteq Nat /\ w.order \in Orders
      /\ w.cursor # NULL => w.cursor \in Nat
  BY DEF Walks
<1>2. CASE w.page = {}
  BY <1>1, <1>2 DEF Reached, Given, Ordered
<1>3. CASE w.page # {}
  <2> DEFINE last == LastOf(w.page, w.order)
  <2>1. last \in w.page /\ \A k \in w.page : k = last \/ Precedes(w.order, k, last)
    BY <1>3, LastOfIs DEF Ordered
  <2>2. Reached(w) = last
    BY <1>3 DEF Reached
  <2> HIDE DEF last
  <2>3. ASSUME NEW k \in w.seen PROVE Precedes(w.order, k, last)
    <3>1. w.cursor # NULL /\ Precedes(w.order, w.cursor, last)
          /\ (k = w.cursor \/ Precedes(w.order, k, w.cursor))
      BY <2>1 DEF Ordered
    <3>2. k \in Nat /\ last \in Nat /\ w.cursor \in Nat
      BY <1>1, <2>1, <3>1
    <3> QED
      BY <3>1, <3>2 DEF Precedes
  <2> QED
    BY <1>1, <2>1, <2>2, <2>3 DEF Given
<1> QED
  BY <1>2, <1>3

\* The rows of a table, and the channels in the order of their names, can be walked
\* through.
LEMMA KeysWalkable ==
  ASSUME NEW table \in Seq(Filters), NEW listings, NEW w \in Walks,
         OfChannels(w.style) => w.order = "asc"
  PROVE  Walkable(KeysOf(w, table, listings), w.order)
<1>1. w.order \in Orders
  BY DEF Walks
<1>2. CASE OfChannels(w.style)
  BY <1>1, <1>2, WindowConstants DEF Walkable, KeysOf, Listed
<1>3. CASE ~OfChannels(w.style)
  <2>1. Matching(table, w.filter) \subseteq 1..Len(table) /\ Len(table) \in Nat
    BY DEF Matching
  <2> QED
    BY <1>1, <1>3, <2>1 DEF Walkable, KeysOf
<1> QED
  BY <1>2, <1>3

\* A page that has been read continues the walk.
LEMMA PageGood ==
  ASSUME NEW table \in Seq(Filters), NEW listings, NEW w \in Walks, NEW v \in Walks,
         Ordered(w), Exact(w, table), Directory(w, listings), w.stage = "asked",
         v.style = w.style, v.filter = w.filter, v.order = w.order, v.cursor = w.cursor,
         v.seen = w.seen, v.stage \in {"paged", "answered"},
         v.base = IF w.cursor = NULL THEN Len(table) ELSE w.base,
         v.steady = IF w.cursor = NULL THEN Listed(listings, w.style) ELSE w.steady,
         v.page = Page(KeysOf(w, table, listings), w.order, w.cursor, Limit),
         v.stage = "paged" => v.page # {} /\ w.style = "window",
         v.stage = "answered" /\ v.more => v.page # {},
         v.stage = "answered" /\ w.style # "after" =>
           (v.more <=> \E k \in Beyond(KeysOf(w, table, listings), w.order, w.cursor) :
                         k \notin v.page)
  PROVE  GoodWalk(v, table, listings)
<1> DEFINE keys == KeysOf(w, table, listings)
           rest == Beyond(keys, w.order, w.cursor)
           last == LastOf(v.page, w.order)
<1>1. Walkable(keys, w.order) /\ keys \subseteq Nat
  BY KeysWalkable DEF Ordered, Walkable
<1>2. /\ v.page \subseteq rest
      /\ v.page = {} => rest = {}
      /\ v.page # {} => HasLast(v.page, w.order)
      /\ \A k \in v.page, j \in rest : Precedes(w.order, j, k) => j \in v.page
  BY <1>1, PageIsPrefix, WindowConstants
<1>3. rest = {k \in keys : w.cursor = NULL \/ Precedes(w.order, w.cursor, k)}
  BY DEF Beyond
<1>4. /\ w.page = {} /\ Reached(w) = w.cursor /\ Given(w) = w.seen
      /\ w.order \in Orders
      /\ w.cursor # NULL => w.cursor \in Nat
  BY DEF Ordered, Reached, Given, Walks
<1>5. /\ v.page = {} => Reached(v) = w.cursor
      /\ v.page # {} => Reached(v) = last
      /\ Given(v) = w.seen \union v.page
  BY DEF Reached, Given
<1>6. v.page # {} => last \in v.page /\ \A j \in v.page : j = last \/ Precedes(w.order, j, last)
  BY <1>2, LastOfIs
<1> HIDE DEF keys, rest, last
<1>7. ASSUME v.page # {}
      PROVE  /\ last \in Nat /\ last \in rest /\ last # NULL
             /\ \A k \in keys : k \in v.page <=> k \in rest /\ ~Precedes(w.order, last, k)
             /\ w.cursor # NULL => Precedes(w.order, w.cursor, last)
             /\ \A k \in keys : Precedes(w.order, last, k) => k \in rest
  <2>1. last \in rest /\ last \in keys /\ last \in Nat /\ last # NULL
    BY <1>1, <1>2, <1>3, <1>6, <1>7, NullIsNoKey
  <2>2. w.cursor # NULL => Precedes(w.order, w.cursor, last)
    BY <1>3, <2>1
  <2>3. ASSUME NEW k \in keys, Precedes(w.order, last, k) PROVE k \in rest
    <3>1. k \in Nat
      BY <1>1
    <3>2. w.cursor # NULL => Precedes(w.order, w.cursor, k)
      BY <1>4, <2>1, <2>2, <2>3, <3>1 DEF Precedes
    <3> QED
      BY <1>3, <3>2
  <2>4. ASSUME NEW k \in keys
        PROVE  k \in v.page <=> k \in rest /\ ~Precedes(w.order, last, k)
    <3>1. k \in Nat
      BY <1>1
    <3>2. k \in v.page => k \in rest /\ ~Precedes(w.order, last, k)
      BY <1>2, <1>6, <1>7, <2>1, <3>1 DEF Precedes
    <3>3. ASSUME k \in rest, ~Precedes(w.order, last, k) PROVE k \in v.page
      <4>1. k = last \/ Precedes(w.order, k, last)
        BY <2>1, <3>1, <3>3 DEF Precedes
      <4> QED
        BY <1>2, <1>6, <1>7, <3>3, <4>1
    <3> QED
      BY <3>2, <3>3
  <2> QED
    BY <2>1, <2>2, <2>3, <2>4
<1>8. Ordered(v)
  BY <1>2, <1>3 DEF Ordered
<1>9. Exact(v, table)
  <2> SUFFICES ASSUME ~OfChannels(w.style)
               PROVE  /\ v.base <= Len(table)
                      /\ Reached(v) # NULL => Given(v) = Passed(v, table)
    BY DEF Exact
  <2>1. keys = Matching(table, w.filter) /\ keys \subseteq 1..Len(table) /\ Len(table) \in Nat
    BY DEF keys, KeysOf, Matching
  <2>2. /\ w.base <= Len(table) /\ w.base \in Nat
        /\ w.cursor # NULL => w.seen = Passed(w, table)
    BY <1>4 DEF Exact, Walks
  <2>3. v.base <= Len(table)
    BY <2>1, <2>2
  <2>4. CASE v.page = {} /\ w.cursor # NULL
    <3>1. Passed(v, table) = Passed(w, table)
      BY <1>4, <1>5, <2>4 DEF Passed
    <3> QED
      BY <1>5, <2>2, <2>3, <2>4, <3>1
  <2>5. CASE v.page # {} /\ w.cursor = NULL
    <3>1. Given(v) = v.page
      BY <1>5, <2>5 DEF Ordered
    <3>2. \A k \in keys : k \in v.page <=> ~Precedes(w.order, last, k)
      BY <1>3, <1>7, <2>5
    <3>3. \A k \in keys : k \in Nat /\ k <= v.base
      BY <2>1, <2>5
    <3>4. \A k \in keys : k \in v.page <=> IF v.order = "desc" THEN last <= k /\ k <= v.base
                                          ELSE k <= last
      BY <1>7, <2>5, <3>2, <3>3 DEF Precedes
    <3>5. Passed(v, table) = {k \in keys : IF v.order = "desc" THEN last <= k /\ k <= v.base
                                            ELSE k <= last}
      BY <1>5, <2>1, <2>5 DEF Passed
    <3> QED
      BY <1>2, <1>3, <2>3, <3>1, <3>4, <3>5
  <2>6. CASE v.page # {} /\ w.cursor # NULL
    <3>1. w.seen = {k \in keys : IF w.order = "desc" THEN w.cursor <= k /\ k <= w.base
                                  ELSE k <= w.cursor}
      BY <1>4, <2>1, <2>2, <2>6 DEF Passed
    <3>2. w.cursor \in w.seen
      BY <2>6 DEF Ordered
    <3>3. \A k \in keys : k \in Nat
      BY <2>1
    <3>4. \A k \in keys : k \in v.page <=>
            Precedes(w.order, w.cursor, k) /\ ~Precedes(w.order, last, k)
      BY <1>3, <1>7, <2>6
    <3>5. \A k \in keys : k \in w.seen \/ k \in v.page <=>
            IF v.order = "desc" THEN last <= k /\ k <= v.base ELSE k <= last
      <4> SUFFICES ASSUME NEW k \in keys
                   PROVE  k \in w.seen \/ k \in v.page <=>
                            IF v.order = "desc" THEN last <= k /\ k <= v.base ELSE k <= last
        OBVIOUS
      <4>1. v.base = w.base
        BY <2>6
      <4>2. CASE w.order = "desc"
        <5>1. k \in w.seen <=> w.cursor <= k /\ k <= w.base
          BY <3>1, <4>2
        <5>2. k \in v.page <=> k < w.cursor /\ ~(k < last)
          BY <1>4, <1>7, <2>6, <3>3, <3>4, <4>2 DEF Precedes
        <5>3. last < w.cursor /\ w.cursor <= w.base
          BY <1>4, <1>7, <2>6, <3>1, <3>2, <4>2 DEF Precedes
        <5> QED
          BY <1>4, <1>7, <2>2, <2>6, <3>3, <4>1, <4>2, <5>1, <5>2, <5>3
      <4>3. CASE w.order # "desc"
        <5>1. k \in w.seen <=> k <= w.cursor
          BY <3>1, <4>3
        <5>2. k \in v.page <=> w.cursor < k /\ ~(last < k)
          BY <1>4, <1>7, <2>6, <3>3, <3>4, <4>3 DEF Precedes
        <5>3. w.cursor < last
          BY <1>4, <1>7, <2>6, <4>3 DEF Precedes
        <5> QED
          BY <1>4, <1>7, <2>6, <3>3, <4>3, <5>1, <5>2, <5>3
      <4> QED
        BY <4>2, <4>3
    <3>6. Passed(v, table) = {k \in keys : IF v.order = "desc" THEN last <= k /\ k <= v.base
                                            ELSE k <= last}
      BY <1>5, <2>1, <2>6 DEF Passed
    <3>7. w.seen \subseteq keys /\ v.page \subseteq keys
      BY <1>2, <1>3, <3>1
    <3> QED
      BY <1>5, <2>3, <3>5, <3>6, <3>7
  <2>7. CASE v.page = {} /\ w.cursor = NULL
    BY <1>5, <2>3, <2>7
  <2> QED
    BY <2>4, <2>5, <2>6, <2>7
<1>10. Truthful(v, table)
  <2> SUFFICES ASSUME v.stage = "answered", w.style \in {"window", "surplus"}
               PROVE  v.more <=> Left(v, table) # {}
    BY DEF Truthful
  <2>1. keys = Matching(table, w.filter) /\ w.style # "after"
    BY DEF keys, KeysOf, OfChannels
  <2>2. v.more <=> \E k \in rest : k \notin v.page
    BY <2>1 DEF rest, keys
  <2>3. Left(v, table) = {k \in rest : k \notin v.page}
    <3>1. CASE v.page = {}
      BY <1>3, <1>5, <2>1, <3>1 DEF Left
    <3>2. CASE v.page # {}
      <4>1. Left(v, table) = {k \in keys : Precedes(w.order, last, k)}
        BY <1>5, <1>7, <2>1, <3>2 DEF Left
      <4>2. rest \subseteq keys
        BY <1>3
      <4> QED
        BY <1>7, <3>2, <4>1, <4>2
    <3> QED
      BY <3>1, <3>2
  <2> QED
    BY <2>2, <2>3
<1>11. Directory(v, listings)
  <2> SUFFICES ASSUME OfChannels(w.style)
               PROVE  /\ v.steady \subseteq Listed(listings, w.style)
                      /\ Reached(v) # NULL => \A n \in v.steady : n <= Reached(v) => n \in Given(v)
                      /\ v.stage = "answered" /\ ~v.more => v.steady \subseteq Given(v)
    BY DEF Directory
  <2>1. keys = Listed(listings, w.style) /\ w.order = "asc" /\ w.style # "after"
    BY DEF keys, KeysOf, Ordered, OfChannels
  <2>2. v.steady \subseteq keys
    BY <2>1 DEF Directory
  <2>3. \A n \in v.steady : n \in rest \/ (w.cursor # NULL /\ n <= w.cursor /\ n \in w.seen)
    <3> SUFFICES ASSUME NEW n \in v.steady, n \notin rest
                 PROVE  w.cursor # NULL /\ n <= w.cursor /\ n \in w.seen
      OBVIOUS
    <3>1. n \in Nat /\ w.cursor # NULL /\ ~Precedes(w.order, w.cursor, n)
      BY <1>1, <1>3, <2>2
    <3>2. n <= w.cursor
      BY <1>4, <2>1, <3>1 DEF Precedes
    <3> QED
      BY <1>4, <3>1, <3>2 DEF Directory
  <2>4. ASSUME NEW n \in v.steady, Reached(v) # NULL, n <= Reached(v) PROVE n \in Given(v)
    <3>1. CASE n \in rest
      <4>1. v.page # {}
        BY <1>2, <3>1
      <4>2. n \in Nat /\ ~Precedes(w.order, last, n)
        BY <1>1, <1>5, <1>7, <2>1, <2>2, <2>4, <4>1 DEF Precedes
      <4> QED
        BY <1>5, <1>7, <2>2, <3>1, <4>1, <4>2
    <3>2. CASE n \notin rest
      BY <1>5, <2>3, <3>2
    <3> QED
      BY <3>1, <3>2
  <2>5. ASSUME v.stage = "answered", ~v.more PROVE v.steady \subseteq Given(v)
    <3>1. \A k \in rest : k \in v.page
      BY <2>1, <2>5 DEF rest, keys
    <3> QED
      BY <1>5, <2>3, <3>1
  <2> QED
    BY <2>1, <2>2, <2>4, <2>5
<1> QED
  BY <1>8, <1>9, <1>10, <1>11 DEF GoodWalk

Walking ==
  \A r \in Readers : GoodWalk(reader[r], rows, channels)

\* A walk that has not begun has nothing to keep.
LEMMA FreshWalk ==
  ASSUME NEW table \in Seq(Filters), NEW listings, NEW w \in Walks,
         w.stage \in {"idle", "asked"}, w.cursor = NULL, w.page = {}, w.seen = {},
         w.base = 0, w.steady = {}, OfChannels(w.style) \/ w.style = "after" => w.order = "asc"
  PROVE  GoodWalk(w, table, listings)
<1>1. Len(table) \in Nat /\ Reached(w) = NULL
  BY DEF Reached
<1>2. Ordered(w)
  BY DEF Ordered
<1>3. Exact(w, table) /\ Truthful(w, table) /\ Directory(w, listings)
  BY <1>1 DEF Exact, Truthful, Directory
<1> QED
  BY <1>2, <1>3 DEF GoodWalk

\* A step of one reader changes its walk only.
LEMMA OneReader ==
  ASSUME TypeOK, Walking, NEW r \in Readers, NEW v \in Walks, UNCHANGED <<rows, channels>>,
         reader' = [reader EXCEPT ![r] = v], GoodWalk(v, rows, channels)
  PROVE  TypeOK' /\ Walking'
<1>1. reader \in [Readers -> Walks] /\ rows' = rows /\ channels' = channels
  BY DEF TypeOK
<1>2. reader' \in [Readers -> Walks] /\ reader'[r] = v
      /\ \A q \in Readers \ {r} : reader'[q] = reader[q]
  BY <1>1
<1>3. TypeOK'
  BY <1>1, <1>2 DEF TypeOK
<1>4. ASSUME NEW q \in Readers PROVE GoodWalk(reader'[q], rows', channels')
  <2>1. CASE q = r
    BY <1>1, <1>2, <2>1
  <2>2. CASE q # r
    BY <1>1, <1>2, <2>2 DEF Walking
  <2> QED
    BY <2>1, <2>2
<1>5. Walking'
  BY <1>4 DEF Walking
<1> QED
  BY <1>3, <1>5

\* A new walk, or none.
LEMMA StartSteps ==
  ASSUME TypeOK, Walking, NEW r \in Readers, Start(r) \/ Leave(r)
  PROVE  TypeOK' /\ Walking'
<1>1. rows \in Seq(Filters)
  BY DEF TypeOK
<1>2. CASE Start(r)
  <2>1. PICK style \in Styles, order \in Orders, filter \in Filters \cup {NULL} :
          /\ style \notin {"window", "surplus"} => order = "asc"
          /\ reader' = [reader EXCEPT ![r] = [NoWalk EXCEPT !.style = style, !.order = order,
                                                !.filter = filter, !.stage = "asked"]]
          /\ UNCHANGED <<rows, channels>>
    BY <1>2 DEF Start
  <2> DEFINE v == [NoWalk EXCEPT !.style = style, !.order = order, !.filter = filter,
                                 !.stage = "asked"]
  <2>2. /\ v \in Walks /\ v.stage = "asked" /\ v.style = style /\ v.order = order
        /\ v.cursor = NULL /\ v.page = {} /\ v.seen = {} /\ v.base = 0 /\ v.steady = {}
    BY DEF NoWalk, Walks
  <2>3. reader' = [reader EXCEPT ![r] = v] /\ UNCHANGED <<rows, channels>>
    BY <2>1
  <2> HIDE DEF v
  <2>4. OfChannels(v.style) \/ v.style = "after" => v.order = "asc"
    BY <2>1, <2>2 DEF OfChannels
  <2>5. GoodWalk(v, rows, channels)
    BY <1>1, <2>2, <2>4, FreshWalk
  <2> QED
    BY <2>2, <2>3, <2>5, OneReader
<1>3. CASE Leave(r)
  <2>1. /\ NoWalk \in Walks /\ NoWalk.stage = "idle" /\ NoWalk.style = "window"
        /\ NoWalk.cursor = NULL /\ NoWalk.page = {} /\ NoWalk.seen = {}
        /\ NoWalk.base = 0 /\ NoWalk.steady = {}
    BY DEF NoWalk, Walks, Styles, Orders
  <2>2. GoodWalk(NoWalk, rows, channels)
    BY <1>1, <2>1, FreshWalk DEF OfChannels
  <2>3. reader' = [reader EXCEPT ![r] = NoWalk] /\ UNCHANGED <<rows, channels>>
    BY <1>3 DEF Leave
  <2> QED
    BY <2>1, <2>2, <2>3, OneReader
<1> QED
  BY <1>2, <1>3

\* The first statement of a window, or its only one.
LEMMA ReadPageSteps ==
  ASSUME TypeOK, Walking, NEW r \in Readers, ReadPage(r)
  PROVE  TypeOK' /\ Walking'
<1> DEFINE w == reader[r]
           f == FirstPage(w)
           keys == Keys(w)
           page == Page(keys, w.order, w.cursor, Limit)
           v == CASE f.style = "window" -> ReadWindow(f)
                  [] f.style = "after" -> ReadAfter(f)
                  [] OTHER -> ReadSurplus(f)
<1>1. /\ w \in Walks /\ rows \in Seq(Filters) /\ channels \in Listings
      /\ Ordered(w) /\ Exact(w, rows) /\ Directory(w, channels)
  BY DEF TypeOK, Walking, GoodWalk, Listings
<1>2. /\ f.stage = "asked" /\ reader' = [reader EXCEPT ![r] = v]
      /\ UNCHANGED <<rows, channels>>
  BY DEF ReadPage
<1>3. Len(rows) \in Nat /\ Listed(channels, w.style) \in SUBSET Nat
  <2>1. Listed(channels, w.style) \subseteq Names
    BY DEF Listed
  <2>2. Len(rows) \in Nat
    BY DEF TypeOK
  <2>3. Names \subseteq Nat
    BY WindowConstants
  <2> HIDE DEF w
  <2> QED
    BY <2>1, <2>2, <2>3
<1>4. /\ f \in Walks /\ f.style = w.style /\ f.filter = w.filter /\ f.order = w.order
      /\ f.cursor = w.cursor /\ f.seen = w.seen /\ f.stage = w.stage
      /\ f.base = (IF w.cursor = NULL THEN Len(rows) ELSE w.base)
      /\ f.steady = (IF w.cursor = NULL THEN Listed(channels, w.style) ELSE w.steady)
  <2> HIDE DEF w
  <2> QED
    BY <1>1, <1>3 DEF FirstPage, Walks
<1>5. keys = KeysOf(w, rows, channels) /\ Keys(f) = keys
  BY <1>4 DEF Keys, KeysOf
<1>6. Walkable(keys, w.order) /\ keys \subseteq Nat
  BY <1>1, <1>5, KeysWalkable DEF Ordered, Walkable
<1>7. /\ page \subseteq Beyond(keys, w.order, w.cursor) /\ page \in SUBSET Nat
      /\ page = {} => Beyond(keys, w.order, w.cursor) = {}
  <2>1. Beyond(keys, w.order, w.cursor) \subseteq Nat
    BY <1>6 DEF Beyond
  <2>2. page \subseteq Beyond(keys, w.order, w.cursor)
    BY <1>6, WindowConstants, PageIsPrefix
  <2>3. page = {} => Beyond(keys, w.order, w.cursor) = {}
    BY <1>6, WindowConstants, PageIsPrefix
  <2> QED
    BY <2>1, <2>2, <2>3
<1> HIDE DEF f, w, keys, page
<1>8. \E stage \in {"paged", "answered"}, more \in BOOLEAN :
        /\ v = [f EXCEPT !.stage = stage, !.page = page, !.more = more]
        /\ stage = "paged" => page # {} /\ w.style = "window"
        /\ stage = "answered" /\ more => page # {}
        /\ stage = "answered" /\ w.style # "after" =>
             (more <=> \E k \in Beyond(keys, w.order, w.cursor) : k \notin page)
  <2>1. CASE w.style = "window"
    <3>1. v = ReadWindow(f)
      BY <1>4, <2>1
    <3>2. Page(Keys(f), f.order, f.cursor, Limit) = page
      BY <1>4, <1>5 DEF page
    <3>3. CASE page = {}
      <4>1. v = [f EXCEPT !.stage = "answered", !.page = page, !.more = FALSE]
        BY <3>1, <3>2, <3>3 DEF ReadWindow, Answered
      <4> QED
        BY <1>7, <3>3, <4>1
    <3>4. CASE page # {}
      <4>1. v = [f EXCEPT !.stage = "paged", !.page = page]
        BY <3>1, <3>2, <3>4 DEF ReadWindow
      <4>2. f.more \in BOOLEAN
        BY <1>4 DEF Walks
      <4>3. v = [f EXCEPT !.stage = "paged", !.page = page, !.more = f.more]
        BY <1>4, <4>1 DEF Walks
      <4> QED
        BY <2>1, <3>4, <4>2, <4>3
    <3> QED
      BY <3>3, <3>4
  <2>2. CASE w.style = "after"
    <3>1. v = ReadAfter(f)
      BY <1>4, <2>2
    <3>2. Page(Keys(f), "asc", f.cursor, Limit) = page
      BY <1>1, <1>4, <1>5, <2>2 DEF page, Ordered
    <3>3. v = [f EXCEPT !.stage = "answered", !.page = page, !.more = (page # {})]
      BY <3>1, <3>2 DEF ReadAfter, Answered
    <3> QED
      BY <2>2, <3>3
  <2>3. CASE w.style \notin {"window", "after"}
    <3> DEFINE fetched == Fetched(keys, w.order, w.cursor, Limit)
    <3>1. v = ReadSurplus(f)
      BY <1>4, <2>3
    <3>2. /\ Truncated(fetched, w.order, Limit) = page
          /\ Surplus(fetched, Limit) <=>
               \E k \in Beyond(keys, w.order, w.cursor) : k \notin page
      BY <1>6, SurplusMeansMore, WindowConstants DEF page
    <3>3. v = [f EXCEPT !.stage = "answered", !.page = Truncated(fetched, w.order, Limit),
                        !.more = Surplus(fetched, Limit)]
      BY <1>4, <1>5, <3>1 DEF ReadSurplus, Answered
    <3>4. Surplus(fetched, Limit) \in BOOLEAN
      BY DEF Surplus
    <3> HIDE DEF fetched
    <3>5. v = [f EXCEPT !.stage = "answered", !.page = page, !.more = Surplus(fetched, Limit)]
      BY <3>2, <3>3
    <3>6. Surplus(fetched, Limit) => page # {}
      BY <1>7, <3>2
    <3> QED
      BY <3>2, <3>4, <3>5, <3>6
  <2> QED
    BY <2>1, <2>2, <2>3
<1>9. PICK stage \in {"paged", "answered"}, more \in BOOLEAN :
        /\ v = [f EXCEPT !.stage = stage, !.page = page, !.more = more]
        /\ stage = "paged" => page # {} /\ w.style = "window"
        /\ stage = "answered" /\ more => page # {}
        /\ stage = "answered" /\ w.style # "after" =>
             (more <=> \E k \in Beyond(keys, w.order, w.cursor) : k \notin page)
  BY <1>8
<1> HIDE DEF v
<1>10. /\ v \in Walks /\ v.style = f.style /\ v.filter = f.filter /\ v.order = f.order
       /\ v.cursor = f.cursor /\ v.seen = f.seen /\ v.base = f.base /\ v.steady = f.steady
       /\ v.stage = stage /\ v.page = page /\ v.more = more
  BY <1>4, <1>7, <1>9 DEF Walks
<1>11. GoodWalk(v, rows, channels)
  <2>1. v.page = Page(KeysOf(w, rows, channels), w.order, w.cursor, Limit)
    BY <1>5, <1>10 DEF page
  <2>2. w.stage = "asked"
    BY <1>2, <1>4
  <2>3. v.stage = "answered" /\ w.style # "after" =>
          (v.more <=> \E k \in Beyond(KeysOf(w, rows, channels), w.order, w.cursor) :
                        k \notin v.page)
    BY <1>5, <1>9, <1>10
  <2> QED
    BY <1>1, <1>4, <1>9, <1>10, <2>1, <2>2, <2>3, PageGood
<1> QED
  BY <1>2, <1>10, <1>11, OneReader

\* The second statement of a window sees the rows that came since the first.
LEMMA ReadMoreSteps ==
  ASSUME TypeOK, Walking, NEW r \in Readers, ReadMore(r)
  PROVE  TypeOK' /\ Walking'
<1> DEFINE w == reader[r]
           more == HasMore(Keys(w), w.order, w.page)
           v == [w EXCEPT !.stage = "answered", !.page = w.page, !.more = more]
<1>1. /\ w \in Walks /\ Ordered(w) /\ Exact(w, rows)
      /\ w.stage = "paged" /\ w.page # {} /\ w.style = "window"
  BY DEF TypeOK, Walking, GoodWalk, ReadMore, Ordered
<1>2. reader' = [reader EXCEPT ![r] = v] /\ UNCHANGED <<rows, channels>>
  BY DEF ReadMore, Answered
<1>3. more \in BOOLEAN
  BY DEF HasMore
<1>4. Keys(w) = Matching(rows, w.filter)
  BY <1>1 DEF Keys, OfChannels
<1>5. more <=> \E k \in Matching(rows, w.filter) : Precedes(w.order, LastOf(w.page, w.order), k)
  BY <1>1, <1>4 DEF HasMore
<1> HIDE DEF w, more
<1>6. /\ v \in Walks /\ v.style = w.style /\ v.filter = w.filter /\ v.order = w.order
      /\ v.cursor = w.cursor /\ v.seen = w.seen /\ v.base = w.base /\ v.steady = w.steady
      /\ v.stage = "answered" /\ v.page = w.page /\ v.more = more
  BY <1>1, <1>3 DEF Walks
<1> HIDE DEF v
<1>7. Reached(v) = Reached(w) /\ Given(v) = Given(w)
      /\ Reached(v) = LastOf(w.page, w.order)
  BY <1>1, <1>6 DEF Reached, Given
<1>8. Ordered(v)
  BY <1>1, <1>6 DEF Ordered
<1>9. Exact(v, rows)
  BY <1>1, <1>6, <1>7 DEF Exact, Passed
<1>10. Truthful(v, rows)
  <2>1. Reached(v) # NULL
    <3>1. LastOf(w.page, w.order) \in w.page /\ w.page \subseteq Nat
      BY <1>1, LastOfIs DEF Ordered, Walks
    <3> QED
      BY <1>7, <3>1, NullIsNoKey
  <2>2. v.more <=> Left(v, rows) # {}
    BY <1>5, <1>6, <1>7, <2>1 DEF Left
  <2> QED
    BY <2>2 DEF Truthful
<1>11. Directory(v, channels)
  BY <1>1, <1>6 DEF Directory, OfChannels
<1>12. GoodWalk(v, rows, channels)
  BY <1>8, <1>9, <1>10, <1>11 DEF GoodWalk
<1> QED
  BY <1>2, <1>6, <1>12, OneReader

\* The next page begins after the last row given.
LEMMA ContinueSteps ==
  ASSUME TypeOK, Walking, NEW r \in Readers, Continue(r)
  PROVE  TypeOK' /\ Walking'
<1> DEFINE w == reader[r]
           last == LastOf(w.page, w.order)
           v == [w EXCEPT !.stage = "asked", !.seen = w.seen \cup w.page, !.page = {},
                          !.cursor = last]
<1>1. /\ w \in Walks /\ Ordered(w) /\ Exact(w, rows) /\ Directory(w, channels)
      /\ w.stage = "answered" /\ w.page # {}
  BY DEF TypeOK, Walking, GoodWalk, Continue, Ordered
<1>2. reader' = [reader EXCEPT ![r] = v] /\ UNCHANGED <<rows, channels>>
  BY DEF Continue
<1>3. last \in w.page /\ w.page \subseteq Nat /\ w.seen \subseteq Nat
  BY <1>1, LastOfIs DEF Ordered, Walks
<1>4. Reached(w) = last /\ last # NULL /\ last \in Nat
  BY <1>1, <1>3, NullIsNoKey DEF Reached
<1> HIDE DEF w, last
<1>5. /\ v \in Walks /\ v.style = w.style /\ v.filter = w.filter /\ v.order = w.order
      /\ v.base = w.base /\ v.steady = w.steady /\ v.stage = "asked" /\ v.page = {}
      /\ v.seen = w.seen \cup w.page /\ v.cursor = last
  BY <1>1, <1>3, <1>4 DEF Walks
<1> HIDE DEF v
<1>6. Reached(v) = Reached(w) /\ Given(v) = Given(w) /\ v.seen = Given(w)
  BY <1>4, <1>5 DEF Reached, Given
<1>7. Ordered(v)
  <2>1. /\ last \in v.seen
        /\ \A k \in v.seen : k = last \/ Precedes(w.order, k, last)
    BY <1>1, <1>4, <1>6, ReachedIsLast
  <2>2. OfChannels(v.style) \/ v.style = "after" => v.order = "asc"
    BY <1>1, <1>5 DEF Ordered
  <2> QED
    BY <1>4, <1>5, <2>1, <2>2 DEF Ordered
<1>8. Exact(v, rows)
  BY <1>1, <1>5, <1>6 DEF Exact, Passed
<1>9. Truthful(v, rows) /\ Directory(v, channels)
  BY <1>1, <1>5, <1>6 DEF Truthful, Directory
<1>10. GoodWalk(v, rows, channels)
  BY <1>7, <1>8, <1>9 DEF GoodWalk
<1> QED
  BY <1>2, <1>5, <1>10, OneReader

\* A row that is inserted is beyond every row there was.
LEMMA InsertSteps ==
  ASSUME TypeOK, Walking, NEW f \in Filters, Insert(f)
  PROVE  TypeOK' /\ Walking'
<1>1. rows \in Seq(Filters) /\ Len(rows) \in Nat
  BY DEF TypeOK
<1>2. rows' = Append(rows, f) /\ channels' = channels /\ reader' = reader
  BY DEF Insert
<1>3. /\ rows' \in Seq(Filters) /\ Len(rows') = Len(rows) + 1
      /\ DOMAIN rows = 1..Len(rows) /\ DOMAIN rows' = 1..(Len(rows) + 1)
      /\ \A i \in 1..Len(rows) : rows'[i] = rows[i]
  BY <1>1, <1>2
<1>4. TypeOK'
  BY <1>2, <1>3 DEF TypeOK
<1>5. ASSUME NEW q \in Readers PROVE GoodWalk(reader[q], rows', channels)
  <2> DEFINE w == reader[q]
             new == Len(rows) + 1
  <2>1. w \in Walks /\ Ordered(w) /\ Exact(w, rows) /\ Truthful(w, rows) /\ Directory(w, channels)
    BY DEF TypeOK, Walking, GoodWalk
  <2> HIDE DEF w
  <2>2. /\ Matching(rows, w.filter) \subseteq 1..Len(rows)
        /\ Matching(rows, w.filter) \subseteq Matching(rows', w.filter)
        /\ Matching(rows', w.filter) \subseteq Matching(rows, w.filter) \union {new}
    BY <1>1, <1>3 DEF Matching
  <2>3. w.base \in Nat /\ w.order \in Orders
    BY <2>1 DEF Walks
  <2>4. ASSUME w.stage # "idle", ~OfChannels(w.style)
        PROVE  /\ w.base < new
               /\ Reached(w) # NULL => Reached(w) \in Nat /\ Reached(w) < new
               /\ Reached(w) # NULL => Given(w) = Passed(w, rows)
    <3>1. /\ w.base <= Len(rows)
          /\ Reached(w) # NULL => Given(w) = Passed(w, rows)
      BY <2>1, <2>4 DEF Exact
    <3>2. ASSUME Reached(w) # NULL PROVE Reached(w) \in Nat /\ Reached(w) < new
      <4>1. Reached(w) \in Passed(w, rows)
        BY <2>1, <3>1, <3>2, ReachedIsLast
      <4>2. Reached(w) \in 1..Len(rows)
        BY <2>2, <4>1 DEF Passed
      <4> QED
        BY <1>1, <4>2
    <3> QED
      BY <1>1, <2>3, <3>1, <3>2
  <2>5. Exact(w, rows')
    <3> SUFFICES ASSUME w.stage # "idle", ~OfChannels(w.style)
                 PROVE  /\ w.base <= Len(rows')
                        /\ Reached(w) # NULL => Given(w) = Passed(w, rows')
      BY DEF Exact
    <3>1. w.base <= Len(rows')
      BY <1>1, <1>3, <2>3, <2>4
    <3>2. ASSUME Reached(w) # NULL PROVE Passed(w, rows') = Passed(w, rows)
      <4>1. ~(IF w.order = "desc" THEN Reached(w) <= new /\ new <= w.base ELSE new <= Reached(w))
        BY <1>1, <2>3, <2>4, <3>2
      <4> QED
        BY <2>2, <4>1 DEF Passed
    <3> QED
      BY <2>4, <3>1, <3>2
  <2>6. Truthful(w, rows')
    <3> SUFFICES ASSUME w.stage = "answered", w.style \in {"window", "surplus"}
                 PROVE  /\ w.more => Left(w, rows') # {}
                        /\ ~w.more /\ w.order = "desc" =>
                             \A k \in Left(w, rows') : Reached(w) = NULL /\ w.base < k
                        /\ ~w.more /\ w.order = "asc" =>
                             \A k \in Left(w, rows') : w.base < k
      BY DEF Truthful
    <3>1. ~OfChannels(w.style)
      BY DEF OfChannels
    <3>2. /\ Left(w, rows) \subseteq Left(w, rows')
          /\ Left(w, rows') \subseteq Left(w, rows) \union {new}
      BY <2>2 DEF Left
    <3>3. /\ w.more => Left(w, rows) # {}
          /\ ~w.more /\ w.order = "desc" =>
               \A k \in Left(w, rows) : Reached(w) = NULL /\ w.base < k
          /\ ~w.more /\ w.order = "asc" => \A k \in Left(w, rows) : w.base < k
      BY <2>1 DEF Truthful
    <3>4. w.base < new
      BY <2>4, <3>1
    <3>5. w.order = "desc" /\ new \in Left(w, rows') => Reached(w) = NULL
      BY <1>1, <2>4, <3>1 DEF Left, Precedes
    <3> QED
      BY <3>2, <3>3, <3>4, <3>5
  <2> QED
    BY <2>1, <2>5, <2>6 DEF GoodWalk, w
<1>6. Walking'
  BY <1>2, <1>5 DEF Walking
<1> QED
  BY <1>4, <1>6

\* A channel that is created, hidden or shown is steady only to walks that have seen
\* it listed ever since.
LEMMA RelistSteps ==
  ASSUME TypeOK, Walking, NEW listings \in Listings, Relist(listings)
  PROVE  TypeOK' /\ Walking'
<1>1. /\ channels' = listings /\ rows' = rows
      /\ reader' = [r \in Readers |->
                      [reader[r] EXCEPT !.steady = @ \cap Listed(listings, reader[r].style)]]
  BY DEF Relist
<1>2. ASSUME NEW q \in Readers
      PROVE  reader'[q] \in Walks /\ GoodWalk(reader'[q], rows, listings)
  <2> DEFINE w == reader[q]
             v == reader'[q]
  <2>1. w \in Walks /\ Ordered(w) /\ Exact(w, rows) /\ Truthful(w, rows) /\ Directory(w, channels)
    BY DEF TypeOK, Walking, GoodWalk
  <2>2. v = [w EXCEPT !.steady = @ \cap Listed(listings, w.style)]
    BY <1>1
  <2> HIDE DEF w, v
  <2>3. /\ v \in Walks /\ v.style = w.style /\ v.filter = w.filter /\ v.order = w.order
        /\ v.cursor = w.cursor /\ v.seen = w.seen /\ v.base = w.base
        /\ v.stage = w.stage /\ v.page = w.page /\ v.more = w.more
        /\ v.steady = w.steady \cap Listed(listings, w.style)
    BY <2>1, <2>2 DEF Walks
  <2>4. Reached(v) = Reached(w) /\ Given(v) = Given(w)
    BY <2>3 DEF Reached, Given
  <2>5. Ordered(v)
    BY <2>1, <2>3 DEF Ordered
  <2>6. Exact(v, rows)
    BY <2>1, <2>3, <2>4 DEF Exact, Passed
  <2>7. Truthful(v, rows)
    BY <2>1, <2>3, <2>4 DEF Truthful, Left
  <2>8. Directory(v, listings)
    BY <2>1, <2>3, <2>4 DEF Directory
  <2> QED
    BY <2>3, <2>5, <2>6, <2>7, <2>8 DEF GoodWalk, v
<1>3. reader' \in [Readers -> Walks]
  BY <1>1, <1>2
<1>4. TypeOK'
  BY <1>1, <1>3 DEF TypeOK, Listings
<1>5. Walking'
  BY <1>1, <1>2 DEF Walking
<1> QED
  BY <1>4, <1>5

--------------------------------------------------------------------------------
(* The theorems *)

\* Every step keeps every walk in order.
LEMMA WalkingKept == TypeOK /\ Walking /\ [Next]_vars => TypeOK' /\ Walking'
<1> SUFFICES ASSUME TypeOK, Walking, [Next]_vars PROVE TypeOK' /\ Walking'
  OBVIOUS
<1>1. ASSUME NEW r \in Readers,
             Start(r) \/ ReadPage(r) \/ ReadMore(r) \/ Continue(r) \/ Leave(r)
      PROVE  TypeOK' /\ Walking'
  BY <1>1, StartSteps, ReadPageSteps, ReadMoreSteps, ContinueSteps
<1>2. ASSUME NEW f \in Filters, Insert(f) PROVE TypeOK' /\ Walking'
  BY <1>2, InsertSteps
<1>3. ASSUME NEW n \in Names, CreateChannel(n) PROVE TypeOK' /\ Walking'
  <2>1. PICK v \in {"public", "private"} :
          Relist([channels EXCEPT ![n] = [visibility |-> v, status |-> "active"]])
    BY <1>3 DEF CreateChannel
  <2>2. [channels EXCEPT ![n] = [visibility |-> v, status |-> "active"]] \in Listings
    BY DEF TypeOK, Listings, Listing
  <2> QED
    BY <2>1, <2>2, RelistSteps
<1>4. ASSUME NEW n \in Names, UpdateChannel(n) PROVE TypeOK' /\ Walking'
  <2>1. PICK l \in Listing : Relist([channels EXCEPT ![n] = l])
    BY <1>4 DEF UpdateChannel
  <2>2. [channels EXCEPT ![n] = l] \in Listings
    BY DEF TypeOK, Listings
  <2> QED
    BY <2>1, <2>2, RelistSteps
<1>5. CASE UNCHANGED vars
  BY <1>5 DEF vars, TypeOK, Walking
<1> QED
  BY <1>1, <1>2, <1>3, <1>4, <1>5 DEF Next

\* The walks, the rows and the directory keep their types, and every walk is in
\* order.
THEOREM WalksInOrder == Spec => [](TypeOK /\ Walking)
<1>1. Init => TypeOK /\ Walking
  <2> SUFFICES ASSUME Init PROVE TypeOK /\ Walking
    OBVIOUS
  <2>1. /\ NoWalk \in Walks /\ NoWalk.stage = "idle" /\ NoWalk.style = "window"
        /\ NoWalk.cursor = NULL /\ NoWalk.page = {} /\ NoWalk.seen = {}
        /\ NoWalk.base = 0 /\ NoWalk.steady = {}
    BY DEF NoWalk, Walks, Styles, Orders
  <2>2. rows \in Seq(Filters) /\ reader = [r \in Readers |-> NoWalk]
    BY DEF Init
  <2>3. TypeOK
    BY <2>1, <2>2 DEF Init, TypeOK
  <2>4. GoodWalk(NoWalk, rows, channels)
    BY <2>1, <2>2, FreshWalk DEF OfChannels
  <2> QED
    BY <2>2, <2>3, <2>4 DEF Walking
<1> QED
  BY <1>1, WalkingKept, PTL DEF Spec

\* A client that walks through messages or events page by page is given exactly the
\* matching rows it has passed, and no row twice in any of the windows, whatever is
\* inserted, hidden or shown between its pages (message_window,
\* list_messages_after, read_administration_event_window,
\* read_channel_directory_window).
THEOREM WalksAreExact == Spec => []WalkExact
<1>1. TypeOK /\ Walking => WalkExact
  <2> SUFFICES ASSUME TypeOK, Walking, NEW r \in Readers
               PROVE  LET w == reader[r] IN
                      /\ w.seen \cap w.page = {}
                      /\ w.stage # "idle" /\ ~OfChannels(w.style) /\ Reached(w) # NULL =>
                           Given(w) = Passed(w, rows)
    BY DEF WalkExact, Passed
  <2> DEFINE w == reader[r]
  <2>1. w \in Walks /\ Ordered(w) /\ Exact(w, rows)
    BY DEF TypeOK, Walking, GoodWalk
  <2> HIDE DEF w
  <2>2. ASSUME NEW k \in w.seen, k \in w.page PROVE FALSE
    <3>1. /\ w.cursor # NULL /\ Precedes(w.order, w.cursor, k)
          /\ k = w.cursor \/ Precedes(w.order, k, w.cursor)
      BY <2>1, <2>2 DEF Ordered
    <3>2. k \in Nat /\ w.cursor \in Nat
      BY <2>1, <3>1 DEF Walks
    <3> QED
      BY <3>1, <3>2 DEF Precedes
  <2>3. w.stage # "idle" /\ ~OfChannels(w.style) /\ Reached(w) # NULL =>
          Given(w) = Passed(w, rows)
    BY <2>1 DEF Exact
  <2> QED
    BY <2>2, <2>3 DEF w
<1> QED
  BY <1>1, WalksInOrder, PTL

\* A window that says there is more is right; one that says there is none leaves
\* only rows that came after the walk began, and downwards no row at all
\* (has_message_before, has_message_after, and the surplus row of the others).
THEOREM MoreIsTruthful == Spec => []HasMoreTruthful
<1>1. TypeOK /\ Walking => HasMoreTruthful
  <2> SUFFICES ASSUME TypeOK, Walking, NEW r \in Readers,
                      reader[r].stage = "answered", reader[r].style \in {"window", "surplus"}
               PROVE  LET w == reader[r]
                          left == {k \in Keys(w) : Reached(w) = NULL
                                                     \/ Precedes(w.order, Reached(w), k)}
                      IN /\ w.more => left # {}
                         /\ ~w.more /\ w.order = "desc" =>
                              \A k \in left : Reached(w) = NULL /\ w.base < k
                         /\ ~w.more /\ w.order = "asc" => \A k \in left : w.base < k
    BY DEF HasMoreTruthful
  <2>1. Truthful(reader[r], rows)
    BY DEF Walking, GoodWalk
  <2>2. Keys(reader[r]) = Matching(rows, reader[r].filter)
    BY DEF Keys, OfChannels
  <2> QED
    BY <2>1, <2>2 DEF Truthful, Left
<1> QED
  BY <1>1, WalksInOrder, PTL

\* A walk through the channel directory that has come to its end was given every
\* channel listed to it from its first page on (read_channel_directory_window).
THEOREM DirectoryIsComplete == Spec => []DirectoryComplete
<1>1. TypeOK /\ Walking => DirectoryComplete
  BY DEF Walking, GoodWalk, Directory, DirectoryComplete
<1> QED
  BY <1>1, WalksInOrder, PTL

================================================================================
