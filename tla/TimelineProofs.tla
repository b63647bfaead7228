----------------------------- MODULE TimelineProofs -----------------------------
(******************************************************************************)
(* Proofs about BrowserTimeline: what the page shows, in whatever order the     *)
(* answers to its requests arrive, and what more is true while its requests do  *)
(* not overlap.                                                                 *)
(*                                                                             *)
(* The first part is about the page's own functions: an answer is merged into   *)
(* the timeline without a duplicate, and the cursors stay its extremes.  The    *)
(* invariant of the second part, OneView, ties the one request under way to     *)
(* the page that will show its answer.                                          *)
(******************************************************************************)
EXTENDS BrowserTimeline, KeysetProofs

--------------------------------------------------------------------------------
(* Extremes *)

\* Max is the element that no other exceeds.
LEMMA MaxIs ==
  ASSUME NEW S, S \subseteq Nat, NEW x \in S, \A y \in S : y <= x
  PROVE  Max(S) = x
<1>1. Max(S) \in S /\ \A y \in S : Max(S) >= y
  BY DEF Max
<1>2. Max(S) \in Nat /\ x \in Nat /\ Max(S) <= x /\ Max(S) >= x
  BY <1>1
<1> QED
  BY <1>2

\* Min is the element that exceeds no other.
LEMMA MinIs ==
  ASSUME NEW S, S \subseteq Nat, NEW x \in S, \A y \in S : x <= y
  PROVE  Min(S) = x
<1>1. Min(S) \in S /\ \A y \in S : Min(S) <= y
  BY DEF Min
<1>2. Min(S) \in Nat /\ x \in Nat /\ x <= Min(S) /\ Min(S) <= x
  BY <1>1
<1> QED
  BY <1>2

\* A nonempty set of bounded numbers has a greatest and a least element.
LEMMA ExtremesExist ==
  ASSUME NEW n \in Nat, NEW S \in SUBSET (0..n), S # {}
  PROVE  /\ Max(S) \in S /\ \A y \in S : y <= Max(S)
         /\ Min(S) \in S /\ \A y \in S : Min(S) <= y
<1>0. S \subseteq Nat
  OBVIOUS
<1>1. PICK x \in S : \A y \in S : x <= y
  BY <1>0, LeastExists
<1>2. \E z \in S : \A y \in S : y <= z
  <2> DEFINE gaps == {n - y : y \in S}
  <2>1. gaps \subseteq Nat /\ gaps # {}
    OBVIOUS
  <2>2. PICK g \in gaps : \A h \in gaps : g <= h
    <3> HIDE DEF gaps
    <3> QED
      BY <2>1, LeastExists
  <2>3. PICK z \in S : g = n - z
    OBVIOUS
  <2>4. ASSUME NEW y \in S PROVE y <= z
    BY <2>2, <2>3
  <2> QED
    BY <2>4
<1>3. PICK z \in S : \A y \in S : y <= z
  BY <1>2
<1>4. Min(S) = x
  BY <1>0, <1>1, MinIs
<1>5. Max(S) = z
  BY <1>0, <1>3, MaxIs
<1> QED
  BY <1>1, <1>3, <1>4, <1>5

--------------------------------------------------------------------------------
(* Answers and timelines *)

\* The rows of an answer are listed in its order, each once.
LEMMA InOrderSorted ==
  ASSUME NEW rows \in SUBSET Ids, NEW order \in Orders
  PROVE  LET list == InOrder(rows, order)
         IN /\ list \in Seq(rows) /\ DOMAIN list = 1..Len(list)
            /\ ToSet(list) = rows
            /\ \A i, j \in DOMAIN list : i < j => Precedes(order, list[i], list[j])
<1> DEFINE c == Cardinality(rows)
           Good(list) == \A i, j \in DOMAIN list : i < j => Precedes(order, list[i], list[j])
<1>0. rows \subseteq Nat
  BY BrowserConstants DEF Ids
<1>1. PICK list : Sorted(list, rows, order)
  BY BrowserConstants, SortedExists DEF Ids
<1>2. c \in Nat
  BY BrowserConstants, SortedExists DEF Ids
<1>3. \A i, j \in 1..c : i # j => list[i] # list[j]
  <2> SUFFICES ASSUME NEW i \in 1..c, NEW j \in 1..c, i < j PROVE list[i] # list[j]
    BY <1>2
  <2>1. Precedes(order, list[i], list[j]) /\ list[i] \in rows
    BY <1>1 DEF Sorted
  <2>2. list[i] \in Nat
    BY <1>0, <2>1
  <2> QED
    BY <2>1, <2>2 DEF Precedes
<1>4. list \in SetToSeqs(rows) /\ Good(list)
  <2>1. list \in [1..c -> rows] /\ DOMAIN list = 1..c
    BY <1>1 DEF Sorted
  <2>2. list \in SetToSeqs(rows)
    BY <1>3, <2>1 DEF SetToSeqs
  <2> QED
    BY <1>1, <2>1, <2>2 DEF Sorted
<1> DEFINE l == InOrder(rows, order)
<1>5. l \in SetToSeqs(rows) /\ Good(l)
  BY <1>4 DEF InOrder
<1> HIDE DEF l
<1>6. l \in [1..c -> rows] /\ \A i, j \in 1..c : i # j => l[i] # l[j]
  BY <1>5 DEF SetToSeqs
<1>7. \A k \in rows : \E i \in 1..c : l[i] = k
  <2>1. l \in Injection(1..c, rows)
    BY <1>6 DEF Injection, IsInjective
  <2>2. IsFiniteSet(rows)
    BY BrowserConstants, SortedExists DEF Ids
  <2>3. Cardinality(1..c) = c
    <3> HIDE DEF c
    <3> QED
      BY <1>2, FS_Interval
  <2>4. l \in Surjection(1..c, rows)
    BY <2>1, <2>2, <2>3, FS_Injection
  <2> QED
    BY <2>4 DEF Surjection
<1>8. l \in Seq(rows) /\ DOMAIN l = 1..Len(l)
  BY <1>2, <1>6
<1>9. ToSet(l) = rows
  BY <1>6, <1>7 DEF ToSet
<1> QED
  BY <1>5, <1>8, <1>9 DEF l

\* A list turned round.
LEMMA Reversed ==
  ASSUME NEW S, NEW s \in Seq(S)
  PROVE  /\ Reverse(s) \in Seq(S) /\ Len(Reverse(s)) = Len(s)
         /\ DOMAIN Reverse(s) = 1..Len(s)
         /\ \A i \in 1..Len(s) :
              /\ (Len(s) - i) + 1 \in 1..Len(s)
              /\ Reverse(s)[i] = s[(Len(s) - i) + 1]
         /\ ToSet(Reverse(s)) = ToSet(s)
<1>1. DOMAIN s = 1..Len(s) /\ Len(s) \in Nat
  OBVIOUS
<1>2. \A i \in 1..Len(s) : (Len(s) - i) + 1 \in 1..Len(s)
  BY <1>1
<1>3. Reverse(s) = [i \in 1..Len(s) |-> s[(Len(s) - i) + 1]]
  BY DEF Reverse
<1> HIDE DEF Reverse
<1>4. Reverse(s) \in Seq(S) /\ Len(Reverse(s)) = Len(s) /\ DOMAIN Reverse(s) = 1..Len(s)
  BY <1>1, <1>2, <1>3
<1>5. ToSet(Reverse(s)) = ToSet(s)
  <2>1. ASSUME NEW x \in ToSet(s) PROVE x \in ToSet(Reverse(s))
    <3>1. PICK i \in 1..Len(s) : x = s[i]
      BY <1>1 DEF ToSet
    <3>2. (Len(s) - i) + 1 \in 1..Len(s) /\ (Len(s) - ((Len(s) - i) + 1)) + 1 = i
      BY <1>1
    <3>3. x = Reverse(s)[(Len(s) - i) + 1]
      BY <1>3, <3>1, <3>2
    <3> QED
      BY <1>4, <3>2, <3>3 DEF ToSet
  <2>2. ASSUME NEW x \in ToSet(Reverse(s)) PROVE x \in ToSet(s)
    <3>1. PICK i \in 1..Len(s) : x = Reverse(s)[i]
      BY <1>4 DEF ToSet
    <3> QED
      BY <1>1, <1>2, <1>3, <3>1 DEF ToSet
  <2> QED
    BY <2>1, <2>2
<1> QED
  BY <1>2, <1>3, <1>4, <1>5

\* Two lists put together.
LEMMA Joined ==
  ASSUME NEW S, NEW s \in Seq(S), NEW t \in Seq(S)
  PROVE  /\ s \o t \in Seq(S) /\ ToSet(s \o t) = ToSet(s) \cup ToSet(t)
         /\ DOMAIN (s \o t) = 1..(Len(s) + Len(t))
         /\ \A i \in 1..Len(s) : (s \o t)[i] = s[i]
         /\ \A i \in (Len(s) + 1)..(Len(s) + Len(t)) :
              i - Len(s) \in 1..Len(t) /\ (s \o t)[i] = t[i - Len(s)]
<1>1. DOMAIN s = 1..Len(s) /\ DOMAIN t = 1..Len(t) /\ Len(s) \in Nat /\ Len(t) \in Nat
  OBVIOUS
<1>2. s \o t \in Seq(S) /\ Len(s \o t) = Len(s) + Len(t)
  OBVIOUS
<1>3. DOMAIN (s \o t) = 1..(Len(s) + Len(t))
  BY <1>1, <1>2
<1>4. \A i \in 1..Len(s) : (s \o t)[i] = s[i]
  BY <1>1
<1>5. \A i \in (Len(s) + 1)..(Len(s) + Len(t)) :
        i - Len(s) \in 1..Len(t) /\ (s \o t)[i] = t[i - Len(s)]
  BY <1>1
<1>6. ToSet(s \o t) = ToSet(s) \cup ToSet(t)
  <2>1. ASSUME NEW x \in ToSet(s \o t) PROVE x \in ToSet(s) \cup ToSet(t)
    <3>1. PICK i \in 1..(Len(s) + Len(t)) : x = (s \o t)[i]
      BY <1>3 DEF ToSet
    <3>2. CASE i \in 1..Len(s)
      BY <1>1, <1>4, <3>1, <3>2 DEF ToSet
    <3>3. CASE i \in (Len(s) + 1)..(Len(s) + Len(t))
      BY <1>1, <1>5, <3>1, <3>3 DEF ToSet
    <3> QED
      BY <1>1, <3>2, <3>3
  <2>2. ASSUME NEW x \in ToSet(s) PROVE x \in ToSet(s \o t)
    <3>1. PICK i \in 1..Len(s) : x = s[i]
      BY <1>1 DEF ToSet
    <3>2. i \in 1..(Len(s) + Len(t))
      BY <1>1
    <3> QED
      BY <1>3, <1>4, <3>1, <3>2 DEF ToSet
  <2>3. ASSUME NEW x \in ToSet(t) PROVE x \in ToSet(s \o t)
    <3>1. PICK i \in 1..Len(t) : x = t[i]
      BY <1>1 DEF ToSet
    <3>2. i + Len(s) \in (Len(s) + 1)..(Len(s) + Len(t)) /\ (i + Len(s)) - Len(s) = i
      BY <1>1
    <3>3. i + Len(s) \in 1..(Len(s) + Len(t))
      BY <1>1
    <3>4. x = (s \o t)[i + Len(s)]
      BY <1>5, <3>1, <3>2
    <3> QED
      BY <1>3, <3>3, <3>4 DEF ToSet
  <2> QED
    BY <2>1, <2>2, <2>3
<1> QED
  BY <1>2, <1>3, <1>4, <1>5, <1>6

\* A list in which rows precede each other has none twice, in either direction.
LEMMA SortedInjective ==
  ASSUME NEW rows \in SUBSET Ids, NEW order \in Orders
  PROVE  IsInjective(InOrder(rows, order)) /\ IsInjective(Reverse(InOrder(rows, order)))
<1> DEFINE list == InOrder(rows, order)
<1>1. /\ list \in Seq(rows) /\ DOMAIN list = 1..Len(list)
      /\ \A i, j \in DOMAIN list : i < j => Precedes(order, list[i], list[j])
  BY InOrderSorted
<1> HIDE DEF list
<1>2. Len(list) \in Nat /\ rows \subseteq Nat
  BY <1>1, BrowserConstants DEF Ids
<1>3. ASSUME NEW i \in 1..Len(list), NEW j \in 1..Len(list), list[i] = list[j] PROVE i = j
  <2>0. list[i] \in rows /\ list[j] \in rows
    BY <1>1
  <2>1. list[i] \in Nat /\ list[j] \in Nat
    BY <1>2, <2>0
  <2>2. ~(i < j) /\ ~(j < i)
    BY <1>1, <1>3, <2>1 DEF Precedes
  <2> QED
    BY <1>2, <2>2
<1>4. ASSUME NEW i \in 1..Len(list), NEW j \in 1..Len(list),
             Reverse(list)[i] = Reverse(list)[j]
      PROVE  i = j
  <2> DEFINE k == (Len(list) - i) + 1
             l == (Len(list) - j) + 1
  <2>1. k \in 1..Len(list) /\ l \in 1..Len(list) /\ list[k] = list[l]
    BY <1>1, <1>4, Reversed
  <2>2. k = l
    BY <1>3, <2>1
  <2> QED
    BY <1>2, <2>2
<1>5. DOMAIN Reverse(list) = 1..Len(list)
  BY <1>1, Reversed
<1> QED
  BY <1>1, <1>3, <1>4, <1>5 DEF IsInjective, list

\* Lists without a common element keep none twice when they are put together.
LEMMA JoinedInjective ==
  ASSUME NEW S, NEW s \in Seq(S), NEW t \in Seq(S), IsInjective(s), IsInjective(t),
         ToSet(s) \cap ToSet(t) = {}
  PROVE  IsInjective(s \o t)
<1>1. /\ DOMAIN s = 1..Len(s) /\ DOMAIN t = 1..Len(t) /\ Len(s) \in Nat /\ Len(t) \in Nat
      /\ DOMAIN (s \o t) = 1..(Len(s) + Len(t))
  BY Joined
<1>2. /\ \A i \in 1..Len(s) : (s \o t)[i] = s[i] /\ s[i] \in ToSet(s)
      /\ \A i \in 1..Len(t) : t[i] \in ToSet(t)
      /\ \A i \in (Len(s) + 1)..(Len(s) + Len(t)) :
           i - Len(s) \in 1..Len(t) /\ (s \o t)[i] = t[i - Len(s)]
  <2>1. \A i \in 1..Len(s) : (s \o t)[i] = s[i]
    BY Joined
  <2>2. \A i \in (Len(s) + 1)..(Len(s) + Len(t)) :
          i - Len(s) \in 1..Len(t) /\ (s \o t)[i] = t[i - Len(s)]
    BY Joined
  <2>3. \A i \in 1..Len(s) : s[i] \in ToSet(s)
    BY <1>1 DEF ToSet
  <2>4. \A i \in 1..Len(t) : t[i] \in ToSet(t)
    BY <1>1 DEF ToSet
  <2> QED
    BY <2>1, <2>2, <2>3, <2>4
<1> SUFFICES ASSUME NEW i \in 1..(Len(s) + Len(t)), NEW j \in 1..(Len(s) + Len(t)),
                    (s \o t)[i] = (s \o t)[j]
             PROVE  i = j
  BY <1>1 DEF IsInjective
<1>3. CASE i \in 1..Len(s) /\ j \in 1..Len(s)
  BY <1>1, <1>2, <1>3 DEF IsInjective
<1>4. CASE /\ i \in (Len(s) + 1)..(Len(s) + Len(t))
           /\ j \in (Len(s) + 1)..(Len(s) + Len(t))
  <2>1. i - Len(s) = j - Len(s)
    BY <1>1, <1>2, <1>4 DEF IsInjective
  <2> QED
    BY <1>1, <2>1
<1>5. CASE i \in 1..Len(s) /\ j \in (Len(s) + 1)..(Len(s) + Len(t))
  BY <1>2, <1>5
<1>6. CASE j \in 1..Len(s) /\ i \in (Len(s) + 1)..(Len(s) + Len(t))
  BY <1>2, <1>6
<1> QED
  BY <1>1, <1>3, <1>4, <1>5, <1>6

--------------------------------------------------------------------------------
(* The page's functions *)

\* What CursorsMatchTimeline says of a page.
CursorsOf(p) ==
  /\ IsInjective(p.timeline)
  /\ p.lastId = Max(Shown(p) \cup {0})
  /\ p.oldestId = IF p.timeline = <<>> THEN 0 ELSE Min(Shown(p))

\* What an answer leaves alone.
SameView(p, q) ==
  /\ q.channel = p.channel /\ q.order = p.order /\ q.followLatest = p.followLatest
  /\ q.historyTargetId = p.historyTargetId /\ q.hasOlder = p.hasOlder /\ q.nav = p.nav

\* The list of new rows, as it is put on the timeline.
Added(p, rows, order, placement) ==
  LET added == InOrder(rows \ Shown(p), order)
  IN IF placement = "prepend" THEN Reverse(added) ELSE added

\* The page q shows what p shows and the new rows, put where they belong.
Merged(p, q, news, added, placement) ==
  /\ q \in Pages /\ SameView(p, q)
  /\ added \in Seq(Ids) /\ IsInjective(added) /\ ToSet(added) = news
  /\ news = {} => q = p
  /\ news # {} =>
       /\ q.lastId = Max(news \cup {p.lastId})
       /\ q.oldestId = Min(news \cup IF p.oldestId = 0 THEN {} ELSE {p.oldestId})
       /\ q.timeline = IF placement = "prepend" THEN added \o p.timeline
                       ELSE p.timeline \o added

\* appendMessage for every row: the timeline grows by the rows it did not show.
LEMMA AppendMessagesIs ==
  ASSUME NEW p \in Pages, NEW rows \in SUBSET Ids, NEW order \in Orders, NEW placement
  PROVE  LET q == AppendMessages(p, rows, order, placement)
             news == rows \ Shown(p)
             added == Added(p, rows, order, placement)
         IN Merged(p, q, news, added, placement)
<1> DEFINE q == AppendMessages(p, rows, order, placement)
           news == rows \ Shown(p)
           added == Added(p, rows, order, placement)
           list == InOrder(news, order)
<1>1. news \in SUBSET Ids
  OBVIOUS
<1>2. /\ list \in Seq(news) /\ ToSet(list) = news
      /\ IsInjective(list) /\ IsInjective(Reverse(list))
  <2> HIDE DEF news
  <2> QED
    BY <1>1, InOrderSorted, SortedInjective
<1>3. list \in Seq(Ids)
  <2> HIDE DEF news, list
  <2> QED
    BY <1>1, <1>2
<1>4. added \in Seq(Ids) /\ IsInjective(added) /\ ToSet(added) = news
  <2>1. added = IF placement = "prepend" THEN Reverse(list) ELSE list
    BY DEF Added
  <2> HIDE DEF list, news, added
  <2> QED
    BY <1>2, <1>3, <2>1, Reversed
<1>5. CASE news = {}
  BY <1>4, <1>5 DEF AppendMessages, SameView, Merged
<1>6. CASE news # {}
  <2> DEFINE last == Max(news \cup {p.lastId})
             oldest == Min(news \cup IF p.oldestId = 0 THEN {} ELSE {p.oldestId})
             timeline == IF placement = "prepend" THEN added \o p.timeline
                         ELSE p.timeline \o added
  <2>1. q = [p EXCEPT !.lastId = last, !.oldestId = oldest, !.timeline = timeline]
    BY <1>6 DEF AppendMessages, Added
  <2>2. p.lastId \in Nat /\ p.oldestId \in Nat /\ p.timeline \in Seq(Ids)
    BY DEF Pages
  <2>3. last \in Nat
    <3> DEFINE S == news \cup {p.lastId}
               n == MaxLog + p.lastId
    <3>1. n \in Nat /\ S \in SUBSET (0..n) /\ S # {}
      BY <1>1, <2>2, BrowserConstants DEF Ids
    <3>2. Max(S) \in S
      <4> HIDE DEF S, n
      <4> QED
        BY <3>1, ExtremesExist
    <3> QED
      BY <3>1, <3>2
  <2>4. oldest \in Nat
    <3> DEFINE S == news \cup IF p.oldestId = 0 THEN {} ELSE {p.oldestId}
               n == MaxLog + p.oldestId
    <3>1. n \in Nat /\ S \in SUBSET (0..n) /\ S # {}
      BY <1>1, <1>6, <2>2, BrowserConstants DEF Ids
    <3>2. Min(S) \in S
      <4> HIDE DEF S, n
      <4> QED
        BY <3>1, ExtremesExist
    <3> QED
      BY <3>1, <3>2
  <2>5. timeline \in Seq(Ids)
    <3> HIDE DEF added
    <3> QED
      BY <1>4, <2>2
  <2> HIDE DEF last, oldest, timeline, added, news, q
  <2>6. /\ q \in Pages /\ SameView(p, q)
        /\ q.lastId = last /\ q.oldestId = oldest /\ q.timeline = timeline
    BY <2>1, <2>3, <2>4, <2>5 DEF Pages, SameView
  <2>7. Merged(p, q, news, added, placement)
    BY <1>4, <1>6, <2>6 DEF Merged, last, oldest, timeline
  <2> QED
    BY <2>7 DEF q, news, added
<1> QED
  BY <1>5, <1>6

\* A page without messages has its cursors at 0.
Emptied(q) == q.timeline = <<>> /\ q.lastId = 0 /\ q.oldestId = 0

\* Such a page is right.
LEMMA EmptiedCursors ==
  ASSUME NEW q, Emptied(q)
  PROVE  CursorsOf(q) /\ Shown(q) = {}
<1>1. Shown(q) = {}
  BY DEF Emptied, Shown, ToSet
<1>2. IsInjective(q.timeline)
  BY DEF Emptied, IsInjective
<1>3. Max(Shown(q) \cup {0}) = 0
  <2>1. Shown(q) \cup {0} = {0}
    BY <1>1
  <2> QED
    BY <2>1, MaxIs
<1> QED
  BY <1>1, <1>2, <1>3 DEF CursorsOf, Emptied

\* The extremes of a timeline that shows something.
LEMMA CursorsAreExtremes ==
  ASSUME NEW p \in Pages, CursorsOf(p)
  PROVE  /\ Shown(p) \in SUBSET Ids
         /\ p.timeline = <<>> <=> Shown(p) = {}
         /\ p.timeline = <<>> => p.lastId = 0 /\ p.oldestId = 0
         /\ p.timeline # <<>> =>
              /\ p.lastId \in Shown(p) /\ \A id \in Shown(p) : id <= p.lastId
              /\ p.oldestId \in Shown(p) /\ \A id \in Shown(p) : p.oldestId <= id
<1>1. p.timeline \in Seq(Ids)
  BY DEF Pages
<1>2. DOMAIN p.timeline = 1..Len(p.timeline) /\ Len(p.timeline) \in Nat
  BY <1>1
<1>3. Shown(p) \in SUBSET Ids
  BY <1>1, <1>2 DEF Shown, ToSet
<1>4. p.timeline = <<>> <=> Shown(p) = {}
  <2>1. p.timeline = <<>> => Shown(p) = {}
    BY DEF Shown, ToSet
  <2>2. ASSUME p.timeline # <<>> PROVE Shown(p) # {}
    <3>1. 1 \in DOMAIN p.timeline
      BY <1>1, <2>2
    <3> QED
      BY <3>1 DEF Shown, ToSet
  <2> QED
    BY <2>1, <2>2
<1>5. ASSUME p.timeline = <<>> PROVE p.lastId = 0 /\ p.oldestId = 0
  <2>1. Shown(p) \cup {0} = {0}
    BY <1>4, <1>5
  <2>2. Max(Shown(p) \cup {0}) = 0
    BY <2>1, MaxIs
  <2> QED
    BY <1>5, <2>2 DEF CursorsOf
<1>6. ASSUME p.timeline # <<>>
      PROVE  /\ p.lastId \in Shown(p) /\ \A id \in Shown(p) : id <= p.lastId
             /\ p.oldestId \in Shown(p) /\ \A id \in Shown(p) : p.oldestId <= id
  <2> DEFINE S == Shown(p)
             T == Shown(p) \cup {0}
  <2>1. S \in SUBSET (0..MaxLog) /\ S # {} /\ T \in SUBSET (0..MaxLog) /\ T # {}
    BY <1>3, <1>4, <1>6, BrowserConstants DEF Ids
  <2>2. \A id \in S : id > 0
    BY <1>3, BrowserConstants DEF Ids
  <2>3. p.lastId = Max(T) /\ p.oldestId = Min(S)
    BY <1>6 DEF CursorsOf
  <2>4. T = S \cup {0}
    OBVIOUS
  <2> HIDE DEF S, T
  <2>5. Min(S) \in S /\ \A id \in S : Min(S) <= id
    BY <2>1, BrowserConstants, ExtremesExist
  <2>6. Max(T) \in T /\ \A id \in T : id <= Max(T)
    BY <2>1, BrowserConstants, ExtremesExist
  <2>7. Max(T) \in S
    <3>1. PICK id \in S : TRUE
      BY <2>1
    <3>2. Max(T) # 0
      BY <2>1, <2>2, <2>4, <2>6, <3>1
    <3> QED
      BY <2>4, <2>6, <3>2
  <2> QED
    BY <2>3, <2>4, <2>5, <2>6, <2>7 DEF S
<1> QED
  BY <1>3, <1>4, <1>5, <1>6

\* The other way round: a page whose cursors are the extremes is right.
LEMMA ExtremesAreCursors ==
  ASSUME NEW q \in Pages, IsInjective(q.timeline), q.timeline # <<>>,
         q.lastId \in Shown(q), \A id \in Shown(q) : id <= q.lastId,
         q.oldestId \in Shown(q), \A id \in Shown(q) : q.oldestId <= id
  PROVE  CursorsOf(q)
<1>1. q.timeline \in Seq(Ids)
  BY DEF Pages
<1>2. Shown(q) \in SUBSET Nat
  BY <1>1, BrowserConstants DEF Shown, ToSet, Ids
<1>3. Min(Shown(q)) = q.oldestId
  BY <1>2, MinIs
<1>4. Max(Shown(q) \cup {0}) = q.lastId
  <2> DEFINE T == Shown(q) \cup {0}
  <2>1. T \subseteq Nat /\ q.lastId \in T /\ \A id \in T : id <= q.lastId
    BY <1>2
  <2> HIDE DEF T
  <2>2. Max(T) = q.lastId
    BY <2>1, MaxIs
  <2> QED
    BY <2>2 DEF T
<1> QED
  BY <1>3, <1>4 DEF CursorsOf

\* Merging an answer keeps the cursors right, and shows its rows.
LEMMA AppendKeepsCursors ==
  ASSUME NEW p \in Pages, NEW rows \in SUBSET Ids, NEW order \in Orders, NEW placement,
         CursorsOf(p)
  PROVE  LET q == AppendMessages(p, rows, order, placement)
         IN CursorsOf(q) /\ Shown(q) = Shown(p) \cup rows
<1> DEFINE q == AppendMessages(p, rows, order, placement)
           news == rows \ Shown(p)
           added == Added(p, rows, order, placement)
<1>0. Merged(p, q, news, added, placement)
  BY AppendMessagesIs
<1>2. /\ news \in SUBSET Ids
      /\ news = {} => rows \subseteq Shown(p)
      /\ news \cup Shown(p) = rows \cup Shown(p)
      /\ news \cap Shown(p) = {}
  OBVIOUS
<1> HIDE DEF q, news, added
<1>1. /\ q \in Pages
      /\ added \in Seq(Ids) /\ IsInjective(added) /\ ToSet(added) = news
      /\ news = {} => q = p
      /\ news # {} =>
           /\ q.lastId = Max(news \cup {p.lastId})
           /\ q.oldestId = Min(news \cup IF p.oldestId = 0 THEN {} ELSE {p.oldestId})
           /\ q.timeline = IF placement = "prepend" THEN added \o p.timeline
                           ELSE p.timeline \o added
  BY <1>0 DEF Merged
<1>3. CASE news = {}
  BY <1>1, <1>2, <1>3 DEF q
<1>4. CASE news # {}
  <2>0. \A id \in Ids : id \in 0..MaxLog
    BY BrowserConstants DEF Ids
  <2>1. /\ Shown(p) \in SUBSET Ids
        /\ p.timeline = <<>> <=> Shown(p) = {}
        /\ p.timeline = <<>> => p.lastId = 0 /\ p.oldestId = 0
        /\ p.timeline # <<>> =>
             /\ p.lastId \in Shown(p) /\ \A id \in Shown(p) : id <= p.lastId
             /\ p.oldestId \in Shown(p) /\ \A id \in Shown(p) : p.oldestId <= id
    BY CursorsAreExtremes
  <2>2. p.timeline \in Seq(Ids) /\ IsInjective(p.timeline) /\ ToSet(p.timeline) = Shown(p)
    BY DEF Pages, CursorsOf, Shown
  <2>3. IsInjective(q.timeline) /\ Shown(q) = Shown(p) \cup news
    <3>1. IsInjective(added \o p.timeline) /\ IsInjective(p.timeline \o added)
      BY <1>1, <1>2, <2>2, JoinedInjective
    <3>2. /\ ToSet(added \o p.timeline) = Shown(p) \cup news
          /\ ToSet(p.timeline \o added) = Shown(p) \cup news
      BY <1>1, <2>2, Joined
    <3> QED
      BY <1>1, <1>4, <3>1, <3>2 DEF Shown
  <2>4. q.timeline # <<>>
    <3>1. q.timeline = <<>> => Shown(q) = {}
      BY DEF Shown, ToSet
    <3> QED
      BY <1>4, <2>3, <3>1
  <2>5. q.lastId \in Shown(q) /\ \A id \in Shown(q) : id <= q.lastId
    <3> DEFINE S == news \cup {p.lastId}
    <3>1. p.lastId \in 0..MaxLog
      BY <2>1, BrowserConstants DEF Ids
    <3>2. S \in SUBSET (0..MaxLog) /\ S # {}
      BY <1>2, <2>0, <3>1
    <3>3. Max(S) \in S /\ \A y \in S : y <= Max(S)
      <4> HIDE DEF S
      <4> QED
        BY <3>2, BrowserConstants, ExtremesExist
    <3>4. q.lastId = Max(S) /\ q.lastId \in 0..MaxLog
      BY <1>1, <1>4, <3>2, <3>3
    <3>5. CASE p.timeline = <<>>
      <4>1. S = news \cup {0} /\ Shown(q) = news
        BY <2>1, <2>3, <3>5
      <4>2. q.lastId # 0
        <5>1. PICK id \in news : TRUE
          BY <1>4
        <5>2. id > 0 /\ id <= q.lastId /\ id \in Nat
          BY <1>2, <3>3, <3>4, <4>1, BrowserConstants DEF Ids
        <5> QED
          BY <5>2
      <4> QED
        BY <3>3, <3>4, <4>1, <4>2
    <3>6. CASE p.timeline # <<>>
      <4>1. q.lastId \in Shown(q)
        BY <2>1, <2>3, <3>3, <3>4, <3>6
      <4>2. ASSUME NEW id \in Shown(p) PROVE id <= q.lastId
        <5>1. id \in Nat /\ p.lastId \in Nat /\ q.lastId \in Nat
          BY <2>1, <3>1, <3>4, BrowserConstants DEF Ids
        <5>2. id <= p.lastId /\ p.lastId <= q.lastId
          BY <2>1, <3>3, <3>4, <3>6
        <5> QED
          BY <5>1, <5>2
      <4> QED
        BY <2>3, <3>3, <3>4, <4>1, <4>2
    <3> QED
      BY <3>5, <3>6
  <2>6. q.oldestId \in Shown(q) /\ \A id \in Shown(q) : q.oldestId <= id
    <3> DEFINE S == news \cup IF p.oldestId = 0 THEN {} ELSE {p.oldestId}
    <3>1. p.oldestId \in 0..MaxLog /\ (p.timeline # <<>> => p.oldestId # 0)
      BY <2>1, BrowserConstants DEF Ids
    <3>2. S \in SUBSET (0..MaxLog) /\ S # {}
      BY <1>2, <1>4, <2>0, <3>1
    <3>3. Min(S) \in S /\ \A y \in S : Min(S) <= y
      <4> HIDE DEF S
      <4> QED
        BY <3>2, BrowserConstants, ExtremesExist
    <3>4. q.oldestId = Min(S) /\ q.oldestId \in 0..MaxLog
      BY <1>1, <1>4, <3>2, <3>3
    <3>5. CASE p.timeline = <<>>
      <4>1. S = news /\ Shown(q) = news
        BY <2>1, <2>3, <3>5
      <4> QED
        BY <3>3, <3>4, <4>1
    <3>6. CASE p.timeline # <<>>
      <4>0. S = news \cup {p.oldestId}
        BY <3>1, <3>6
      <4>1. q.oldestId \in Shown(q)
        BY <2>1, <2>3, <3>3, <3>4, <3>6, <4>0
      <4>2. ASSUME NEW id \in Shown(p) PROVE q.oldestId <= id
        <5>1. id \in Nat /\ p.oldestId \in Nat /\ q.oldestId \in Nat
          BY <2>1, <3>1, <3>4, BrowserConstants DEF Ids
        <5>2. p.oldestId <= id /\ q.oldestId <= p.oldestId
          BY <2>1, <3>3, <3>4, <3>6, <4>0
        <5> QED
          BY <5>1, <5>2
      <4> QED
        BY <2>3, <3>3, <3>4, <4>0, <4>1, <4>2
    <3> QED
      BY <3>5, <3>6
  <2> QED
    BY <1>1, <1>2, <2>3, <2>4, <2>5, <2>6, ExtremesAreCursors DEF q
<1> QED
  BY <1>3, <1>4 DEF q

--------------------------------------------------------------------------------
(* Types *)

\* A request as the code sends it: what reads or posts names a channel, and a window
\* is not asked for with the cursor 0.
Sensible(r) ==
  r # NULL =>
    /\ r \in Requests
    /\ r.kind # "poll" => r.cursor # 0
    /\ r.kind # "channels" => r.channel # NULL

\* The types, and room for the posts under way.
Typed ==
  /\ TypeOK
  /\ \A s \in Slots : Sensible(requests[s])
  /\ Len(log) + Cardinality(PostsSent) <= MaxLog

\* The page's functions give pages; those that reset it leave it without messages.
LEMMA PageFunctions ==
  ASSUME NEW p \in Pages
  PROVE  /\ ClearedPage \in Pages /\ Emptied(ClearedPage)
         /\ ResetHistory(p) \in Pages /\ Emptied(ResetHistory(p))
         /\ ResetHistory(p).channel = p.channel /\ ResetHistory(p).order = p.order
         /\ Latest(p) \in Pages /\ Emptied(Latest(p))
         /\ Latest(p).channel = p.channel /\ Latest(p).order = p.order
<1>1. <<>> \in Seq(Ids)
  OBVIOUS
<1>2. 0 \in Nat /\ NULL \in Channels \cup {NULL} /\ "desc" \in Orders
  BY DEF Orders
<1>3. ClearedPage \in Pages /\ Emptied(ClearedPage)
  BY <1>1, <1>2 DEF ClearedPage, Pages, Emptied
<1>4. /\ ResetHistory(p) \in Pages /\ Emptied(ResetHistory(p))
      /\ ResetHistory(p).channel = p.channel /\ ResetHistory(p).order = p.order
  BY <1>1 DEF ResetHistory, Pages, Emptied
<1>5. /\ Latest(p) \in Pages /\ Emptied(Latest(p))
      /\ Latest(p).channel = p.channel /\ Latest(p).order = p.order
  <2> DEFINE q == [p EXCEPT !.followLatest = (p.order = "desc"), !.historyTargetId = NULL]
  <2>1. q \in Pages /\ q.channel = p.channel /\ q.order = p.order
    BY DEF Pages
  <2>2. /\ ResetHistory(q) \in Pages /\ Emptied(ResetHistory(q))
        /\ ResetHistory(q).channel = q.channel /\ ResetHistory(q).order = q.order
    <3> HIDE DEF q
    <3> QED
      BY <1>1, <2>1 DEF ResetHistory, Pages, Emptied
  <2> QED
    BY <2>1, <2>2 DEF Latest
<1> QED
  BY <1>3, <1>4, <1>5

\* Selecting a channel empties the page.
LEMMA SelectedIs ==
  ASSUME NEW p \in Pages, NEW c \in Channels
  PROVE  /\ Selected(p, c) \in Pages /\ Emptied(Selected(p, c))
         /\ Selected(p, c).channel = c /\ Selected(p, c).order = p.order
<1> DEFINE q == [p EXCEPT !.channel = c]
<1>1. q \in Pages /\ q.channel = c /\ q.order = p.order
  BY DEF Pages
<1> HIDE DEF q
<1>2. /\ Latest(q) \in Pages /\ Emptied(Latest(q))
      /\ Latest(q).channel = q.channel /\ Latest(q).order = q.order
  BY <1>1, PageFunctions
<1> QED
  BY <1>1, <1>2 DEF Selected, q

\* The fields of a request.
LEMMA RequestIs ==
  ASSUME session \in BOOLEAN, NEW p \in Pages, NEW kind \in Kinds, NEW cursor \in Nat \cup {NULL},
         NEW target \in Ids \cup {NULL}, NEW then \in {"nothing", "send", "login", "admin"}
  PROVE  LET r == Request(kind, p, cursor, target, then)
         IN /\ r \in Requests
            /\ r.kind = kind /\ r.channel = p.channel /\ r.order = p.order
            /\ r.cursor = cursor /\ r.target = target /\ r.then = then
            /\ r.stage = "sent" /\ r.rows = {}
BY DEF Request, Requests, Pages

\* The fields of a request without a cursor.
LEMMA PlainRequestIs ==
  ASSUME session \in BOOLEAN, NEW p \in Pages, NEW kind \in Kinds,
         NEW then \in {"nothing", "send", "login", "admin"}
  PROVE  /\ Request(kind, p, NULL, NULL, then) \in Requests
         /\ Request(kind, p, NULL, NULL, then).kind = kind
         /\ Request(kind, p, NULL, NULL, then).channel = p.channel
         /\ Request(kind, p, NULL, NULL, then).order = p.order
         /\ Request(kind, p, NULL, NULL, then).cursor = NULL
         /\ Request(kind, p, NULL, NULL, then).then = then
         /\ Request(kind, p, NULL, NULL, then).stage = "sent"
         /\ Request(kind, p, NULL, NULL, then).rows = {}
BY DEF Request, Requests, Pages

\* A request is put into a slot, goes on in it or leaves it.
Moved(s, r) == Sensible(r) /\ requests' = [requests EXCEPT ![s] = r]

\* Nothing is posted, and no post asked for.
NothingPosted ==
  /\ log' = log
  /\ \/ requests' = requests
     \/ \E s \in Slots : \E r : /\ Moved(s, r)
                                /\ r # NULL => r.kind # "post" \/ r.stage # "sent"

\* A post is sent where there is room for it.
PostAsked == log' = log /\ Room /\ \E s \in Slots : \E r : Moved(s, r)

\* A post that was sent is stored.
PostStored ==
  \E s \in PostsSent, c \in Channels :
    /\ log' = Append(log, c)
    /\ Moved(s, [requests[s] EXCEPT !.stage = "answered"])

\* Someone else's is.
OtherStored == \E c \in Channels : Room /\ log' = Append(log, c) /\ requests' = requests

\* What a step does to log and requests keeps their types.
LEMMA RequestsTyped ==
  ASSUME Typed, NothingPosted \/ PostAsked \/ PostStored \/ OtherStored
  PROVE  /\ log' \in Seq(Channels) /\ Len(log') <= MaxLog
         /\ requests' \in [Slots -> Requests \cup {NULL}]
         /\ \A s \in Slots : Sensible(requests'[s])
         /\ Len(log') + Cardinality(PostsSent') <= MaxLog
<1>0. /\ log \in Seq(Channels) /\ requests \in [Slots -> Requests \cup {NULL}]
      /\ \A s \in Slots : Sensible(requests[s])
      /\ Len(log) \in Nat /\ MaxLog \in Nat
      /\ Len(log) + Cardinality(PostsSent) <= MaxLog
  BY BrowserConstants DEF Typed, TypeOK
<1>1. IsFiniteSet(PostsSent) /\ Cardinality(PostsSent) \in Nat
  <2>1. PostsSent \in SUBSET Slots
    BY DEF PostsSent
  <2> QED
    BY <2>1, BrowserConstants, FS_Subset, FS_CardinalityType
<1>2. ASSUME NEW s \in Slots, NEW r, Moved(s, r)
      PROVE  /\ requests' \in [Slots -> Requests \cup {NULL}]
             /\ \A t \in Slots : Sensible(requests'[t])
             /\ requests'[s] = r /\ \A t \in Slots \ {s} : requests'[t] = requests[t]
  <2>1. r \in Requests \cup {NULL}
    BY <1>2 DEF Moved, Sensible
  <2>2. requests'[s] = r /\ \A t \in Slots \ {s} : requests'[t] = requests[t]
    BY <1>0, <1>2 DEF Moved
  <2>3. requests' \in [Slots -> Requests \cup {NULL}]
    BY <1>0, <1>2, <2>1 DEF Moved
  <2>4. \A t \in Slots : Sensible(requests'[t])
    BY <1>0, <1>2, <2>2 DEF Moved
  <2> QED
    BY <2>2, <2>3, <2>4
<1>3. CASE NothingPosted
  <2>1. PostsSent' \in SUBSET PostsSent
    <3>1. CASE requests' = requests
      BY <3>1 DEF PostsSent
    <3>2. CASE \E s \in Slots : \E r : /\ Moved(s, r)
                                       /\ r # NULL => r.kind # "post" \/ r.stage # "sent"
      <4>0. PICK s \in Slots : \E r : /\ Moved(s, r)
                                      /\ r # NULL => r.kind # "post" \/ r.stage # "sent"
        BY <3>2
      <4>1. PICK r : /\ Moved(s, r)
                     /\ r # NULL => r.kind # "post" \/ r.stage # "sent"
        BY <4>0
      <4>2. requests'[s] = r /\ \A t \in Slots \ {s} : requests'[t] = requests[t]
        BY <1>2, <4>1
      <4> QED
        BY <4>1, <4>2 DEF PostsSent
    <3> QED
      BY <1>3, <3>1, <3>2 DEF NothingPosted
  <2>2. Cardinality(PostsSent') <= Cardinality(PostsSent) /\ Cardinality(PostsSent') \in Nat
    BY <1>1, <2>1, FS_Subset, FS_CardinalityType
  <2>3. /\ requests' \in [Slots -> Requests \cup {NULL}]
        /\ \A t \in Slots : Sensible(requests'[t])
    BY <1>0, <1>2, <1>3 DEF NothingPosted
  <2>4. log' = log
    BY <1>3 DEF NothingPosted
  <2> QED
    BY <1>0, <1>1, <2>2, <2>3, <2>4
<1>4. CASE PostAsked
  <2>0. PICK s \in Slots : \E r : Moved(s, r)
    BY <1>4 DEF PostAsked
  <2>1. PICK r : Moved(s, r)
    BY <2>0
  <2>2. \A t \in Slots \ {s} : requests'[t] = requests[t]
    BY <1>2, <2>1
  <2>3. PostsSent' \in SUBSET (PostsSent \cup {s})
    BY <2>2 DEF PostsSent
  <2>4. /\ IsFiniteSet(PostsSent \cup {s})
        /\ Cardinality(PostsSent \cup {s}) <= Cardinality(PostsSent) + 1
    <3>1. /\ IsFiniteSet(PostsSent \cup {s})
          /\ Cardinality(PostsSent \cup {s})
               = IF s \in PostsSent THEN Cardinality(PostsSent) ELSE Cardinality(PostsSent) + 1
      BY <1>1, FS_AddElement
    <3> QED
      BY <1>1, <3>1
  <2>5. /\ Cardinality(PostsSent') <= Cardinality(PostsSent \cup {s})
        /\ Cardinality(PostsSent') \in Nat /\ Cardinality(PostsSent \cup {s}) \in Nat
    BY <2>3, <2>4, FS_Subset, FS_CardinalityType
  <2>6. Len(log) + Cardinality(PostsSent) < MaxLog /\ log' = log
    BY <1>4 DEF PostAsked, Room
  <2>7. Len(log') + Cardinality(PostsSent') <= MaxLog
    BY <1>0, <1>1, <2>4, <2>5, <2>6
  <2> QED
    BY <1>0, <1>1, <1>2, <2>1, <2>6, <2>7
<1>5. CASE PostStored
  <2>1. PICK s \in PostsSent, c \in Channels :
          /\ log' = Append(log, c)
          /\ Moved(s, [requests[s] EXCEPT !.stage = "answered"])
    BY <1>5 DEF PostStored
  <2>2. /\ s \in Slots /\ requests[s] \in Requests
    BY <1>0 DEF PostsSent, Sensible
  <2>3. /\ requests'[s].stage = "answered"
        /\ \A t \in Slots \ {s} : requests'[t] = requests[t]
    BY <1>2, <2>1, <2>2 DEF Requests
  <2>4. PostsSent' \in SUBSET (PostsSent \ {s})
    BY <2>3 DEF PostsSent
  <2>5. IsFiniteSet(PostsSent \ {s}) /\ Cardinality(PostsSent \ {s}) = Cardinality(PostsSent) - 1
    BY <1>1, FS_RemoveElement
  <2>6. /\ Cardinality(PostsSent') <= Cardinality(PostsSent \ {s})
        /\ Cardinality(PostsSent') \in Nat
    BY <2>4, <2>5, FS_Subset, FS_CardinalityType
  <2>7. log' \in Seq(Channels) /\ Len(log') = Len(log) + 1
    BY <1>0, <2>1
  <2>8. Len(log') + Cardinality(PostsSent') <= MaxLog
    BY <1>0, <1>1, <2>5, <2>6, <2>7
  <2> QED
    BY <1>0, <1>2, <2>1, <2>2, <2>6, <2>7, <2>8
<1>6. CASE OtherStored
  <2>1. PICK c \in Channels : Room /\ log' = Append(log, c) /\ requests' = requests
    BY <1>6 DEF OtherStored
  <2>2. PostsSent' = PostsSent
    BY <2>1 DEF PostsSent
  <2>3. log' \in Seq(Channels) /\ Len(log') = Len(log) + 1
    BY <1>0, <2>1
  <2> QED
    BY <1>0, <1>1, <2>1, <2>2, <2>3 DEF Room
<1> QED
  BY <1>3, <1>4, <1>5, <1>6

SameTimeline(p, q) ==
  q.timeline = p.timeline /\ q.lastId = p.lastId /\ q.oldestId = p.oldestId

\* updateHistoryNav leaves the timeline alone.
LEMMA WithMoreIs ==
  ASSUME NEW p \in Pages, NEW more \in BOOLEAN
  PROVE  /\ WithMore(p, more) \in Pages /\ SameTimeline(p, WithMore(p, more))
         /\ WithMore(p, more).channel = p.channel /\ WithMore(p, more).order = p.order
         /\ WithMore(p, more).hasOlder = more
BY DEF WithMore, Pages, SameTimeline

\* A step leaves the timeline alone, empties it, or merges an answer into it, or
\* into an empty one.
TimelineStep ==
  \/ SameTimeline(page, page')
  \/ Emptied(page')
  \/ \E p \in Pages, rows \in SUBSET Ids, order \in Orders, placement \in {"append", "prepend"} :
       /\ SameTimeline(page, p) \/ Emptied(p)
       /\ SameTimeline(AppendMessages(p, rows, order, placement), page')

\* What is shown of every step.
GoodStep ==
  /\ page' \in Pages /\ session' \in BOOLEAN /\ polling' \in BOOLEAN
  /\ waiting' \subseteq {"send", "jump-go"} /\ errors' \in 0..MaxErrors
  /\ NothingPosted \/ PostAsked \/ PostStored \/ OtherStored
  /\ TimelineStep

\* A request that is sent takes a free slot.
LEMMA SendMoves ==
  ASSUME NEW r, Sensible(r), Send(r)
  PROVE  \E s \in Slots : requests[s] = NULL /\ Moved(s, r)
BY DEF Send, Moved

\* loadLatestHistory resets the page and asks for the newest window.
LEMMA LoadLatestMoves ==
  ASSUME Typed, NEW p \in Pages, LoadLatest(p)
  PROVE  \/ p.channel = NULL /\ page' = p /\ requests' = requests
         \/ /\ p.channel # NULL /\ page' = Latest(p)
            /\ Sensible(LatestRequest(p, "nothing"))
            /\ LatestRequest(p, "nothing").kind = "latest"
            /\ \E s \in Slots : requests[s] = NULL /\ Moved(s, LatestRequest(p, "nothing"))
<1>1. CASE p.channel = NULL
  BY <1>1 DEF LoadLatest
<1>2. CASE p.channel # NULL
  <2>1. page' = Latest(p) /\ Send(LatestRequest(p, "nothing"))
    BY <1>2 DEF LoadLatest
  <2>2. /\ LatestRequest(p, "nothing") \in Requests
        /\ LatestRequest(p, "nothing").kind = "latest"
        /\ LatestRequest(p, "nothing").channel = p.channel
        /\ LatestRequest(p, "nothing").cursor = NULL
    BY PlainRequestIs DEF LatestRequest, Kinds, Typed, TypeOK
  <2>3. Sensible(LatestRequest(p, "nothing"))
    BY <1>2, <2>2, NullIsNoChannel DEF Sensible
  <2> QED
    BY <1>2, <2>1, <2>2, <2>3, SendMoves
<1> QED
  BY <1>1, <1>2

\* What the user starts.
LEMMA ActSteps == Typed /\ Act => GoodStep
<1> SUFFICES ASSUME Typed, Act PROVE GoodStep
  OBVIOUS
<1>0. /\ page \in Pages /\ session \in BOOLEAN /\ polling \in BOOLEAN
      /\ waiting \subseteq {"send", "jump-go"} /\ errors \in 0..MaxErrors
  BY DEF Typed, TypeOK
<1> DEFINE Base == /\ session' \in BOOLEAN /\ polling' \in BOOLEAN
                   /\ waiting' \subseteq {"send", "jump-go"} /\ errors' \in 0..MaxErrors
<1>1. CASE FinishLogin
  <2> DEFINE r == [Request("channels", page', NULL, NULL, "login") EXCEPT !.auth = TRUE]
  <2>1. page' \in Pages /\ SameTimeline(page, page')
    BY <1>0, <1>1 DEF FinishLogin, Pages, SameTimeline
  <2>2. /\ Request("channels", page', NULL, NULL, "login") \in Requests
        /\ Request("channels", page', NULL, NULL, "login").kind = "channels"
        /\ Request("channels", page', NULL, NULL, "login").cursor = NULL
    BY <1>0, <2>1, PlainRequestIs DEF Kinds
  <2>3. r \in Requests /\ r.kind = "channels" /\ r.cursor = NULL
    BY <2>2 DEF Requests
  <2>4. Send(r) /\ Base /\ log' = log
    BY <1>0, <1>1 DEF FinishLogin
  <2> HIDE DEF r
  <2>5. Sensible(r)
    BY <2>3, NullIsNoChannel DEF Sensible
  <2>6. NothingPosted
    BY <2>3, <2>4, <2>5, SendMoves DEF NothingPosted
  <2> QED
    BY <2>1, <2>4, <2>6 DEF GoodStep, TimelineStep
<1>2. CASE ReloadChannels
  <2> DEFINE r == Request("channels", page, NULL, NULL, "admin")
  <2>1. r \in Requests /\ r.kind = "channels" /\ r.cursor = NULL
    BY <1>0, RequestIs DEF Kinds
  <2>2. Send(r) /\ Base /\ log' = log /\ page' = page
    BY <1>0, <1>2 DEF ReloadChannels
  <2> HIDE DEF r
  <2>3. Sensible(r)
    BY <2>1, NullIsNoChannel DEF Sensible
  <2>4. NothingPosted
    BY <2>1, <2>2, <2>3, SendMoves DEF NothingPosted
  <2> QED
    BY <1>0, <2>2, <2>4 DEF GoodStep, TimelineStep, SameTimeline
<1>3. CASE Disconnect
  <2>1. Base /\ log' = log /\ page' = ClearedPage /\ requests' = requests
    BY <1>0, <1>3 DEF Disconnect
  <2> QED
    BY <1>0, <2>1, PageFunctions DEF GoodStep, TimelineStep, NothingPosted
<1>4. CASE ChangeOrder
  <2> DEFINE p == [page EXCEPT !.order = IF @ = "desc" THEN "asc" ELSE "desc"]
  <2>1. p \in Pages /\ SameTimeline(page, p)
    BY <1>0 DEF Pages, SameTimeline, Orders
  <2>2. LoadLatest(p) /\ Base /\ log' = log
    BY <1>0, <1>4 DEF ChangeOrder
  <2> HIDE DEF p
  <2> QED
    BY <2>1, <2>2, LoadLatestMoves, PageFunctions DEF GoodStep, TimelineStep, NothingPosted
<1>5. CASE BackToLatest
  <2> DEFINE p == [page EXCEPT !.order = "desc"]
  <2>1. p \in Pages /\ SameTimeline(page, p)
    BY <1>0 DEF Pages, SameTimeline, Orders
  <2>2. LoadLatest(p) /\ Base /\ log' = log
    BY <1>0, <1>5 DEF BackToLatest
  <2> HIDE DEF p
  <2> QED
    BY <2>1, <2>2, LoadLatestMoves, PageFunctions DEF GoodStep, TimelineStep, NothingPosted
<1>6. CASE LoadOlder
  <2> DEFINE cursor == IF page.order = "desc" THEN page.oldestId ELSE page.lastId
             r == Request("older", page, cursor, NULL, "nothing")
  <2>1. cursor \in Nat /\ cursor # 0 /\ page.channel # NULL
    BY <1>0, <1>6 DEF LoadOlder, Pages
  <2>2. Send(r) /\ Base /\ log' = log /\ page' = [page EXCEPT !.nav = "loading"]
    BY <1>0, <1>6 DEF LoadOlder
  <2> HIDE DEF cursor
  <2>3. r \in Requests /\ r.kind = "older" /\ r.cursor = cursor /\ r.channel = page.channel
    BY <1>0, <2>1, RequestIs DEF Kinds
  <2> HIDE DEF r
  <2>4. Sensible(r)
    BY <2>1, <2>3 DEF Sensible
  <2>5. NothingPosted
    BY <2>2, <2>3, <2>4, SendMoves DEF NothingPosted
  <2>6. page' \in Pages /\ SameTimeline(page, page')
    BY <1>0, <2>2 DEF Pages, SameTimeline
  <2> QED
    BY <2>2, <2>5, <2>6 DEF GoodStep, TimelineStep
<1>7. ASSUME NEW p \in Pages, NEW id \in Ids, p.channel # NULL
      PROVE  Sensible(JumpRequest(p, id)) /\ JumpRequest(p, id).kind = "jump"
  <2> DEFINE cursor == IF p.order = "desc" THEN id + 1 ELSE IF id > 1 THEN id - 1 ELSE NULL
  <2>1. cursor \in Nat \cup {NULL} /\ cursor # 0
    BY BrowserConstants, NullIsNoChannel DEF Ids
  <2>2. JumpRequest(p, id) = Request("jump", p, cursor, id, "nothing")
    BY DEF JumpRequest
  <2> HIDE DEF cursor
  <2>3. /\ JumpRequest(p, id) \in Requests /\ JumpRequest(p, id).kind = "jump"
        /\ JumpRequest(p, id).cursor = cursor /\ JumpRequest(p, id).channel = p.channel
    BY <1>0, <2>1, <2>2, RequestIs DEF Kinds
  <2> QED
    BY <1>7, <2>1, <2>3 DEF Sensible
<1>8. CASE Refresh
  <2>1. Base /\ log' = log
    BY <1>0, <1>8 DEF Refresh
  <2>2. CASE /\ page.historyTargetId # NULL /\ page' = ResetHistory(page)
             /\ IF page.channel = NULL THEN UNCHANGED <<waiting, requests>>
                ELSE /\ waiting' = waiting \cup {"jump-go"}
                     /\ Send(JumpRequest(page, page.historyTargetId))
    <3>1. page.historyTargetId \in Ids
      BY <1>0, <2>2 DEF Pages
    <3>2. NothingPosted
      <4>1. CASE page.channel = NULL
        BY <2>1, <2>2, <4>1 DEF NothingPosted
      <4>2. CASE page.channel # NULL
        BY <1>0, <1>7, <2>1, <2>2, <3>1, <4>2, SendMoves DEF NothingPosted
      <4> QED
        BY <4>1, <4>2
    <3> QED
      BY <1>0, <2>1, <2>2, <3>2, PageFunctions DEF GoodStep, TimelineStep
  <2>3. CASE page.historyTargetId = NULL /\ LoadLatest(page) /\ UNCHANGED waiting
    BY <1>0, <2>1, <2>3, LoadLatestMoves, PageFunctions
       DEF GoodStep, TimelineStep, NothingPosted, SameTimeline
  <2> QED
    BY <1>8, <2>2, <2>3 DEF Refresh
<1>9. CASE Post
  <2> DEFINE r == Request("post", page, NULL, NULL, "nothing")
  <2>1. r \in Requests /\ r.kind = "post" /\ r.cursor = NULL /\ r.channel = page.channel
    BY <1>0, PlainRequestIs DEF Kinds
  <2>2. Send(r) /\ Base /\ Room /\ log' = log /\ page' = page /\ page.channel # NULL
    BY <1>0, <1>9 DEF Post
  <2> HIDE DEF r
  <2>3. Sensible(r)
    BY <2>1, <2>2, NullIsNoChannel DEF Sensible
  <2>4. PostAsked
    BY <2>2, <2>3, SendMoves DEF PostAsked
  <2> QED
    BY <1>0, <2>2, <2>4 DEF GoodStep, TimelineStep, SameTimeline
<1>10. CASE \E c \in Channels : SelectChannel(c)
  <2>1. PICK c \in Channels : SelectChannel(c)
    BY <1>10
  <2> DEFINE q == Selected(page, c)
             r == LatestRequest(q, "nothing")
  <2>2. q \in Pages /\ Emptied(q) /\ q.channel = c
    BY <1>0, SelectedIs
  <2>3. Send(r) /\ Base /\ log' = log /\ page' = q
    BY <1>0, <2>1 DEF SelectChannel
  <2> HIDE DEF q
  <2>4. r \in Requests /\ r.kind = "latest" /\ r.cursor = NULL /\ r.channel = c
    BY <1>0, <2>2, RequestIs DEF Kinds, LatestRequest
  <2> HIDE DEF r
  <2>5. Sensible(r)
    BY <2>4, NullIsNoChannel DEF Sensible
  <2>6. NothingPosted
    BY <2>3, <2>4, <2>5, SendMoves DEF NothingPosted
  <2> QED
    BY <2>2, <2>3, <2>6 DEF GoodStep, TimelineStep
<1>11. CASE \E c \in Channels : NewChannel(c)
  <2>1. PICK c \in Channels : NewChannel(c)
    BY <1>11
  <2> DEFINE p == [page EXCEPT !.channel = c]
  <2>2. p \in Pages
    BY <1>0 DEF Pages
  <2>3. Base /\ log' = log /\ requests' = requests /\ page' = ResetHistory(p)
    BY <1>0, <2>1 DEF NewChannel
  <2> HIDE DEF p
  <2> QED
    BY <2>2, <2>3, PageFunctions DEF GoodStep, TimelineStep, NothingPosted
<1>12. CASE \E id \in Ids : Jump(id)
  <2>1. PICK id \in Ids : Jump(id)
    BY <1>12
  <2>2. Base /\ log' = log /\ page' = page /\ page.channel # NULL /\ Send(JumpRequest(page, id))
    BY <1>0, <2>1 DEF Jump
  <2>3. NothingPosted
    BY <1>0, <1>7, <2>2, SendMoves DEF NothingPosted
  <2> QED
    BY <1>0, <2>2, <2>3 DEF GoodStep, TimelineStep, SameTimeline
<1> QED
  BY <1>1, <1>2, <1>3, <1>4, <1>5, <1>6, <1>8, <1>9, <1>10, <1>11, <1>12 DEF Act

\* The messages of a channel are messages.
LEMMA ChannelIdsAre ==
  ASSUME Typed, NEW c
  PROVE  ChannelIds(c) \in SUBSET Ids /\ ChannelIds(c) \in SUBSET (1..Len(log))
<1>1. log \in Seq(Channels) /\ Len(log) \in Nat /\ Len(log) <= MaxLog
  BY DEF Typed, TypeOK
<1> QED
  BY <1>1, BrowserConstants DEF ChannelIds, Ids

\* A page holds rows of its table.
LEMMA PageOf ==
  ASSUME NEW keys, NEW order, NEW cursor, NEW limit
  PROVE  Page(keys, order, cursor, limit) \in SUBSET keys
BY DEF Page, Beyond

\* The server's statements.
LEMMA ServerSteps ==
  ASSUME Typed, NEW s \in Slots, Serve(s) \/ ServeMore(s)
  PROVE  GoodStep
<1>0. /\ page \in Pages /\ session \in BOOLEAN /\ polling \in BOOLEAN
      /\ waiting \subseteq {"send", "jump-go"} /\ errors \in 0..MaxErrors
  BY DEF Typed, TypeOK
<1>1. UNCHANGED <<page, session, polling, waiting, errors>>
  BY DEF Serve, ServeMore
<1> SUFFICES NothingPosted \/ PostStored
  BY <1>0, <1>1 DEF GoodStep, TimelineStep, SameTimeline
<1> DEFINE r == requests[s]
<1>2. r # NULL /\ r \in Requests /\ Sensible(r)
  BY DEF Serve, ServeMore, Typed, Sensible
<1> HIDE DEF r
<1>3. ASSUME NEW rows \in SUBSET Ids, NEW stage \in {"paged", "answered"},
             requests' = [requests EXCEPT ![s] = [r EXCEPT !.rows = rows, !.stage = stage]],
             log' = log
      PROVE  NothingPosted
  <2> DEFINE q == [r EXCEPT !.rows = rows, !.stage = stage]
  <2>1. /\ q \in Requests /\ q.kind = r.kind /\ q.cursor = r.cursor /\ q.channel = r.channel
        /\ q.stage # "sent"
    BY <1>2 DEF Requests
  <2> HIDE DEF q
  <2>2. Sensible(q)
    BY <1>2, <2>1 DEF Sensible
  <2>3. Moved(s, q)
    BY <1>3, <2>2 DEF Moved, q
  <2> QED
    BY <1>3, <2>1, <2>3 DEF NothingPosted
<1>4. CASE ServeMore(s)
  <2> DEFINE more == HasMore(ChannelIds(r.channel), r.order, r.rows)
             q == [r EXCEPT !.stage = "answered", !.more = more]
  <2>1. requests' = [requests EXCEPT ![s] = q] /\ log' = log
    BY <1>4 DEF ServeMore, r
  <2>2. more \in BOOLEAN
    BY DEF HasMore
  <2> HIDE DEF more
  <2>3. /\ q \in Requests /\ q.kind = r.kind /\ q.cursor = r.cursor /\ q.channel = r.channel
        /\ q.stage # "sent"
    BY <1>2, <2>2 DEF Requests
  <2> HIDE DEF q
  <2>4. Sensible(q)
    BY <1>2, <2>3 DEF Sensible
  <2> QED
    BY <2>1, <2>3, <2>4 DEF NothingPosted, Moved
<1>5. CASE Serve(s) /\ r.kind \in {"latest", "older", "jump"}
  <2> DEFINE rows == Page(ChannelIds(r.channel), r.order, r.cursor, PageSize)
             stage == IF rows = {} THEN "answered" ELSE "paged"
  <2>1. requests' = [requests EXCEPT ![s] = [r EXCEPT !.rows = rows, !.stage = stage]]
        /\ log' = log
    BY <1>5 DEF Serve, r
  <2>2. rows \in SUBSET Ids
    <3>1. ChannelIds(r.channel) \in SUBSET Ids
      BY ChannelIdsAre
    <3>2. rows \in SUBSET ChannelIds(r.channel)
      BY PageOf
    <3> QED
      BY <3>1, <3>2
  <2>3. stage \in {"paged", "answered"}
    OBVIOUS
  <2> HIDE DEF rows, stage
  <2> QED
    BY <1>3, <2>1, <2>2, <2>3
<1>6. CASE Serve(s) /\ r.kind = "poll"
  <2> DEFINE rows == Page(ChannelIds(r.channel), "asc", r.cursor, PollLimit)
  <2>1. requests' = [requests EXCEPT ![s] = [r EXCEPT !.stage = "answered", !.rows = rows]]
        /\ log' = log
    BY <1>6 DEF Serve, r
  <2>2. rows \in SUBSET Ids
    <3>1. ChannelIds(r.channel) \in SUBSET Ids
      BY ChannelIdsAre
    <3>2. rows \in SUBSET ChannelIds(r.channel)
      BY PageOf
    <3> QED
      BY <3>1, <3>2
  <2> HIDE DEF rows
  <2>3. [r EXCEPT !.stage = "answered", !.rows = rows]
          = [r EXCEPT !.rows = rows, !.stage = "answered"]
    BY <1>2 DEF Requests
  <2> QED
    BY <1>3, <2>1, <2>2, <2>3
<1>7. CASE Serve(s) /\ r.kind = "post"
  <2>1. /\ log' = Append(log, r.channel) /\ r.stage = "sent"
        /\ requests' = [requests EXCEPT ![s] = [r EXCEPT !.stage = "answered"]]
    BY <1>7 DEF Serve, r
  <2>2. r.channel \in Channels
    BY <1>2, <1>7 DEF Sensible, Requests
  <2>3. s \in PostsSent
    BY <1>2, <1>7, <2>1 DEF PostsSent, r
  <2>4. Sensible([r EXCEPT !.stage = "answered"])
    BY <1>2 DEF Sensible, Requests
  <2> QED
    BY <2>1, <2>2, <2>3, <2>4 DEF PostStored, Moved, r
<1>8. CASE Serve(s) /\ r.kind = "channels"
  <2>1. log' = log /\ requests' = [requests EXCEPT ![s] = [r EXCEPT !.stage = "answered"]]
    BY <1>8 DEF Serve, r
  <2>2. Sensible([r EXCEPT !.stage = "answered"]) /\ [r EXCEPT !.stage = "answered"].stage # "sent"
    BY <1>2 DEF Sensible, Requests
  <2> QED
    BY <2>1, <2>2 DEF NothingPosted, Moved
<1>9. r.kind \in {"latest", "older", "jump", "poll", "post", "channels"}
  BY <1>2 DEF Requests, Kinds
<1> QED
  BY <1>4, <1>5, <1>6, <1>7, <1>8, <1>9

\* What the page does with an answer, and when there is none.
LEMMA AnswerSteps ==
  ASSUME Typed, NEW s \in Slots, Answer(s) \/ Fail(s) \/ Unauthorized(s)
  PROVE  GoodStep
<1>0. /\ page \in Pages /\ session \in BOOLEAN /\ polling \in BOOLEAN
      /\ waiting \subseteq {"send", "jump-go"} /\ errors \in 0..MaxErrors /\ MaxErrors \in Nat
  BY BrowserConstants DEF Typed, TypeOK
<1> DEFINE r == requests[s]
           Base == /\ session' \in BOOLEAN /\ polling' \in BOOLEAN
                   /\ waiting' \subseteq {"send", "jump-go"} /\ errors' \in 0..MaxErrors
<1>1. r # NULL /\ r \in Requests /\ log' = log
  BY DEF Answer, Fail, Unauthorized, Typed, Sensible
<1>2. /\ r.rows \in SUBSET Ids /\ r.order \in Orders /\ r.more \in BOOLEAN
      /\ r.target \in Ids \cup {NULL} /\ r.then \in {"nothing", "send", "login", "admin"}
  BY <1>1 DEF Requests
<1> HIDE DEF r
<1>3. Done(s) => NothingPosted
  BY <1>1 DEF Done, NothingPosted, Moved, Sensible
<1>4. ASSUME NEW then \in {"nothing", "send", "login", "admin"}, Returned(then)
      PROVE  polling' \in BOOLEAN /\ waiting' \subseteq {"send", "jump-go"}
  BY <1>0, <1>4 DEF Returned
<1>5. ASSUME NEW p \in Pages, p.channel # NULL, NEW then \in {"nothing", "send", "login", "admin"},
             requests' = [requests EXCEPT ![s] = LatestRequest(p, then)]
      PROVE  NothingPosted
  <2>1. /\ LatestRequest(p, then) \in Requests /\ LatestRequest(p, then).kind = "latest"
        /\ LatestRequest(p, then).channel = p.channel /\ LatestRequest(p, then).cursor = NULL
    BY <1>0, PlainRequestIs DEF LatestRequest, Kinds
  <2>2. Sensible(LatestRequest(p, then))
    BY <1>5, <2>1, NullIsNoChannel DEF Sensible
  <2> QED
    BY <1>1, <1>5, <2>1, <2>2 DEF NothingPosted, Moved
<1>6. CASE Answer(s) /\ ShowWindow(s)
  <2> DEFINE q == AppendMessages(page, r.rows, r.order, "append")
  <2>1. /\ page' = WithMore(q, r.more) /\ Done(s) /\ Returned(r.then)
        /\ session' = session /\ errors' = errors
    BY <1>6 DEF Answer, ShowWindow, r
  <2>2. q \in Pages
    BY <1>0, <1>2, AppendMessagesIs DEF Merged
  <2>3. WithMore(q, r.more) \in Pages /\ SameTimeline(q, WithMore(q, r.more))
    <3> HIDE DEF q
    <3> QED
      BY <1>2, <2>2, WithMoreIs
  <2>4. TimelineStep
    BY <1>0, <1>2, <2>1, <2>3 DEF TimelineStep, SameTimeline
  <2> HIDE DEF q
  <2> QED
    BY <1>0, <1>2, <1>3, <1>4, <2>1, <2>3, <2>4 DEF GoodStep
<1>7. CASE Answer(s) /\ ShowJump(s)
  <2>1. /\ Done(s) /\ session' = session /\ errors' = errors /\ polling' = polling
        /\ waiting' = waiting \ {"jump-go"}
    BY <1>7 DEF Answer, ShowJump
  <2>2. Base
    BY <1>0, <2>1
  <2>3. CASE r.target \notin r.rows
    <3>1. page' = page
      BY <1>7, <2>3 DEF ShowJump, r
    <3> QED
      BY <1>0, <1>3, <2>1, <2>2, <3>1 DEF GoodStep, TimelineStep, SameTimeline
  <2>4. CASE r.target \in r.rows
    <3> DEFINE target == [page EXCEPT !.followLatest = FALSE, !.historyTargetId = r.target]
               p == ResetHistory(target)
               q == AppendMessages(p, r.rows, r.order, "append")
    <3>1. page' = WithMore(q, r.more)
      BY <1>7, <2>4 DEF ShowJump, r
    <3>2. target \in Pages
      BY <1>0, <1>2 DEF Pages
    <3>3. p \in Pages /\ Emptied(p)
      <4> HIDE DEF target
      <4> QED
        BY <3>2, PageFunctions
    <3> HIDE DEF p
    <3>4. q \in Pages
      BY <1>2, <3>3, AppendMessagesIs DEF Merged
    <3>5. WithMore(q, r.more) \in Pages /\ SameTimeline(q, WithMore(q, r.more))
      <4> HIDE DEF q
      <4> QED
        BY <1>2, <3>4, WithMoreIs
    <3>6. TimelineStep
      BY <1>2, <3>1, <3>3, <3>5 DEF TimelineStep, SameTimeline
    <3> QED
      BY <1>3, <2>1, <2>2, <3>1, <3>5, <3>6 DEF GoodStep
  <2> QED
    BY <2>3, <2>4
<1>8. CASE Answer(s) /\ ShowPoll(s)
  <2> DEFINE q == AppendMessages(page, r.rows, "asc", "prepend")
  <2>1. /\ page' = q /\ Done(s) /\ Base
    BY <1>0, <1>8 DEF Answer, ShowPoll, r
  <2>2. q \in Pages
    BY <1>0, <1>2, AppendMessagesIs DEF Merged, Orders
  <2>3. TimelineStep
    BY <1>0, <1>2, <2>1, <2>2 DEF TimelineStep, SameTimeline, Orders
  <2> HIDE DEF q
  <2> QED
    BY <1>3, <2>1, <2>2, <2>3 DEF GoodStep
<1>9. CASE Answer(s) /\ ShowPost(s)
  <2>1. session' = session /\ errors' = errors
    BY <1>9 DEF Answer, ShowPost
  <2>2. CASE page.channel = NULL
    <3>1. Done(s) /\ Returned("send") /\ page' = page
      BY <1>9, <2>2 DEF ShowPost
    <3> QED
      BY <1>0, <1>3, <1>4, <2>1, <3>1 DEF GoodStep, TimelineStep, SameTimeline
  <2>3. CASE page.channel # NULL
    <3>1. /\ page' = Latest(page) /\ waiting' = waiting /\ polling' = polling
          /\ requests' = [requests EXCEPT ![s] = LatestRequest(page, "send")]
      BY <1>9, <2>3 DEF ShowPost
    <3>2. NothingPosted
      BY <1>0, <1>5, <2>3, <3>1
    <3> QED
      BY <1>0, <2>1, <3>1, <3>2, PageFunctions DEF GoodStep, TimelineStep
  <2> QED
    BY <2>2, <2>3
<1>10. CASE Answer(s) /\ ShowChannels(s)
  <2>1. session' = session /\ errors' = errors
    BY <1>10 DEF Answer, ShowChannels
  <2>2. CASE /\ page' = ResetHistory([page EXCEPT !.channel = NULL])
             /\ Done(s) /\ Returned(r.then)
    <3> DEFINE p == [page EXCEPT !.channel = NULL]
    <3>1. p \in Pages
      BY <1>0 DEF Pages
    <3>2. page' = ResetHistory(p)
      BY <2>2
    <3> HIDE DEF p
    <3> QED
      BY <1>0, <1>2, <1>3, <1>4, <2>1, <2>2, <3>1, <3>2, PageFunctions
         DEF GoodStep, TimelineStep
  <2>3. ASSUME NEW c \in Channels, page' = Selected(page, c),
               requests' = [requests EXCEPT ![s] = LatestRequest(page', r.then)],
               UNCHANGED <<waiting, polling>>
        PROVE  GoodStep
    <3>1. page' \in Pages /\ Emptied(page') /\ page'.channel = c
      BY <1>0, <2>3, SelectedIs
    <3>2. NothingPosted
      BY <1>2, <1>5, <2>3, <3>1, NullIsNoChannel
    <3> QED
      BY <1>0, <2>1, <2>3, <3>1, <3>2 DEF GoodStep, TimelineStep
  <2> QED
    BY <1>10, <2>2, <2>3 DEF ShowChannels, r
<1>11. CASE Fail(s)
  <2>1. /\ page' = ClearedPage \/ page' = page
        /\ session' \in BOOLEAN /\ polling' \in BOOLEAN
        /\ errors < MaxErrors /\ errors' = errors + 1 /\ Done(s) /\ Recovered(r)
    BY <1>0, <1>11 DEF Fail, r
  <2>2. Base
    BY <1>0, <2>1 DEF Recovered
  <2> QED
    BY <1>0, <1>3, <2>1, <2>2, PageFunctions DEF GoodStep, TimelineStep, SameTimeline
<1>12. CASE Unauthorized(s)
  <2>1. /\ page' = ClearedPage /\ session' \in BOOLEAN /\ polling' \in BOOLEAN
        /\ errors' = errors \/ (errors < MaxErrors /\ errors' = errors + 1)
        /\ Done(s) /\ Recovered(r)
    <3>1. /\ page' = ClearedPage /\ session' = FALSE /\ polling' = (r.then = "login")
          /\ errors' = errors \/ (errors < MaxErrors /\ errors' = errors + 1)
          /\ Done(s) /\ Recovered(r)
      BY <1>12 DEF Unauthorized, r
    <3> QED
      BY <3>1
  <2>2. Base
    BY <1>0, <2>1 DEF Recovered
  <2> QED
    BY <1>0, <1>3, <2>1, <2>2, PageFunctions DEF GoodStep, TimelineStep
<1> QED
  BY <1>6, <1>7, <1>8, <1>9, <1>10, <1>11, <1>12 DEF Answer

\* Only channels get a button: those of a directory page and the selected one.
LEMMA DirectoryTyped ==
  ASSUME Typed, [Next]_vars
  PROVE  directory' \subseteq Channels
<1>0. directory \subseteq Channels /\ page.channel \in Channels \cup {NULL}
  BY DEF Typed, TypeOK, Pages
<1>1. ListCurrent => directory' \subseteq Channels
  BY <1>0 DEF ListCurrent
<1>2. CASE Act
  <2>1. CASE FinishLogin \/ ReloadChannels \/ Disconnect \/ ChangeOrder \/ BackToLatest
    BY <1>0, <2>1 DEF FinishLogin, ReloadChannels, Disconnect, ChangeOrder, BackToLatest
  <2>2. CASE LoadOlder \/ Refresh \/ Post \/ \E id \in Ids : Jump(id)
    BY <1>0, <2>2 DEF LoadOlder, Refresh, Post, Jump
  <2>3. CASE \E c \in Channels : SelectChannel(c) \/ NewChannel(c)
    BY <1>0, <2>3 DEF SelectChannel, NewChannel
  <2> QED
    BY <1>2, <2>1, <2>2, <2>3 DEF Act
<1>3. CASE Poll \/ (\E c \in Channels : OtherPost(c)) \/ UNCHANGED vars
  BY <1>0, <1>3 DEF Poll, OtherPost, vars
<1>4. ASSUME NEW s \in Slots, Serve(s) \/ ServeMore(s) PROVE directory' \subseteq Channels
  BY <1>0, <1>4 DEF Serve, ServeMore
<1>5. ASSUME NEW s \in Slots, Answer(s) PROVE directory' \subseteq Channels
  <2>1. CASE ShowWindow(s) \/ ShowJump(s)
    BY <1>0, <2>1 DEF ShowWindow, ShowJump
  <2>2. CASE ShowPoll(s) \/ ShowPost(s)
    BY <1>0, <1>1, <2>2 DEF ShowPoll, ShowPost
  <2>3. CASE ShowChannels(s)
    BY <2>3 DEF ShowChannels
  <2> QED
    BY <1>5, <2>1, <2>2, <2>3 DEF Answer
<1>6. ASSUME NEW s \in Slots, Fail(s) \/ Unauthorized(s) PROVE directory' \subseteq Channels
  BY <1>0, <1>6 DEF Fail, Unauthorized
<1> QED
  BY <1>2, <1>3, <1>4, <1>5, <1>6 DEF Next

\* Every step keeps the types, and does to the timeline what TimelineStep says.
LEMMA TypedStep == Typed /\ [Next]_vars => Typed' /\ TimelineStep
<1> SUFFICES ASSUME Typed, [Next]_vars PROVE Typed' /\ TimelineStep
  OBVIOUS
<1>0. /\ page \in Pages /\ session \in BOOLEAN /\ polling \in BOOLEAN
      /\ waiting \subseteq {"send", "jump-go"} /\ errors \in 0..MaxErrors
  BY DEF Typed, TypeOK
<1>d. directory' \subseteq Channels
  BY DirectoryTyped
<1>1. CASE Poll
  <2> DEFINE r == Request("poll", page, page.lastId, NULL, "nothing")
  <2>1. page.lastId \in Nat /\ page.channel # NULL
    BY <1>0, <1>1 DEF Poll, Live, Pages
  <2>2. r \in Requests /\ r.kind = "poll" /\ r.channel = page.channel
    BY <1>0, <2>1, RequestIs DEF Kinds
  <2>3. Send(r) /\ UNCHANGED <<log, page, session, polling, waiting, errors>>
    BY <1>1 DEF Poll
  <2> HIDE DEF r
  <2>4. Sensible(r)
    BY <2>1, <2>2 DEF Sensible
  <2>5. NothingPosted
    BY <2>2, <2>3, <2>4, SendMoves DEF NothingPosted
  <2>6. GoodStep
    BY <1>0, <2>3, <2>5 DEF GoodStep, TimelineStep, SameTimeline
  <2> QED
    BY <1>d, <2>6, RequestsTyped DEF GoodStep, Typed, TypeOK, Sensible
<1>2. CASE \E c \in Channels : OtherPost(c)
  <2>1. GoodStep
    BY <1>0, <1>2 DEF OtherPost, GoodStep, TimelineStep, SameTimeline, OtherStored
  <2> QED
    BY <1>d, <2>1, RequestsTyped DEF GoodStep, Typed, TypeOK, Sensible
<1>3. CASE UNCHANGED vars
  <2>1. GoodStep
    BY <1>0, <1>3 DEF vars, GoodStep, TimelineStep, SameTimeline, NothingPosted
  <2> QED
    BY <1>d, <2>1, RequestsTyped DEF GoodStep, Typed, TypeOK, Sensible
<1>4. CASE Act \/ \E s \in Slots : Serve(s) \/ ServeMore(s) \/ Answer(s) \/ Fail(s) \/ Unauthorized(s)
  <2>1. GoodStep
    BY <1>4, ActSteps, ServerSteps, AnswerSteps
  <2> QED
    BY <1>d, <2>1, RequestsTyped DEF GoodStep, Typed, TypeOK, Sensible
<1> QED
  BY <1>1, <1>2, <1>3, <1>4 DEF Next

\* The page, the log and the requests under way keep their types, and there is room
\* for every post that was sent.
THEOREM BrowserTyped == Spec => []Typed
<1>1. Init => Typed
  <2> SUFFICES ASSUME Init PROVE Typed
    OBVIOUS
  <2>1. PostsSent = {}
    BY DEF Init, PostsSent
  <2>2. Cardinality(PostsSent) = 0
    BY <2>1, FS_EmptySet
  <2>3. page \in Pages
    <3>1. <<>> \in Seq(Ids)
      OBVIOUS
    <3> QED
      BY <3>1 DEF Init, ClearedPage, Pages, Orders
  <2>4. log \in Seq(Channels) /\ Len(log) = 0 /\ MaxLog \in Nat /\ errors \in 0..MaxErrors
    BY BrowserConstants DEF Init
  <2>5. \A s \in Slots : requests[s] = NULL
    BY DEF Init
  <2>6. requests \in [Slots -> Requests \cup {NULL}]
    BY DEF Init
  <2>7. /\ session \in BOOLEAN /\ polling \in BOOLEAN /\ waiting \subseteq {"send", "jump-go"}
        /\ directory \subseteq Channels
    BY DEF Init
  <2>8. \A s \in Slots : Sensible(requests[s])
    BY <2>5 DEF Sensible
  <2> QED
    BY <2>2, <2>3, <2>4, <2>5, <2>6, <2>7, <2>8 DEF Typed, TypeOK
<1> QED
  BY <1>1, TypedStep, PTL DEF Spec

--------------------------------------------------------------------------------
(* The cursors *)

\* In whatever order answers arrive, and whoever reset the timeline meanwhile, no
\* message is on it twice, and lastId and oldestId are its newest and its oldest
\* message (appendMessage, resetHistory in app.js).
THEOREM CursorsAreExact == Spec => []CursorsMatchTimeline
<1>1. Init => CursorsMatchTimeline
  <2> SUFFICES ASSUME Init PROVE CursorsMatchTimeline
    OBVIOUS
  <2>1. Emptied(page)
    BY DEF Init, ClearedPage, Emptied
  <2> QED
    BY <2>1, EmptiedCursors DEF CursorsMatchTimeline, CursorsOf
<1>2. ASSUME NEW p, NEW q, SameTimeline(p, q), CursorsOf(p) PROVE CursorsOf(q)
  BY <1>2 DEF SameTimeline, CursorsOf, Shown
<1>3. Typed /\ CursorsMatchTimeline /\ TimelineStep => CursorsMatchTimeline'
  <2> SUFFICES ASSUME Typed, CursorsOf(page), TimelineStep PROVE CursorsOf(page')
    BY DEF CursorsMatchTimeline, CursorsOf, Shown
  <2>1. CASE SameTimeline(page, page')
    BY <1>2, <2>1
  <2>2. CASE Emptied(page')
    BY <2>2, EmptiedCursors
  <2>3. ASSUME NEW p \in Pages, NEW rows \in SUBSET Ids, NEW order \in Orders, NEW placement,
               SameTimeline(page, p) \/ Emptied(p),
               SameTimeline(AppendMessages(p, rows, order, placement), page')
        PROVE  CursorsOf(page')
    <3>1. CursorsOf(p)
      BY <1>2, <2>3, EmptiedCursors
    <3>2. CursorsOf(AppendMessages(p, rows, order, placement))
      BY <3>1, AppendKeepsCursors
    <3> QED
      BY <1>2, <2>3, <3>2
  <2> QED
    BY <2>1, <2>2, <2>3 DEF TimelineStep
<1> QED
  BY <1>1, <1>3, TypedStep, BrowserTyped, PTL DEF Spec

--------------------------------------------------------------------------------
(* Requests that do not overlap.  ids are the messages of the selected channel. *)

Reads == {"latest", "older", "jump", "poll"}

\* None between two of S is missing.
Gapless(S, ids) == \A k, l \in S, id \in ids : k <= id /\ id <= l => id \in S

\* None is missing between the cursor of r and a row beyond it.
RowsFollow(r, order, ids) ==
  \A k \in r.rows :
    /\ Precedes(order, r.cursor, k)
    /\ \A id \in ids : Precedes(order, r.cursor, id) /\ ~Precedes(order, k, id) => id \in r.rows

\* An answer without more, newest first, leaves no older message.
NothingOlder(r, ids) ==
  \A id \in ids :
    \/ \E k \in r.rows : k <= id
    \/ r.rows = {} /\ (r.kind = "older" => r.cursor <= id)

\* The rows are what a read of the channel gives.
RowsRight(r, ids) ==
  /\ r.rows \subseteq ids /\ Gapless(r.rows, ids)
  /\ r.stage = "paged" => r.rows # {}
  /\ r.kind = "older" => RowsFollow(r, r.order, ids)
  /\ r.kind = "poll" => RowsFollow(r, "asc", ids)
  /\ r.kind # "poll" /\ r.order = "desc" /\ r.stage = "answered" /\ ~r.more => NothingOlder(r, ids)

\* What the page p shows goes with what the answer to r will bring.
Follows(r, p, ids) ==
  /\ r.kind \in Reads => r.channel = p.channel /\ r.order = p.order
  /\ r.kind = "latest" => p.timeline = <<>>
  /\ r.kind = "older" => r.cursor = IF p.order = "desc" THEN p.oldestId ELSE p.lastId
  /\ r.kind = "poll" => p.order = "desc" /\ r.cursor = p.lastId
  /\ r.kind \in Reads /\ r.stage # "sent" => RowsRight(r, ids)

Listed(list, order) == \A i, j \in DOMAIN list : i < j => Precedes(order, list[i], list[j])

\* What TimelineExact says, of any page and by what it shows.
Exact(p, ids) ==
  /\ p.timeline # <<>> => p.channel # NULL
  /\ Shown(p) \subseteq ids
  /\ Listed(p.timeline, p.order)
  /\ Gapless(Shown(p), ids)
  /\ p.timeline # <<>> /\ p.order = "desc" /\ ~p.hasOlder =>
       \A id \in ids : \E k \in Shown(p) : k <= id

\* One request is under way at a time, the page that sent it is still there, and the
\* page is exact.
OneView ==
  /\ \A s, t \in Slots : requests[s] # NULL /\ requests[t] # NULL => s = t
  /\ ~session => Idle /\ page.timeline = <<>>
  /\ \A s \in Slots :
       requests[s] # NULL => Follows(requests[s], page, ChannelIds(page.channel))
  /\ Exact(page, ChannelIds(page.channel))

\* ids after one more message was stored, which may be of another channel.
Grown(n, ids, grown) ==
  /\ n \in Nat /\ ids \in SUBSET (1..n) /\ ids \subseteq grown
  /\ \A id \in grown : id \in ids \/ id = n + 1

\* A page without messages is exact.
LEMMA EmptyExact ==
  ASSUME NEW p, p.timeline = <<>>, NEW ids
  PROVE  Exact(p, ids)
<1>1. Shown(p) = {}
  BY DEF Shown, ToSet
<1> QED
  BY <1>1 DEF Exact, Listed, Gapless

\* A set without a gap has none after a later message was stored.
LEMMA GaplessGrows ==
  ASSUME NEW n, NEW ids, NEW grown, Grown(n, ids, grown), NEW S \in SUBSET ids, Gapless(S, ids)
  PROVE  Gapless(S, grown)
<1> SUFFICES ASSUME NEW k \in S, NEW l \in S, NEW id \in grown, k <= id, id <= l
             PROVE  id \in S
  BY DEF Gapless
<1>1. n \in Nat /\ l \in 1..n
  BY DEF Grown
<1>2. id # n + 1
  BY <1>1
<1> QED
  BY <1>2 DEF Grown, Gapless

\* An exact page stays exact when a message is stored: the message is newer than all
\* that is shown.
LEMMA ExactGrows ==
  ASSUME NEW n, NEW ids, NEW grown, Grown(n, ids, grown), NEW p, Exact(p, ids),
         p.timeline # <<>> => Shown(p) # {}
  PROVE  Exact(p, grown)
<1>1. Shown(p) \in SUBSET ids /\ Gapless(Shown(p), ids)
  BY DEF Exact
<1>2. Gapless(Shown(p), grown)
  BY <1>1, GaplessGrows
<1>3. ASSUME p.timeline # <<>>, p.order = "desc", ~p.hasOlder, NEW id \in grown
      PROVE  \E k \in Shown(p) : k <= id
  <2>1. CASE id \in ids
    BY <1>3, <2>1 DEF Exact
  <2>2. CASE id = n + 1
    <3>1. PICK k \in Shown(p) : TRUE
      BY <1>3
    <3>2. k \in 1..n /\ n \in Nat
      BY <1>1 DEF Grown
    <3> QED
      BY <2>2, <3>2
  <2> QED
    BY <2>1, <2>2 DEF Grown
<1> QED
  BY <1>1, <1>2, <1>3 DEF Exact, Grown

\* An answer that was right stays right when a message is stored.
LEMMA RowsGrow ==
  ASSUME NEW n, NEW ids, NEW grown, Grown(n, ids, grown), NEW r, RowsRight(r, ids),
         r.kind \in {"older", "poll"} => r.cursor \in 0..n
  PROVE  RowsRight(r, grown)
<1>0. n \in Nat /\ n + 1 \in Nat /\ r.rows \in SUBSET ids /\ ids \in SUBSET (1..n)
  BY DEF RowsRight, Grown
<1>1. r.rows \subseteq grown /\ Gapless(r.rows, grown)
  BY <1>0, GaplessGrows DEF RowsRight, Grown
<1>2. ASSUME NEW order, r.cursor \in 0..n, RowsFollow(r, order, ids)
      PROVE  RowsFollow(r, order, grown)
  <2> SUFFICES ASSUME NEW k \in r.rows, NEW id \in grown, Precedes(order, r.cursor, id),
                      ~Precedes(order, k, id)
               PROVE  id \in r.rows
    BY <1>2 DEF RowsFollow
  <2>0. k \in 1..n
    BY <1>0
  <2>1. id # n + 1
    BY <1>0, <1>2, <2>0 DEF Precedes
  <2> QED
    BY <1>2, <2>1 DEF Grown, RowsFollow
<1>3. ASSUME r.kind # "poll", NothingOlder(r, ids) PROVE NothingOlder(r, grown)
  <2> SUFFICES ASSUME NEW id \in grown
               PROVE  \/ \E k \in r.rows : k <= id
                      \/ r.rows = {} /\ (r.kind = "older" => r.cursor <= id)
    BY DEF NothingOlder
  <2>1. CASE id \in ids
    BY <1>3, <2>1 DEF NothingOlder
  <2>2. CASE id = n + 1
    <3>1. \A k \in r.rows : k <= id
      <4> SUFFICES ASSUME NEW k \in r.rows PROVE k <= id
        OBVIOUS
      <4>1. k \in 1..n
        BY <1>0
      <4> QED
        BY <1>0, <2>2, <4>1
    <3>2. r.kind = "older" => r.cursor <= id
      BY <1>0, <2>2
    <3> QED
      BY <3>1, <3>2
  <2> QED
    BY <2>1, <2>2 DEF Grown
<1>4. r.kind = "older" => RowsFollow(r, r.order, grown)
  BY <1>2 DEF RowsRight
<1>5. r.kind = "poll" => RowsFollow(r, "asc", grown)
  BY <1>2 DEF RowsRight
<1> QED
  BY <1>1, <1>3, <1>4, <1>5 DEF RowsRight

\* A request still fits its page then.
LEMMA FollowsGrows ==
  ASSUME NEW n, NEW ids, NEW grown, Grown(n, ids, grown), NEW r, NEW p \in Pages, CursorsOf(p),
         Shown(p) \subseteq ids, Follows(r, p, ids)
  PROVE  Follows(r, p, grown)
<1>1. p.lastId \in 0..n /\ p.oldestId \in 0..n
  <2>1. n \in Nat /\ Shown(p) \subseteq 1..n
    BY DEF Grown
  <2>2. CASE p.timeline = <<>>
    BY <2>1, <2>2, CursorsAreExtremes
  <2>3. CASE p.timeline # <<>>
    <3>1. p.lastId \in Shown(p) /\ p.oldestId \in Shown(p)
      BY <2>3, CursorsAreExtremes
    <3> QED
      BY <2>1, <3>1
  <2> QED
    BY <2>2, <2>3
<1>2. r.kind \in {"older", "poll"} => r.cursor \in 0..n
  BY <1>1 DEF Follows
<1>3. RowsRight(r, ids) => RowsRight(r, grown)
  BY <1>2, RowsGrow
<1> QED
  BY <1>3 DEF Follows

\* The rows have no gap, and none to the cursor they were read from.
Prefix(rows, ids, order, cursor) ==
  /\ rows \subseteq ids /\ Gapless(rows, ids)
  /\ cursor # NULL => \A k \in rows : Precedes(order, cursor, k)
  /\ \A k \in rows, id \in ids :
       /\ cursor # NULL => Precedes(order, cursor, id)
       /\ ~Precedes(order, k, id)
       => id \in rows
  /\ rows = {} => \A id \in ids : cursor # NULL /\ ~Precedes(order, cursor, id)

\* A page of a channel is such.
LEMMA RowsOfPage ==
  ASSUME NEW n \in Nat, NEW ids \in SUBSET (1..n), NEW order \in Orders,
         NEW cursor \in Nat \cup {NULL}, NEW limit \in Nat \ {0}
  PROVE  Prefix(Page(ids, order, cursor, limit), ids, order, cursor)
<1> DEFINE rows == Page(ids, order, cursor, limit)
           rest == Beyond(ids, order, cursor)
<1>1. Walkable(ids, order)
  BY DEF Walkable
<1>2. /\ rows = {} => rest = {}
      /\ \A k \in rows, j \in rest : Precedes(order, j, k) => j \in rows
  BY <1>1, PageIsPrefix
<1>3. rest = {k \in ids : cursor = NULL \/ Precedes(order, cursor, k)} /\ rows \in SUBSET rest
  BY DEF Beyond, Page
<1> HIDE DEF rows, rest
<1>4. \A id \in ids : id \in Nat
  OBVIOUS
<1>5. \A k \in rows : k \in ids /\ k \in Nat /\ (cursor # NULL => Precedes(order, cursor, k))
  BY <1>3, <1>4
<1>6. ASSUME NEW k \in rows, NEW id \in ids, cursor # NULL => Precedes(order, cursor, id),
             ~Precedes(order, k, id)
      PROVE  id \in rows
  <2>1. id \in rest
    BY <1>3, <1>6
  <2>2. id = k \/ Precedes(order, id, k)
    BY <1>4, <1>5, <1>6 DEF Precedes
  <2> QED
    BY <1>2, <2>1, <2>2
<1>7. ASSUME NEW k \in rows, NEW l \in rows, NEW id \in ids, k <= id, id <= l
      PROVE  id \in rows
  <2>1. id \in Nat /\ k \in Nat /\ l \in Nat
    BY <1>4, <1>5
  <2>2. cursor # NULL => Precedes(order, cursor, id)
    BY <1>5, <1>7, <2>1 DEF Precedes
  <2>3. ~Precedes(order, k, id) \/ ~Precedes(order, l, id)
    BY <1>7, <2>1 DEF Precedes
  <2> QED
    BY <1>6, <2>2, <2>3
<1>8. rows = {} => \A id \in ids : cursor # NULL /\ ~Precedes(order, cursor, id)
  BY <1>2, <1>3
<1> QED
  BY <1>5, <1>6, <1>7, <1>8 DEF Gapless, Prefix, rows

\* message_window: the rows of the first statement are right.
LEMMA WindowRight ==
  ASSUME NEW n \in Nat, NEW ids \in SUBSET (1..n), NEW r \in Requests,
         r.kind \in {"latest", "older", "jump"}, r.kind = "older" => r.cursor # NULL,
         NEW q, q.kind = r.kind, q.cursor = r.cursor, q.order = r.order,
         q.rows = Page(ids, r.order, r.cursor, PageSize),
         q.stage = IF q.rows = {} THEN "answered" ELSE "paged"
  PROVE  RowsRight(q, ids)
<1>0. r.order \in Orders /\ r.cursor \in Nat \cup {NULL} /\ PageSize \in Nat \ {0}
  BY BrowserConstants DEF Requests
<1>1. Prefix(q.rows, ids, r.order, r.cursor)
  BY <1>0, RowsOfPage
<1>2. q.kind = "older" => RowsFollow(q, q.order, ids)
  BY <1>1 DEF RowsFollow, Prefix
<1>3. ASSUME q.order = "desc", q.rows = {} PROVE NothingOlder(q, ids)
  <2>1. ASSUME NEW id \in ids, q.kind = "older" PROVE q.cursor <= id
    <3>1. r.cursor \in Nat /\ id \in Nat
      BY <1>0, <2>1
    <3>2. ~(r.cursor > id)
      BY <1>1, <1>3 DEF Precedes, Prefix
    <3> QED
      BY <3>1, <3>2
  <2> QED
    BY <1>3, <2>1 DEF NothingOlder
<1> QED
  BY <1>1, <1>2, <1>3 DEF RowsRight, Prefix

\* messages with an after cursor, as poll asks: the rows are right.
LEMMA PolledRight ==
  ASSUME NEW n \in Nat, NEW ids \in SUBSET (1..n), NEW r \in Requests,
         r.kind = "poll", r.cursor # NULL,
         NEW q, q.kind = r.kind, q.cursor = r.cursor,
         q.rows = Page(ids, "asc", r.cursor, PollLimit), q.stage = "answered"
  PROVE  RowsRight(q, ids)
<1>0. "asc" \in Orders /\ r.cursor \in Nat \cup {NULL} /\ PollLimit \in Nat \ {0}
  BY BrowserConstants DEF Requests, Orders
<1>1. Prefix(q.rows, ids, "asc", r.cursor)
  BY <1>0, RowsOfPage
<1>2. RowsFollow(q, "asc", ids)
  BY <1>1 DEF RowsFollow, Prefix
<1> QED
  BY <1>1, <1>2 DEF RowsRight, Prefix

\* message_window: has_more, read later than the rows, still tells whether there are
\* older messages.
LEMMA MoreRight ==
  ASSUME NEW n \in Nat, NEW ids \in SUBSET (1..n), NEW r, RowsRight(r, ids), r.stage = "paged",
         NEW q, q.kind = r.kind, q.cursor = r.cursor, q.order = r.order, q.rows = r.rows,
         q.stage = "answered", q.more = HasMore(ids, r.order, r.rows)
  PROVE  RowsRight(q, ids)
<1>0. r.rows \in SUBSET ids /\ r.rows # {}
  BY DEF RowsRight
<1>1. ASSUME q.order = "desc", ~q.more PROVE NothingOlder(q, ids)
  <2>0. r.rows \subseteq Nat
    BY <1>0
  <2>1. PICK x \in r.rows : \A y \in r.rows : x <= y
    BY <1>0, <2>0, LeastExists
  <2>2. \A j \in r.rows \ {x} : Precedes("desc", j, x)
    <3> SUFFICES ASSUME NEW j \in r.rows \ {x} PROVE j > x
      BY DEF Precedes
    <3>1. j \in Nat /\ x \in Nat /\ x <= j
      BY <2>0, <2>1
    <3> QED
      BY <3>1
  <2>3. LastOf(r.rows, "desc") \in r.rows
    BY <2>2, LastOfIs DEF HasLast
  <2>4. ASSUME NEW id \in ids PROVE LastOf(r.rows, "desc") <= id
    <3>1. ~(LastOf(r.rows, "desc") > id)
      BY <1>0, <1>1 DEF HasMore, Precedes
    <3>2. LastOf(r.rows, "desc") \in Nat /\ id \in Nat
      BY <2>0, <2>3
    <3> QED
      BY <3>1, <3>2
  <2> QED
    BY <2>3, <2>4 DEF NothingOlder
<1>2. r.kind = "older" => RowsFollow(q, q.order, ids)
  BY DEF RowsRight, RowsFollow
<1>3. r.kind = "poll" => RowsFollow(q, "asc", ids)
  BY DEF RowsRight, RowsFollow
<1> QED
  BY <1>1, <1>2, <1>3 DEF RowsRight

--------------------------------------------------------------------------------
(* An exact page and an answer that fits it make an exact page *)

\* Two lists in order, one after the other.
LEMMA JoinedListed ==
  ASSUME NEW S, NEW s \in Seq(S), NEW t \in Seq(S), NEW order, Listed(s, order), Listed(t, order),
         \A x \in ToSet(s), y \in ToSet(t) : Precedes(order, x, y)
  PROVE  Listed(s \o t, order)
<1>1. /\ DOMAIN s = 1..Len(s) /\ DOMAIN t = 1..Len(t) /\ Len(s) \in Nat /\ Len(t) \in Nat
      /\ DOMAIN (s \o t) = 1..(Len(s) + Len(t))
  BY Joined
<1>2. /\ \A i \in 1..Len(s) : (s \o t)[i] = s[i] /\ s[i] \in ToSet(s)
      /\ \A i \in 1..Len(t) : t[i] \in ToSet(t)
      /\ \A i \in (Len(s) + 1)..(Len(s) + Len(t)) :
           i - Len(s) \in 1..Len(t) /\ (s \o t)[i] = t[i - Len(s)]
  <2>1. \A i \in 1..Len(s) : (s \o t)[i] = s[i]
    BY Joined
  <2>2. \A i \in (Len(s) + 1)..(Len(s) + Len(t)) :
          i - Len(s) \in 1..Len(t) /\ (s \o t)[i] = t[i - Len(s)]
    BY Joined
  <2>3. \A i \in 1..Len(s) : s[i] \in ToSet(s)
    BY <1>1 DEF ToSet
  <2>4. \A i \in 1..Len(t) : t[i] \in ToSet(t)
    BY <1>1 DEF ToSet
  <2> QED
    BY <2>1, <2>2, <2>3, <2>4
<1> SUFFICES ASSUME NEW i \in 1..(Len(s) + Len(t)), NEW j \in 1..(Len(s) + Len(t)), i < j
             PROVE  Precedes(order, (s \o t)[i], (s \o t)[j])
  BY <1>1 DEF Listed
<1>3. CASE i \in 1..Len(s) /\ j \in 1..Len(s)
  BY <1>1, <1>2, <1>3 DEF Listed
<1>4. CASE /\ i \in (Len(s) + 1)..(Len(s) + Len(t))
           /\ j \in (Len(s) + 1)..(Len(s) + Len(t))
  <2>1. i - Len(s) < j - Len(s)
    BY <1>1
  <2> QED
    BY <1>1, <1>2, <1>4, <2>1 DEF Listed
<1>5. CASE i \in 1..Len(s) /\ j \in (Len(s) + 1)..(Len(s) + Len(t))
  BY <1>2, <1>5
<1> QED
  BY <1>1, <1>3, <1>4, <1>5

\* The new rows are put on the timeline in the page's order: as an answer lists them
\* at the bottom, turned round on top of a newest-first page.
LEMMA AddedListed ==
  ASSUME NEW rows \in SUBSET Ids
  PROVE  /\ \A order \in Orders : Listed(InOrder(rows, order), order)
         /\ Listed(Reverse(InOrder(rows, "asc")), "desc")
<1>1. \A order \in Orders : Listed(InOrder(rows, order), order)
  BY InOrderSorted DEF Listed
<1>2. Listed(Reverse(InOrder(rows, "asc")), "desc")
  <2> DEFINE list == InOrder(rows, "asc")
  <2>1. /\ list \in Seq(rows) /\ Listed(list, "asc") /\ DOMAIN list = 1..Len(list)
        /\ Len(list) \in Nat
    BY InOrderSorted DEF Listed, Orders
  <2> HIDE DEF list
  <2>2. DOMAIN Reverse(list) = 1..Len(list)
    BY <2>1, Reversed
  <2> SUFFICES ASSUME NEW i \in 1..Len(list), NEW j \in 1..Len(list), i < j
               PROVE  Precedes("desc", Reverse(list)[i], Reverse(list)[j])
    BY <2>2 DEF Listed, list
  <2> DEFINE k == (Len(list) - i) + 1
             l == (Len(list) - j) + 1
  <2>3. /\ k \in 1..Len(list) /\ l \in 1..Len(list)
        /\ Reverse(list)[i] = list[k] /\ Reverse(list)[j] = list[l]
    BY <2>1, Reversed
  <2>4. l < k
    BY <2>1
  <2> HIDE DEF k, l
  <2>5. Precedes("asc", list[l], list[k])
    BY <2>1, <2>3, <2>4 DEF Listed
  <2>6. list[l] \in Ids /\ list[k] \in Ids
    BY <2>1, <2>3
  <2>7. list[l] \in Nat /\ list[k] \in Nat
    BY <2>6, BrowserConstants DEF Ids
  <2> QED
    BY <2>3, <2>5, <2>7 DEF Precedes
<1> QED
  BY <1>1, <1>2

\* Nothing is missing between what is shown and the rows, on either side.
Bridged(S, rows, ids) ==
  \A k \in S, l \in rows, id \in ids :
    \/ k <= id /\ id <= l
    \/ l <= id /\ id <= k
    => id \in S \cup rows

\* Rows that go to the bottom come after what is shown, rows that go on top before it.
Fits(p, rows, order, placement) ==
  \/ /\ placement = "append" /\ order = p.order
     /\ \A id \in Shown(p), k \in rows : Precedes(p.order, id, k)
  \/ /\ placement = "prepend" /\ order = "asc" /\ p.order = "desc"
     /\ \A id \in Shown(p), k \in rows : Precedes("desc", k, id)

\* appendMessage for every row keeps the order of the timeline and leaves no gap.
LEMMA MergeExact ==
  ASSUME NEW ids, NEW p \in Pages, CursorsOf(p), Exact(p, ids), p.channel # NULL,
         NEW rows \in SUBSET Ids, NEW order \in Orders, NEW placement,
         rows \subseteq ids, Gapless(rows, ids), Bridged(Shown(p), rows, ids),
         Fits(p, rows, order, placement)
  PROVE  LET q == AppendMessages(p, rows, order, placement)
         IN /\ q \in Pages /\ SameView(p, q)
            /\ Shown(q) = Shown(p) \cup rows /\ Shown(q) \subseteq ids
            /\ Listed(q.timeline, q.order) /\ Gapless(Shown(q), ids)
<1> DEFINE q == AppendMessages(p, rows, order, placement)
           news == rows \ Shown(p)
           added == Added(p, rows, order, placement)
<1>1. Merged(p, q, news, added, placement)
  BY AppendMessagesIs
<1>2. Shown(q) = Shown(p) \cup rows
  BY AppendKeepsCursors
<1>3. Shown(p) \in SUBSET Ids
  BY CursorsAreExtremes
<1>4. news = rows
  <2> SUFFICES ASSUME NEW k \in rows, k \in Shown(p) PROVE FALSE
    OBVIOUS
  <2>1. k \in Nat
    BY BrowserConstants DEF Ids
  <2>2. ~Precedes("desc", k, k) /\ ~Precedes(p.order, k, k)
    BY <2>1 DEF Precedes
  <2> QED
    BY <2>2 DEF Fits
<1>5. Listed(added, p.order)
  BY <1>4, AddedListed DEF Added, Fits
<1> HIDE DEF q, added, news
<1>6. q \in Pages /\ SameView(p, q) /\ q.order = p.order
  BY <1>1 DEF Merged, SameView
<1>7. Listed(q.timeline, p.order)
  <2>1. CASE rows = {}
    <3>1. q = p
      BY <1>1, <1>4, <2>1 DEF Merged
    <3> QED
      BY <3>1 DEF Exact
  <2>2. CASE rows # {}
    <3>1. /\ added \in Seq(Ids) /\ ToSet(added) = rows
          /\ q.timeline = IF placement = "prepend" THEN added \o p.timeline
                          ELSE p.timeline \o added
      BY <1>1, <1>4, <2>2 DEF Merged
    <3>2. p.timeline \in Seq(Ids) /\ ToSet(p.timeline) = Shown(p) /\ Listed(p.timeline, p.order)
      BY DEF Pages, Shown, Exact
    <3>3. CASE placement = "append"
      <4>1. Listed(p.timeline \o added, p.order)
        BY <1>5, <3>1, <3>2, <3>3, JoinedListed DEF Fits
      <4> QED
        BY <3>1, <3>3, <4>1
    <3>4. CASE placement = "prepend" /\ p.order = "desc"
      <4>1. Listed(added \o p.timeline, p.order)
        BY <1>5, <3>1, <3>2, <3>4, JoinedListed DEF Fits
      <4> QED
        BY <3>1, <3>4, <4>1
    <3> QED
      BY <3>3, <3>4 DEF Fits
  <2> QED
    BY <2>1, <2>2
<1>8. Gapless(Shown(p) \cup rows, ids)
  <2>1. Gapless(Shown(p), ids)
    BY DEF Exact
  <2> QED
    BY <2>1 DEF Gapless, Bridged
<1>9. Shown(p) \subseteq ids
  BY DEF Exact
<1> QED
  BY <1>2, <1>6, <1>7, <1>8, <1>9 DEF q

\* The rows beyond the end of the timeline that the cursor names fit the page.
LEMMA BeyondFits ==
  ASSUME NEW ids \in SUBSET Nat, NEW p \in Pages, CursorsOf(p), Exact(p, ids), p.timeline # <<>>,
         NEW r, r.rows \subseteq ids, NEW order \in Orders, RowsFollow(r, order, ids),
         r.cursor = IF order = "desc" THEN p.oldestId ELSE p.lastId
  PROVE  /\ \A id \in Shown(p), k \in r.rows : Precedes(order, id, k)
         /\ Bridged(Shown(p), r.rows, ids)
<1>1. /\ Shown(p) \subseteq ids /\ Gapless(Shown(p), ids)
      /\ p.lastId \in Shown(p) /\ \A id \in Shown(p) : id <= p.lastId
      /\ p.oldestId \in Shown(p) /\ \A id \in Shown(p) : p.oldestId <= id
  BY CursorsAreExtremes DEF Exact
<1>2. r.cursor \in Nat /\ r.cursor \in Shown(p)
  BY <1>1
<1>3. ASSUME NEW id \in Shown(p), NEW k \in r.rows PROVE Precedes(order, id, k)
  <2>1. id \in Nat /\ k \in Nat /\ Precedes(order, r.cursor, k)
    BY <1>1 DEF RowsFollow
  <2>2. IF order = "desc" THEN r.cursor <= id ELSE id <= r.cursor
    BY <1>1
  <2> QED
    BY <1>2, <2>1, <2>2 DEF Precedes
<1>4. ASSUME NEW k \in Shown(p), NEW l \in r.rows, NEW id \in ids,
             (k <= id /\ id <= l) \/ (l <= id /\ id <= k)
      PROVE  id \in Shown(p) \cup r.rows
  <2>1. k \in Nat /\ l \in Nat /\ id \in Nat
    BY <1>1
  <2>2. CASE Precedes(order, r.cursor, id)
    <3>1. Precedes(order, k, l)
      BY <1>3
    <3>2. ~Precedes(order, l, id)
      BY <1>4, <2>1, <3>1 DEF Precedes
    <3> QED
      BY <2>2, <3>2 DEF RowsFollow
  <2>3. CASE ~Precedes(order, r.cursor, id)
    <3>1. Precedes(order, k, l)
      BY <1>3
    <3>2. (k <= id /\ id <= r.cursor) \/ (r.cursor <= id /\ id <= k)
      BY <1>2, <1>4, <2>1, <2>3, <3>1 DEF Precedes
    <3> QED
      BY <1>1, <1>2, <3>2 DEF Gapless
  <2> QED
    BY <2>2, <2>3
<1> QED
  BY <1>3, <1>4 DEF Bridged

\* loadLatestHistory, loadOlderHistory and jumpToMessage show a window on a page that
\* is empty, or from the end where it stops.
LEMMA WindowShown ==
  ASSUME NEW ids \in SUBSET Ids, NEW p \in Pages, CursorsOf(p), Exact(p, ids), p.channel # NULL,
         NEW r \in Requests, r.kind \in {"latest", "older", "jump"}, r.stage = "answered",
         RowsRight(r, ids), r.order = p.order,
         IF r.kind = "older"
         THEN p.timeline # <<>> /\ r.cursor = IF p.order = "desc" THEN p.oldestId ELSE p.lastId
         ELSE p.timeline = <<>>
  PROVE  LET w == WithMore(AppendMessages(p, r.rows, r.order, "append"), r.more)
         IN Exact(w, ids) /\ w.channel = p.channel
<1> DEFINE q == AppendMessages(p, r.rows, r.order, "append")
           w == WithMore(q, r.more)
<1>0. /\ r.rows \in SUBSET Ids /\ r.order \in Orders /\ r.more \in BOOLEAN
      /\ r.rows \subseteq ids /\ Gapless(r.rows, ids)
  BY DEF Requests, RowsRight
<1>1. ids \in SUBSET Nat
  BY BrowserConstants DEF Ids
<1>2. Bridged(Shown(p), r.rows, ids) /\ Fits(p, r.rows, r.order, "append")
  <2>1. CASE r.kind = "older"
    <3>1. RowsFollow(r, r.order, ids)
      BY <2>1 DEF RowsRight
    <3> QED
      BY <1>0, <1>1, <2>1, <3>1, BeyondFits DEF Fits
  <2>2. CASE r.kind # "older"
    <3>1. Shown(p) = {}
      BY <2>2, CursorsAreExtremes
    <3> QED
      BY <3>1 DEF Bridged, Fits
  <2> QED
    BY <2>1, <2>2
<1>3. /\ q \in Pages /\ SameView(p, q)
      /\ Shown(q) = Shown(p) \cup r.rows /\ Shown(q) \subseteq ids
      /\ Listed(q.timeline, q.order) /\ Gapless(Shown(q), ids)
  BY <1>0, <1>2, MergeExact
<1>4. CursorsOf(q)
  BY <1>0, AppendKeepsCursors
<1> HIDE DEF q
<1>5. /\ w.timeline = q.timeline /\ w.channel = p.channel /\ w.order = p.order
      /\ w.hasOlder = r.more /\ q.order = p.order /\ Shown(w) = Shown(q)
  BY <1>0, <1>3, WithMoreIs DEF SameTimeline, SameView, Shown
<1> HIDE DEF w
<1>6. ASSUME w.timeline # <<>>, w.order = "desc", ~w.hasOlder, NEW id \in ids
      PROVE  \E k \in Shown(w) : k <= id
  <2>1. NothingOlder(r, ids)
    BY <1>5, <1>6 DEF RowsRight
  <2>2. CASE \E k \in r.rows : k <= id
    BY <1>3, <1>5, <2>2
  <2>3. CASE r.rows = {} /\ (r.kind = "older" => r.cursor <= id)
    <3>1. Shown(p) # {}
      BY <1>3, <1>4, <1>5, <1>6, <2>3, CursorsAreExtremes
    <3>2. p.timeline # <<>>
      BY <3>1, CursorsAreExtremes
    <3>3. r.cursor \in Shown(p) /\ r.cursor <= id
      BY <2>3, <3>2, CursorsAreExtremes
    <3> QED
      BY <1>3, <1>5, <3>3
  <2> QED
    BY <2>1, <2>2, <2>3 DEF NothingOlder
<1>7. Exact(w, ids)
  BY <1>3, <1>5, <1>6 DEF Exact
<1> QED
  BY <1>5, <1>7 DEF w, q

\* poll puts what is newer on top.
LEMMA PollShown ==
  ASSUME NEW ids \in SUBSET Ids, NEW p \in Pages, CursorsOf(p), Exact(p, ids), p.channel # NULL,
         p.order = "desc", NEW r \in Requests, r.kind = "poll", r.cursor = p.lastId,
         RowsRight(r, ids)
  PROVE  LET q == AppendMessages(p, r.rows, "asc", "prepend")
         IN Exact(q, ids) /\ q.channel = p.channel
<1> DEFINE q == AppendMessages(p, r.rows, "asc", "prepend")
<1>0. /\ r.rows \in SUBSET Ids /\ r.rows \subseteq ids /\ Gapless(r.rows, ids)
      /\ RowsFollow(r, "asc", ids) /\ "asc" \in Orders
  BY DEF Requests, RowsRight, Orders
<1>1. ids \in SUBSET Nat
  BY BrowserConstants DEF Ids
<1>2. Bridged(Shown(p), r.rows, ids) /\ Fits(p, r.rows, "asc", "prepend")
  <2>1. CASE p.timeline # <<>>
    <3>1. /\ \A id \in Shown(p), k \in r.rows : Precedes("asc", id, k)
          /\ Bridged(Shown(p), r.rows, ids)
      BY <1>0, <1>1, <2>1, BeyondFits
    <3>2. \A id \in Shown(p), k \in r.rows : Precedes("desc", k, id)
      <4> SUFFICES ASSUME NEW id \in Shown(p), NEW k \in r.rows PROVE k > id
        BY DEF Precedes
      <4>1. id \in Nat /\ k \in Nat /\ id < k
        BY <1>0, <1>1, <3>1 DEF Precedes, Exact
      <4> QED
        BY <4>1
    <3> QED
      BY <3>1, <3>2 DEF Fits
  <2>2. CASE p.timeline = <<>>
    <3>1. Shown(p) = {}
      BY <2>2, CursorsAreExtremes
    <3> QED
      BY <3>1 DEF Bridged, Fits
  <2> QED
    BY <2>1, <2>2
<1>3. /\ q \in Pages /\ SameView(p, q)
      /\ Shown(q) = Shown(p) \cup r.rows /\ Shown(q) \subseteq ids
      /\ Listed(q.timeline, q.order) /\ Gapless(Shown(q), ids)
  BY <1>0, <1>2, MergeExact
<1>4. CursorsOf(q)
  BY <1>0, AppendKeepsCursors
<1> HIDE DEF q
<1>5. q.channel = p.channel /\ q.order = p.order /\ q.hasOlder = p.hasOlder
  BY <1>3 DEF SameView
<1>6. ASSUME q.timeline # <<>>, ~q.hasOlder, NEW id \in ids
      PROVE  \E k \in Shown(q) : k <= id
  <2>1. CASE p.timeline # <<>>
    BY <1>3, <1>5, <1>6, <2>1 DEF Exact
  <2>2. CASE p.timeline = <<>>
    <3>1. r.cursor = 0 /\ Shown(p) = {}
      BY <2>2, CursorsAreExtremes
    <3>2. Shown(q) # {}
      BY <1>3, <1>4, <1>6, CursorsAreExtremes
    <3>3. PICK k \in r.rows : TRUE
      BY <1>3, <3>1, <3>2
    <3>4. k \in Nat /\ id \in Nat /\ id > 0
      BY <1>0, BrowserConstants DEF Ids
    <3>5. CASE k <= id
      BY <1>3, <3>5
    <3>6. CASE ~(k <= id)
      <4>1. Precedes("asc", r.cursor, id) /\ ~Precedes("asc", k, id)
        BY <3>1, <3>4, <3>6 DEF Precedes
      <4>2. id \in r.rows /\ id <= id
        BY <1>0, <3>4, <4>1 DEF RowsFollow
      <4> QED
        BY <1>3, <4>2
    <3> QED
      BY <3>5, <3>6
  <2> QED
    BY <2>1, <2>2
<1>7. Exact(q, ids)
  BY <1>3, <1>5, <1>6 DEF Exact
<1> QED
  BY <1>5, <1>7 DEF q

--------------------------------------------------------------------------------
(* The steps of a page whose requests do not overlap *)

\* A step that stores nothing and leaves at most the request of one slot.
LEMMA OneSlotLeft ==
  ASSUME Typed, log' = log, NEW s \in Slots, \A t \in Slots \ {s} : requests[t] = NULL,
         NEW r, requests' = [requests EXCEPT ![s] = r],
         r # NULL => session' /\ Follows(r, page', ChannelIds(page'.channel)),
         session' \/ page'.timeline = <<>>, Exact(page', ChannelIds(page'.channel))
  PROVE  OneView'
<1>1. requests \in [Slots -> Requests \cup {NULL}]
  BY DEF Typed, TypeOK
<1>2. requests'[s] = r /\ \A t \in Slots \ {s} : requests'[t] = NULL
  BY <1>1
<1>3. ChannelIds(page.channel)' = ChannelIds(page'.channel)
  BY DEF ChannelIds
<1>4. \A t, u \in Slots : requests'[t] # NULL /\ requests'[u] # NULL => t = u
  BY <1>2
<1>5. ~session' => r = NULL /\ Idle'
  BY <1>2 DEF Idle
<1>6. \A t \in Slots :
        requests'[t] # NULL => Follows(requests'[t], page', ChannelIds(page.channel)')
  BY <1>2, <1>3
<1> QED
  BY <1>3, <1>4, <1>5, <1>6 DEF OneView

\* A request is sent while none is under way.
LEMMA SentAlone ==
  ASSUME Typed, Idle, log' = log, session', NEW r, Send(r),
         Follows(r, page', ChannelIds(page'.channel)), Exact(page', ChannelIds(page'.channel))
  PROVE  OneView'
<1>1. PICK s \in Slots : requests' = [requests EXCEPT ![s] = r]
  BY DEF Send
<1>2. \A t \in Slots \ {s} : requests[t] = NULL
  BY DEF Idle
<1> QED
  BY <1>1, <1>2, OneSlotLeft

\* None is sent, and none is under way.
LEMMA StillIdle ==
  ASSUME Idle, log' = log, requests' = requests, session' \/ page'.timeline = <<>>,
         Exact(page', ChannelIds(page'.channel))
  PROVE  OneView'
<1>1. ChannelIds(page.channel)' = ChannelIds(page'.channel)
  BY DEF ChannelIds
<1>2. Idle' /\ \A s \in Slots : requests'[s] = NULL
  BY DEF Idle
<1> QED
  BY <1>1, <1>2 DEF OneView

\* The request of loadLatestHistory fits the page it has emptied.
LEMMA LatestFollows ==
  ASSUME Typed, NEW p \in Pages, NEW q, q.channel = p.channel, q.order = p.order,
         q.timeline = <<>>, NEW then \in {"nothing", "send", "login", "admin"}, NEW ids
  PROVE  Follows(LatestRequest(p, then), q, ids)
<1>1. /\ LatestRequest(p, then).kind = "latest" /\ LatestRequest(p, then).channel = p.channel
      /\ LatestRequest(p, then).order = p.order /\ LatestRequest(p, then).stage = "sent"
  BY PlainRequestIs DEF LatestRequest, Kinds, Typed, TypeOK
<1> HIDE DEF LatestRequest
<1> QED
  BY <1>1 DEF Follows

\* loadLatestHistory.
LEMMA LoadLatestView ==
  ASSUME Typed, OneView, Idle, session, session' = session, log' = log,
         NEW p \in Pages, p.channel = page.channel, p.timeline = page.timeline, LoadLatest(p)
  PROVE  OneView'
<1>1. CASE p.channel = NULL
  <2>1. page' = p /\ requests' = requests
    BY <1>1 DEF LoadLatest
  <2>2. p.timeline = <<>>
    BY <1>1 DEF OneView, Exact
  <2> QED
    BY <2>1, <2>2, EmptyExact, StillIdle
<1>2. CASE p.channel # NULL
  <2>1. page' = Latest(p) /\ Send(LatestRequest(p, "nothing"))
    BY <1>2 DEF LoadLatest
  <2>2. page'.timeline = <<>> /\ page'.channel = p.channel /\ page'.order = p.order
    BY <2>1, PageFunctions DEF Emptied
  <2>3. Follows(LatestRequest(p, "nothing"), page', ChannelIds(page'.channel))
    BY <2>2, LatestFollows
  <2> QED
    BY <2>1, <2>2, <2>3, EmptyExact, SentAlone
<1> QED
  BY <1>1, <1>2

\* The request of jumpToMessage fits a page with the channel and order it was sent for.
LEMMA JumpFollows ==
  ASSUME Typed, NEW p \in Pages, NEW q, q.channel = p.channel, q.order = p.order,
         NEW id \in Ids, NEW ids
  PROVE  Follows(JumpRequest(p, id), q, ids)
<1> DEFINE cursor == IF p.order = "desc" THEN id + 1 ELSE IF id > 1 THEN id - 1 ELSE NULL
<1>1. cursor \in Nat \cup {NULL}
  BY BrowserConstants DEF Ids
<1>2. JumpRequest(p, id) = Request("jump", p, cursor, id, "nothing")
  BY DEF JumpRequest
<1> HIDE DEF cursor
<1>3. /\ JumpRequest(p, id).kind = "jump" /\ JumpRequest(p, id).channel = p.channel
      /\ JumpRequest(p, id).order = p.order /\ JumpRequest(p, id).stage = "sent"
  BY <1>1, <1>2, RequestIs DEF Kinds, Typed, TypeOK
<1> HIDE DEF JumpRequest
<1> QED
  BY <1>3 DEF Follows

\* What the user and the poll timer start.
LEMMA ActsView ==
  ASSUME Typed, OneView, ~Overlap, Act \/ Poll
  PROVE  OneView'
<1>0. page \in Pages /\ session \in BOOLEAN /\ Exact(page, ChannelIds(page.channel))
  BY DEF Typed, TypeOK, OneView
<1>1. ASSUME MayAct PROVE session /\ Idle
  BY <1>1 DEF MayAct
<1>2. CASE FinishLogin
  <2> DEFINE r == [Request("channels", page', NULL, NULL, "login") EXCEPT !.auth = TRUE]
  <2>1. page' \in Pages /\ page'.timeline = page.timeline
    BY <1>0, <1>2 DEF FinishLogin, Pages
  <2>2. /\ Request("channels", page', NULL, NULL, "login") \in Requests
        /\ Request("channels", page', NULL, NULL, "login").kind = "channels"
    BY <1>0, <2>1, PlainRequestIs DEF Kinds
  <2>3. r.kind = "channels"
    BY <2>2 DEF Requests
  <2>4. Send(r) /\ log' = log /\ session' /\ Idle /\ page.timeline = <<>>
    BY <1>2 DEF FinishLogin, OneView
  <2> HIDE DEF r
  <2>5. Follows(r, page', ChannelIds(page'.channel))
    BY <2>3 DEF Follows, Reads
  <2> QED
    BY <2>1, <2>4, <2>5, EmptyExact, SentAlone
<1>3. CASE ReloadChannels
  <2> DEFINE r == Request("channels", page, NULL, NULL, "admin")
  <2>1. r.kind = "channels"
    BY <1>0, PlainRequestIs DEF Kinds
  <2>2. Send(r) /\ log' = log /\ page' = page /\ session' /\ Idle
    BY <1>1, <1>3 DEF ReloadChannels
  <2> HIDE DEF r
  <2>3. Follows(r, page', ChannelIds(page'.channel))
    BY <2>1 DEF Follows, Reads
  <2> QED
    BY <1>0, <2>2, <2>3, SentAlone
<1>4. CASE Disconnect
  <2>1. log' = log /\ page' = ClearedPage /\ requests' = requests /\ Idle
    BY <1>1, <1>4 DEF Disconnect
  <2>2. page'.timeline = <<>>
    BY <1>0, <2>1, PageFunctions DEF Emptied
  <2> QED
    BY <2>1, <2>2, EmptyExact, StillIdle
<1>5. CASE ChangeOrder
  <2> DEFINE p == [page EXCEPT !.order = IF @ = "desc" THEN "asc" ELSE "desc"]
  <2>1. p \in Pages /\ p.channel = page.channel /\ p.timeline = page.timeline
    BY <1>0 DEF Pages, Orders
  <2>2. LoadLatest(p) /\ log' = log /\ session' = session /\ session /\ Idle
    BY <1>1, <1>5 DEF ChangeOrder
  <2> HIDE DEF p
  <2> QED
    BY <2>1, <2>2, LoadLatestView
<1>6. CASE BackToLatest
  <2> DEFINE p == [page EXCEPT !.order = "desc"]
  <2>1. p \in Pages /\ p.channel = page.channel /\ p.timeline = page.timeline
    BY <1>0 DEF Pages, Orders
  <2>2. LoadLatest(p) /\ log' = log /\ session' = session /\ session /\ Idle
    BY <1>1, <1>6 DEF BackToLatest
  <2> HIDE DEF p
  <2> QED
    BY <2>1, <2>2, LoadLatestView
<1>7. CASE LoadOlder
  <2> DEFINE cursor == IF page.order = "desc" THEN page.oldestId ELSE page.lastId
             r == Request("older", page, cursor, NULL, "nothing")
  <2>1. cursor \in Nat
    BY <1>0 DEF Pages
  <2>2. Send(r) /\ log' = log /\ session' /\ Idle /\ page' = [page EXCEPT !.nav = "loading"]
    BY <1>1, <1>7 DEF LoadOlder
  <2>3. /\ page'.channel = page.channel /\ page'.order = page.order
        /\ page'.timeline = page.timeline /\ page'.hasOlder = page.hasOlder
        /\ page'.oldestId = page.oldestId /\ page'.lastId = page.lastId
    BY <1>0, <2>2 DEF Pages
  <2>4. cursor = IF page'.order = "desc" THEN page'.oldestId ELSE page'.lastId
    BY <2>3
  <2> HIDE DEF cursor
  <2>5. /\ r.kind = "older" /\ r.channel = page.channel /\ r.order = page.order
        /\ r.cursor = cursor /\ r.stage = "sent"
    BY <1>0, <2>1, RequestIs DEF Kinds
  <2> HIDE DEF r
  <2>6. Follows(r, page', ChannelIds(page'.channel))
    BY <2>3, <2>4, <2>5 DEF Follows
  <2>7. Exact(page', ChannelIds(page'.channel))
    BY <1>0, <2>3 DEF Exact, Shown
  <2> QED
    BY <2>2, <2>6, <2>7, SentAlone
<1>8. CASE Refresh
  <2>1. log' = log /\ session' = session /\ session /\ Idle
    BY <1>1, <1>8 DEF Refresh
  <2>2. CASE /\ page.historyTargetId # NULL /\ page' = ResetHistory(page)
             /\ IF page.channel = NULL THEN UNCHANGED <<waiting, requests>>
                ELSE /\ waiting' = waiting \cup {"jump-go"}
                     /\ Send(JumpRequest(page, page.historyTargetId))
    <3>1. page.historyTargetId \in Ids
      BY <1>0, <2>2 DEF Pages
    <3>2. /\ page'.timeline = <<>> /\ page'.channel = page.channel /\ page'.order = page.order
      BY <1>0, <2>2, PageFunctions DEF Emptied
    <3>3. Follows(JumpRequest(page, page.historyTargetId), page', ChannelIds(page'.channel))
      BY <1>0, <3>1, <3>2, JumpFollows
    <3>4. CASE page.channel = NULL
      BY <2>1, <2>2, <3>2, <3>4, EmptyExact, StillIdle
    <3>5. CASE page.channel # NULL
      BY <2>1, <2>2, <3>2, <3>3, <3>5, EmptyExact, SentAlone
    <3> QED
      BY <3>4, <3>5
  <2>3. CASE page.historyTargetId = NULL /\ LoadLatest(page) /\ UNCHANGED waiting
    BY <1>0, <2>1, <2>3, LoadLatestView
  <2> QED
    BY <1>8, <2>2, <2>3 DEF Refresh
<1>9. CASE Post
  <2> DEFINE r == Request("post", page, NULL, NULL, "nothing")
  <2>1. r.kind = "post"
    BY <1>0, PlainRequestIs DEF Kinds
  <2>2. Send(r) /\ log' = log /\ page' = page /\ session' /\ Idle
    BY <1>1, <1>9 DEF Post
  <2> HIDE DEF r
  <2>3. Follows(r, page', ChannelIds(page'.channel))
    BY <2>1 DEF Follows, Reads
  <2> QED
    BY <1>0, <2>2, <2>3, SentAlone
<1>10. ASSUME NEW c \in Channels, SelectChannel(c) PROVE OneView'
  <2>1. /\ page' = Selected(page, c) /\ Send(LatestRequest(page', "nothing"))
        /\ log' = log /\ session' /\ Idle
    BY <1>1, <1>10 DEF SelectChannel
  <2>2. page' \in Pages /\ page'.timeline = <<>>
    BY <1>0, <2>1, SelectedIs DEF Emptied
  <2>3. Follows(LatestRequest(page', "nothing"), page', ChannelIds(page'.channel))
    BY <2>2, LatestFollows
  <2> QED
    BY <2>1, <2>2, <2>3, EmptyExact, SentAlone
<1>11. ASSUME NEW c \in Channels, NewChannel(c) PROVE OneView'
  <2> DEFINE p == [page EXCEPT !.channel = c]
  <2>1. p \in Pages
    BY <1>0 DEF Pages
  <2>2. log' = log /\ requests' = requests /\ page' = ResetHistory(p) /\ Idle
    BY <1>1, <1>11 DEF NewChannel
  <2> HIDE DEF p
  <2>3. page'.timeline = <<>>
    BY <2>1, <2>2, PageFunctions DEF Emptied
  <2> QED
    BY <2>2, <2>3, EmptyExact, StillIdle
<1>12. ASSUME NEW id \in Ids, Jump(id) PROVE OneView'
  <2>1. Send(JumpRequest(page, id)) /\ log' = log /\ page' = page /\ session' /\ Idle
    BY <1>1, <1>12 DEF Jump
  <2>2. Follows(JumpRequest(page, id), page', ChannelIds(page'.channel))
    BY <1>0, <2>1, JumpFollows
  <2> QED
    BY <1>0, <2>1, <2>2, SentAlone
<1>13. CASE Poll
  <2> DEFINE r == Request("poll", page, page.lastId, NULL, "nothing")
  <2>1. page.lastId \in Nat /\ page.order = "desc"
    BY <1>0, <1>13 DEF Poll, Live, Pages
  <2>2. /\ r.kind = "poll" /\ r.channel = page.channel /\ r.order = page.order
        /\ r.cursor = page.lastId /\ r.stage = "sent"
    BY <1>0, <2>1, RequestIs DEF Kinds
  <2>3. Send(r) /\ log' = log /\ page' = page /\ session' /\ Idle
    BY <1>1, <1>13 DEF Poll
  <2> HIDE DEF r
  <2>4. Follows(r, page', ChannelIds(page'.channel))
    BY <2>1, <2>2, <2>3 DEF Follows
  <2> QED
    BY <1>0, <2>3, <2>4, SentAlone
<1> QED
  BY <1>2, <1>3, <1>4, <1>5, <1>6, <1>7, <1>8, <1>9, <1>10, <1>11, <1>12, <1>13 DEF Act

\* The request under way is the only one, and the page that sent it has its session.
LEMMA TheRequest ==
  ASSUME Typed, OneView, NEW s \in Slots, requests[s] # NULL
  PROVE  /\ session /\ \A t \in Slots \ {s} : requests[t] = NULL
         /\ requests[s] \in Requests /\ Sensible(requests[s])
         /\ Follows(requests[s], page, ChannelIds(page.channel))
         /\ Exact(page, ChannelIds(page.channel))
BY DEF OneView, Idle, Typed, Sensible

\* A message is stored, the page's own or another's: the page and the request under
\* way still fit.
LEMMA StoredView ==
  ASSUME Typed, CursorsMatchTimeline, OneView, page' = page, session' = session,
         NEW c, log' = Append(log, c),
         \A t \in Slots : \/ requests'[t] = requests[t]
                          \/ requests[t] # NULL /\ requests'[t].kind = "post"
  PROVE  OneView'
<1> DEFINE n == Len(log)
           ids == ChannelIds(page.channel)
<1>1. log \in Seq(Channels) /\ n \in Nat /\ page \in Pages /\ CursorsOf(page)
  BY DEF Typed, TypeOK, CursorsMatchTimeline, CursorsOf
<1>2. /\ DOMAIN log = 1..n /\ DOMAIN log' = 1..(n + 1)
      /\ \A i \in 1..n : log'[i] = log[i]
  BY <1>1
<1>3. Grown(n, ids, ids')
  <2>1. ids' = {i \in DOMAIN log' : log'[i] = page.channel}
    BY DEF ChannelIds
  <2>2. ids = {i \in DOMAIN log : log[i] = page.channel}
    BY DEF ChannelIds
  <2> HIDE DEF ids, n
  <2>3. \A i \in 1..n : i \in 1..(n + 1)
    BY <1>1
  <2>4. \A i \in 1..(n + 1) : i \in 1..n \/ i = n + 1
    BY <1>1
  <2> QED
    BY <1>1, <1>2, <2>1, <2>2, <2>3, <2>4 DEF Grown
<1> DEFINE grown == ids'
<1>4. Exact(page, ids) /\ Shown(page) \subseteq ids
  BY DEF OneView, Exact
<1> HIDE DEF n, ids
<1>5. Exact(page, grown)
  <2>1. page.timeline # <<>> => Shown(page) # {}
    BY <1>1, CursorsAreExtremes
  <2> QED
    BY <1>3, <1>4, <2>1, ExactGrows
<1>6. ASSUME NEW t \in Slots, requests'[t] # NULL PROVE Follows(requests'[t], page, grown)
  <2>1. CASE requests'[t] = requests[t]
    <3>1. Follows(requests[t], page, ids)
      BY <1>6, <2>1 DEF OneView, ids
    <3>2. Follows(requests[t], page, grown)
      BY <1>1, <1>3, <1>4, <3>1, FollowsGrows
    <3> QED
      BY <2>1, <3>2
  <2>2. CASE requests'[t].kind = "post"
    BY <2>2 DEF Follows, Reads
  <2> QED
    BY <2>1, <2>2
<1>7. \A t, u \in Slots : requests'[t] # NULL /\ requests'[u] # NULL => t = u
  BY DEF OneView
<1>8. ~session' => Idle' /\ page'.timeline = <<>>
  BY DEF OneView, Idle
<1> QED
  BY <1>5, <1>6, <1>7, <1>8 DEF OneView, ids

\* The server's statements.
LEMMA ServerView ==
  ASSUME Typed, CursorsMatchTimeline, OneView, NEW s \in Slots, Serve(s) \/ ServeMore(s)
  PROVE  OneView'
<1> DEFINE r == requests[s]
           ids == ChannelIds(page.channel)
<1>0. page' = page /\ session' = session
  BY DEF Serve, ServeMore
<1>1. /\ r # NULL /\ session /\ \A t \in Slots \ {s} : requests[t] = NULL
      /\ r \in Requests /\ Follows(r, page, ids) /\ Exact(page, ids)
  BY TheRequest DEF Serve, ServeMore
<1>2. page \in Pages /\ requests \in [Slots -> Requests \cup {NULL}]
  BY DEF Typed, TypeOK
<1>3. Len(log) \in Nat /\ ids \in SUBSET (1..Len(log))
  BY ChannelIdsAre DEF Typed, TypeOK
<1>4. ASSUME NEW q, q.kind = r.kind, q.cursor = r.cursor, q.order = r.order,
             q.channel = r.channel, r.kind \in Reads => RowsRight(q, ids)
      PROVE  Follows(q, page, ids)
  BY <1>1, <1>4 DEF Follows, Reads
<1>5. r.kind \in Reads => ChannelIds(r.channel) = ids
  BY <1>1 DEF Follows
<1>6. r.kind \in {"older", "poll"} => r.cursor # NULL
  <2>1. page.oldestId \in Nat /\ page.lastId \in Nat
    BY <1>2 DEF Pages
  <2> QED
    BY <1>1, <2>1, NullIsNoChannel DEF Follows
<1> HIDE DEF r, ids
<1>7. ASSUME NEW q, Follows(q, page, ids), log' = log, requests' = [requests EXCEPT ![s] = q]
      PROVE  OneView'
  BY <1>0, <1>1, <1>7, OneSlotLeft DEF ids
<1>8. CASE ServeMore(s)
  <2> DEFINE more == HasMore(ChannelIds(r.channel), r.order, r.rows)
             q == [r EXCEPT !.stage = "answered", !.more = more]
  <2>1. requests' = [requests EXCEPT ![s] = q] /\ log' = log /\ r.stage = "paged"
    BY <1>8 DEF ServeMore, r
  <2>2. /\ q.kind = r.kind /\ q.cursor = r.cursor /\ q.channel = r.channel /\ q.order = r.order
        /\ q.rows = r.rows /\ q.stage = "answered" /\ q.more = more
    BY <1>1 DEF Requests
  <2>3. ASSUME r.kind \in Reads PROVE RowsRight(q, ids)
    <3>1. q.more = HasMore(ids, r.order, r.rows)
      BY <1>5, <2>2, <2>3
    <3>2. RowsRight(r, ids)
      BY <1>1, <2>1, <2>3 DEF Follows
    <3> HIDE DEF q
    <3> QED
      BY <1>3, <2>1, <2>2, <3>1, <3>2, MoreRight
  <2> HIDE DEF q
  <2> QED
    BY <1>4, <1>7, <2>1, <2>2, <2>3
<1>9. CASE Serve(s) /\ r.kind \in {"latest", "older", "jump"}
  <2> DEFINE rows == Page(ChannelIds(r.channel), r.order, r.cursor, PageSize)
             q == [r EXCEPT !.rows = rows, !.stage = IF rows = {} THEN "answered" ELSE "paged"]
  <2>1. requests' = [requests EXCEPT ![s] = q] /\ log' = log
    BY <1>9 DEF Serve, r
  <2>2. rows = Page(ids, r.order, r.cursor, PageSize)
    BY <1>5, <1>9 DEF Reads
  <2> HIDE DEF rows
  <2>3. /\ q.kind = r.kind /\ q.cursor = r.cursor /\ q.channel = r.channel /\ q.order = r.order
        /\ q.rows = rows /\ q.stage = IF rows = {} THEN "answered" ELSE "paged"
    BY <1>1 DEF Requests
  <2> HIDE DEF q
  <2>4. RowsRight(q, ids)
    BY <1>1, <1>3, <1>6, <1>9, <2>2, <2>3, WindowRight
  <2> QED
    BY <1>4, <1>7, <2>1, <2>3, <2>4
<1>10. CASE Serve(s) /\ r.kind = "poll"
  <2> DEFINE rows == Page(ChannelIds(r.channel), "asc", r.cursor, PollLimit)
             q == [r EXCEPT !.stage = "answered", !.rows = rows]
  <2>1. requests' = [requests EXCEPT ![s] = q] /\ log' = log
    BY <1>10 DEF Serve, r
  <2>2. rows = Page(ids, "asc", r.cursor, PollLimit)
    BY <1>5, <1>10 DEF Reads
  <2> HIDE DEF rows
  <2>3. /\ q.kind = r.kind /\ q.cursor = r.cursor /\ q.channel = r.channel /\ q.order = r.order
        /\ q.rows = rows /\ q.stage = "answered"
    BY <1>1 DEF Requests
  <2> HIDE DEF q
  <2>4. RowsRight(q, ids)
    BY <1>1, <1>3, <1>6, <1>10, <2>2, <2>3, PolledRight
  <2> QED
    BY <1>4, <1>7, <2>1, <2>3, <2>4
<1>11. CASE Serve(s) /\ r.kind = "post"
  <2>1. log' = Append(log, r.channel) /\ requests' = [requests EXCEPT ![s].stage = "answered"]
    BY <1>11 DEF Serve, r
  <2>2. requests'[s].kind = "post" /\ \A t \in Slots \ {s} : requests'[t] = requests[t]
    BY <1>1, <1>2, <1>11, <2>1 DEF Requests, r
  <2>3. \A t \in Slots : \/ requests'[t] = requests[t]
                         \/ requests[t] # NULL /\ requests'[t].kind = "post"
    BY <1>1, <2>2 DEF r
  <2> QED
    BY <1>0, <2>1, <2>3, StoredView
<1>12. CASE Serve(s) /\ r.kind = "channels"
  <2> DEFINE q == [r EXCEPT !.stage = "answered"]
  <2>1. log' = log /\ requests' = [requests EXCEPT ![s] = q]
    BY <1>12 DEF Serve, r
  <2>2. q.kind = "channels"
    BY <1>1, <1>12 DEF Requests
  <2> HIDE DEF q
  <2>3. Follows(q, page, ids)
    BY <2>2 DEF Follows, Reads
  <2> QED
    BY <1>7, <2>1, <2>3
<1>13. r.kind \in {"latest", "older", "jump", "poll", "post", "channels"}
  BY <1>1 DEF Requests, Kinds
<1> QED
  BY <1>8, <1>9, <1>10, <1>11, <1>12, <1>13

\* What the page does with an answer, and when there is none.
LEMMA AnswerView ==
  ASSUME Typed, CursorsMatchTimeline, OneView, NEW s \in Slots,
         Answer(s) \/ Fail(s) \/ Unauthorized(s)
  PROVE  OneView'
<1> DEFINE r == requests[s]
           ids == ChannelIds(page.channel)
<1>0. page \in Pages /\ CursorsOf(page)
  BY DEF Typed, TypeOK, CursorsMatchTimeline, CursorsOf
<1>1. /\ r # NULL /\ session /\ \A t \in Slots \ {s} : requests[t] = NULL
      /\ r \in Requests /\ Sensible(r) /\ Follows(r, page, ids) /\ Exact(page, ids)
  BY TheRequest DEF Answer, Fail, Unauthorized
<1>2. log' = log
  BY DEF Answer, Fail, Unauthorized
<1>3. /\ r.rows \in SUBSET Ids /\ r.order \in Orders /\ r.more \in BOOLEAN
      /\ r.target \in Ids \cup {NULL} /\ r.then \in {"nothing", "send", "login", "admin"}
  BY <1>1 DEF Requests
<1>4. ids \in SUBSET Ids
  BY ChannelIdsAre
<1>5. r.kind \in Reads => r.channel = page.channel /\ page.channel # NULL /\ r.order = page.order
  BY <1>1 DEF Follows, Sensible, Reads
<1> HIDE DEF r, ids
<1>6. ASSUME Done(s), session' \/ page'.timeline = <<>>, Exact(page', ChannelIds(page'.channel))
      PROVE  OneView'
  BY <1>1, <1>2, <1>6, OneSlotLeft DEF Done
<1>7. ASSUME NEW p \in Pages, NEW then \in {"nothing", "send", "login", "admin"},
             page'.channel = p.channel, page'.order = p.order, page'.timeline = <<>>, session',
             requests' = [requests EXCEPT ![s] = LatestRequest(p, then)]
      PROVE  OneView'
  <2>1. Follows(LatestRequest(p, then), page', ChannelIds(page'.channel))
    BY <1>7, LatestFollows
  <2> QED
    BY <1>1, <1>2, <1>7, <2>1, EmptyExact, OneSlotLeft
<1>8. CASE Answer(s) /\ ShowWindow(s)
  <2>1. /\ page' = WithMore(AppendMessages(page, r.rows, r.order, "append"), r.more)
        /\ r.kind \in {"latest", "older"} /\ r.stage = "answered" /\ Done(s) /\ session' = session
    BY <1>8 DEF Answer, ShowWindow, r
  <2>2. RowsRight(r, ids)
    BY <1>1, <2>1 DEF Follows, Reads
  <2>3. IF r.kind = "older"
        THEN /\ page.timeline # <<>>
             /\ r.cursor = IF page.order = "desc" THEN page.oldestId ELSE page.lastId
        ELSE page.timeline = <<>>
    <3>1. CASE r.kind = "older"
      <4>1. r.cursor = IF page.order = "desc" THEN page.oldestId ELSE page.lastId
        BY <1>1, <3>1 DEF Follows
      <4>2. r.cursor # 0
        BY <1>1, <3>1 DEF Sensible
      <4>3. page.timeline # <<>>
        BY <1>0, <4>1, <4>2, CursorsAreExtremes
      <4> QED
        BY <3>1, <4>1, <4>3
    <3>2. CASE r.kind # "older"
      BY <1>1, <2>1, <3>2 DEF Follows
    <3> QED
      BY <3>1, <3>2
  <2>4. Exact(page', ids) /\ page'.channel = page.channel
    BY <1>0, <1>1, <1>4, <1>5, <2>1, <2>2, <2>3, WindowShown DEF Reads
  <2> QED
    BY <1>1, <1>6, <2>1, <2>4 DEF ids
<1>9. CASE Answer(s) /\ ShowJump(s)
  <2>1. Done(s) /\ session' = session /\ r.kind = "jump" /\ r.stage = "answered"
    BY <1>9 DEF Answer, ShowJump, r
  <2>2. CASE r.target \notin r.rows
    <3>1. page' = page
      BY <1>9, <2>2 DEF ShowJump, r
    <3> QED
      BY <1>1, <1>6, <2>1, <3>1 DEF ids
  <2>3. CASE r.target \in r.rows
    <3> DEFINE target == [page EXCEPT !.followLatest = FALSE, !.historyTargetId = r.target]
               p == ResetHistory(target)
    <3>1. page' = WithMore(AppendMessages(p, r.rows, r.order, "append"), r.more)
      BY <1>9, <2>3 DEF ShowJump, r
    <3>2. target \in Pages /\ target.channel = page.channel /\ target.order = page.order
      BY <1>0, <1>3 DEF Pages
    <3>3. p \in Pages /\ Emptied(p) /\ p.channel = page.channel /\ p.order = page.order
      <4> HIDE DEF target
      <4> QED
        BY <3>2, PageFunctions
    <3> HIDE DEF p
    <3>4. p.timeline = <<>> /\ CursorsOf(p) /\ Exact(p, ids)
      BY <3>3, EmptiedCursors, EmptyExact DEF Emptied
    <3>5. RowsRight(r, ids)
      BY <1>1, <2>1 DEF Follows, Reads
    <3>6. Exact(page', ids) /\ page'.channel = page.channel
      BY <1>1, <1>4, <1>5, <2>1, <3>1, <3>3, <3>4, <3>5, WindowShown DEF Reads
    <3> QED
      BY <1>1, <1>6, <2>1, <3>6 DEF ids
  <2> QED
    BY <2>2, <2>3
<1>10. CASE Answer(s) /\ ShowPoll(s)
  <2>1. /\ page' = AppendMessages(page, r.rows, "asc", "prepend")
        /\ r.kind = "poll" /\ r.stage = "answered" /\ Done(s) /\ session' = session
    BY <1>10 DEF Answer, ShowPoll, r
  <2>2. RowsRight(r, ids) /\ page.order = "desc" /\ r.cursor = page.lastId
    BY <1>1, <2>1 DEF Follows, Reads
  <2>3. Exact(page', ids) /\ page'.channel = page.channel
    BY <1>0, <1>1, <1>4, <1>5, <2>1, <2>2, PollShown DEF Reads
  <2> QED
    BY <1>1, <1>6, <2>1, <2>3 DEF ids
<1>11. CASE Answer(s) /\ ShowPost(s)
  <2>1. session' = session
    BY <1>11 DEF ShowPost
  <2>2. CASE page.channel = NULL
    <3>1. Done(s) /\ page' = page
      BY <1>11, <2>2 DEF ShowPost
    <3> QED
      BY <1>1, <1>6, <2>1, <3>1 DEF ids
  <2>3. CASE page.channel # NULL
    <3>1. page' = Latest(page) /\ requests' = [requests EXCEPT ![s] = LatestRequest(page, "send")]
      BY <1>11, <2>3 DEF ShowPost
    <3>2. page'.timeline = <<>> /\ page'.channel = page.channel /\ page'.order = page.order
      BY <1>0, <3>1, PageFunctions DEF Emptied
    <3> QED
      BY <1>0, <1>1, <1>7, <2>1, <3>1, <3>2
  <2> QED
    BY <2>2, <2>3
<1>12. CASE Answer(s) /\ ShowChannels(s)
  <2>1. session' = session
    BY <1>12 DEF ShowChannels
  <2>2. CASE page' = ResetHistory([page EXCEPT !.channel = NULL]) /\ Done(s)
    <3> DEFINE p == [page EXCEPT !.channel = NULL]
    <3>1. p \in Pages
      BY <1>0 DEF Pages
    <3>2. page' = ResetHistory(p)
      BY <2>2
    <3> HIDE DEF p
    <3>3. page'.timeline = <<>>
      BY <3>1, <3>2, PageFunctions DEF Emptied
    <3> QED
      BY <1>6, <2>2, <3>3, EmptyExact
  <2>3. ASSUME NEW c \in Channels, page' = Selected(page, c),
               requests' = [requests EXCEPT ![s] = LatestRequest(page', r.then)]
        PROVE  OneView'
    <3>1. page' \in Pages /\ page'.timeline = <<>>
      BY <1>0, <2>3, SelectedIs DEF Emptied
    <3> QED
      BY <1>1, <1>3, <1>7, <2>1, <2>3, <3>1
  <2> QED
    BY <1>12, <2>2, <2>3 DEF ShowChannels, r
<1>13. ClearedPage.timeline = <<>>
  BY DEF ClearedPage
<1>14. CASE Fail(s)
  <2>1. Done(s) /\ (page' = ClearedPage \/ (page' = page /\ session' = session))
    BY <1>1, <1>14 DEF Fail, r
  <2> QED
    BY <1>1, <1>6, <1>13, <2>1, EmptyExact DEF ids
<1>15. CASE Unauthorized(s)
  <2>1. Done(s) /\ page' = ClearedPage
    BY <1>15 DEF Unauthorized
  <2> QED
    BY <1>6, <1>13, <2>1, EmptyExact
<1> QED
  BY <1>8, <1>9, <1>10, <1>11, <1>12, <1>14, <1>15 DEF Answer

--------------------------------------------------------------------------------
(* What the timeline shows *)

\* While requests do not overlap, the page and the one request under way always fit.
LEMMA OneViewAlways == ~Overlap /\ Spec => []OneView
<1>1. Init => OneView
  <2> SUFFICES ASSUME Init PROVE OneView
    OBVIOUS
  <2>1. page.timeline = <<>> /\ \A s \in Slots : requests[s] = NULL
    BY DEF Init, ClearedPage
  <2> QED
    BY <2>1, EmptyExact DEF OneView, Idle
<1>2. ~Overlap /\ Typed /\ CursorsMatchTimeline /\ OneView /\ [Next]_vars => OneView'
  <2> SUFFICES ASSUME ~Overlap, Typed, CursorsMatchTimeline, OneView, [Next]_vars PROVE OneView'
    OBVIOUS
  <2>1. ASSUME NEW c \in Channels, OtherPost(c) PROVE OneView'
    BY <2>1, StoredView DEF OtherPost
  <2>2. CASE UNCHANGED vars
    BY <2>2 DEF vars, OneView, Idle, ChannelIds
  <2> QED
    BY <2>1, <2>2, ActsView, ServerView, AnswerView DEF Next
<1>3. ~Overlap /\ Spec => [](~Overlap)
  <2>1. (~Overlap) /\ [Next]_vars => (~Overlap)'
    OBVIOUS
  <2> QED
    BY <2>1, PTL DEF Spec
<1> QED
  BY <1>1, <1>2, <1>3, BrowserTyped, CursorsAreExact, PTL DEF Spec

\* While requests do not overlap, the timeline has messages of the selected channel only,
\* in the selected order and without a gap, and a newest-first view that offers no older
\* messages has them all, for any limits and log, although windows, has_more and polls are
\* read at different times while others post (selectChannel, loadOlderHistory, poll and
\* appendMessage in app.js, message_window on the server).
THEOREM ExactWithoutOverlap == ~Overlap /\ Spec => []TimelineExact
<1>1. Typed /\ CursorsMatchTimeline /\ OneView => TimelineExact
  <2> SUFFICES ASSUME Typed, CursorsMatchTimeline, OneView, page.timeline # <<>>
               PROVE  TimelineExact
    BY DEF TimelineExact
  <2> DEFINE ids == ChannelIds(page.channel)
  <2>0. page \in Pages /\ CursorsOf(page) /\ Exact(page, ids)
    BY DEF Typed, TypeOK, CursorsMatchTimeline, CursorsOf, OneView
  <2>1. /\ Shown(page) \in SUBSET Ids
        /\ page.lastId \in Shown(page)
        /\ page.oldestId \in Shown(page) /\ \A id \in Shown(page) : page.oldestId <= id
    BY <2>0, CursorsAreExtremes
  <2>2. /\ Shown(page) \subseteq ids
        /\ Listed(page.timeline, page.order) /\ Gapless(Shown(page), ids)
    BY <2>0 DEF Exact
  <2>3. ASSUME page.order = "desc", ~page.hasOlder, NEW id \in ids PROVE page.oldestId <= id
    <3>1. PICK k \in Shown(page) : k <= id
      BY <2>0, <2>3 DEF Exact
    <3>2. page.oldestId <= k
      BY <2>1
    <3>3. ids \in SUBSET Ids
      BY ChannelIdsAre
    <3>4. k \in Nat /\ id \in Nat /\ page.oldestId \in Nat
      BY <2>1, <3>3, BrowserConstants DEF Ids
    <3> QED
      BY <3>1, <3>2, <3>4
  <2> QED
    BY <2>1, <2>2, <2>3 DEF TimelineExact, Listed, Gapless
<1> QED
  BY <1>1, OneViewAlways, BrowserTyped, CursorsAreExact, PTL
================================================================================
