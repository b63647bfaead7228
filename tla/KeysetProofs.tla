------------------------------ MODULE KeysetProofs ------------------------------
(******************************************************************************)
(* What the bounded reads of KeysetWindow return, for every table, cursor,      *)
(* limit and order: a page is a beginning of the rows beyond the cursor         *)
(* (PageIsPrefix), it is empty only when there are none, and one surplus row    *)
(* tells whether there are more (SurplusMeansMore).                             *)
(******************************************************************************)
EXTENDS KeysetWindow, TLAPS, FiniteSetTheorems, WellFoundedInduction

--------------------------------------------------------------------------------
(* Ranks *)

\* A table that can be walked through in this order: it has a first row.
Walkable(keys, order) ==
  /\ keys \subseteq Nat /\ order \in Orders
  /\ order = "desc" => \E n \in Nat : \A k \in keys : k <= n

Before(keys, order, k) == {j \in keys : Precedes(order, j, k)}
Rank(keys, order, k) == Cardinality(Before(keys, order, k))

\* A nonempty set of numbers has a least element.
LEMMA LeastExists ==
  ASSUME NEW T, T \subseteq Nat, T # {}
  PROVE  \E x \in T : \A y \in T : x <= y
<1>1. PICK x \in T : \A y \in T : ~(<<y, x>> \in OpToRel(<, Nat))
  BY NatLessThanWellFounded, WFMin
<1>2. ASSUME NEW y \in T PROVE x <= y
  <2>1. <<y, x>> \notin OpToRel(<, Nat)
    BY <1>1
  <2>2. y \in Nat /\ x \in Nat
    OBVIOUS
  <2>3. ~(y < x)
    BY <2>1, <2>2 DEF OpToRel
  <2> QED
    BY <2>2, <2>3
<1> QED
  BY <1>2

\* Only finitely many rows come before a row.
LEMMA RankFinite ==
  ASSUME NEW keys, NEW order, Walkable(keys, order), NEW k \in Nat
  PROVE  IsFiniteSet(Before(keys, order, k)) /\ Rank(keys, order, k) \in Nat
<1>1. Before(keys, order, k) \in SUBSET Nat
  BY DEF Before, Walkable
<1>2. \E n \in Nat : \A j \in Before(keys, order, k) : j <= n
  <2>1. CASE order = "desc"
    BY <2>1 DEF Before, Walkable
  <2>2. CASE order = "asc"
    <3>1. \A j \in Before(keys, order, k) : j <= k
      BY <2>2 DEF Before, Walkable, Precedes
    <3> QED
      BY <3>1
  <2> QED
    BY <2>1, <2>2 DEF Walkable, Orders
<1>3. IsFiniteSet(Before(keys, order, k))
  BY <1>1, <1>2, FS_BoundedSetOfNaturals
<1> QED
  BY <1>3, FS_CardinalityType DEF Rank

\* Ranks grow along the order.
LEMMA RankGrows ==
  ASSUME NEW keys, NEW order, Walkable(keys, order), NEW j \in keys, NEW k \in keys,
         Precedes(order, j, k)
  PROVE  Rank(keys, order, j) < Rank(keys, order, k)
<1>1. keys \subseteq Nat /\ j \in Nat /\ k \in Nat
  BY DEF Walkable
<1>2. Before(keys, order, j) \in SUBSET Before(keys, order, k)
  <2>1. ASSUME NEW i \in keys, Precedes(order, i, j) PROVE Precedes(order, i, k)
    <3>1. i \in Nat
      BY <1>1
    <3> QED
      BY <1>1, <2>1, <3>1 DEF Precedes
  <2> QED
    BY <2>1 DEF Before
<1>3. j \in Before(keys, order, k) /\ j \notin Before(keys, order, j)
  BY <1>1 DEF Before, Precedes
<1>4. /\ IsFiniteSet(Before(keys, order, k))
      /\ Rank(keys, order, k) \in Nat /\ Rank(keys, order, j) \in Nat
  BY <1>1, RankFinite
<1>5. /\ Cardinality(Before(keys, order, j)) <= Cardinality(Before(keys, order, k))
      /\ Cardinality(Before(keys, order, k)) # Cardinality(Before(keys, order, j))
  BY <1>2, <1>3, <1>4, FS_Subset
<1> QED
  BY <1>4, <1>5 DEF Rank

\* Of a nonempty set of rows one comes first.
LEMMA FirstExists ==
  ASSUME NEW keys, NEW order, Walkable(keys, order), NEW S \in SUBSET keys, S # {}
  PROVE  \E k \in S : \A j \in S \ {k} : Precedes(order, k, j)
<1> DEFINE ranks == {Rank(keys, order, k) : k \in S}
<1>1. keys \subseteq Nat
  BY DEF Walkable
<1>2. ranks \subseteq Nat /\ ranks # {}
  <2>1. \A k \in S : Rank(keys, order, k) \in Nat
    BY <1>1, RankFinite
  <2> QED
    BY <2>1
<1>3. PICK x \in ranks : \A y \in ranks : x <= y
  <2> HIDE DEF ranks
  <2> QED
    BY <1>2, LeastExists
<1>4. PICK k \in S : x = Rank(keys, order, k)
  OBVIOUS
<1>5. ASSUME NEW j \in S \ {k} PROVE Precedes(order, k, j)
  <2>1. j \in Nat /\ k \in Nat /\ Rank(keys, order, k) <= Rank(keys, order, j)
    BY <1>1, <1>3, <1>4
  <2>2. Rank(keys, order, k) \in Nat /\ Rank(keys, order, j) \in Nat
    BY <2>1, RankFinite
  <2>3. ~Precedes(order, j, k)
    BY <2>1, <2>2, RankGrows
  <2> QED
    BY <2>1, <2>3 DEF Precedes
<1> QED
  BY <1>4, <1>5

HasLast(page, order) == \E k \in page : \A j \in page \ {k} : Precedes(order, j, k)

\* Of a nonempty set of rows of bounded rank one comes last.
LEMMA LastExists ==
  ASSUME NEW keys, NEW order, Walkable(keys, order), NEW S \in SUBSET keys, S # {},
         NEW n \in Nat, \A k \in S : Rank(keys, order, k) < n
  PROVE  HasLast(S, order)
<1> DEFINE gaps == {n - Rank(keys, order, k) : k \in S}
<1>1. keys \subseteq Nat
  BY DEF Walkable
<1>2. \A k \in S : Rank(keys, order, k) \in Nat
  BY <1>1, RankFinite
<1>3. gaps \subseteq Nat /\ gaps # {}
  BY <1>2
<1>4. PICK x \in gaps : \A y \in gaps : x <= y
  <2> HIDE DEF gaps
  <2> QED
    BY <1>3, LeastExists
<1>5. PICK k \in S : x = n - Rank(keys, order, k)
  OBVIOUS
<1>6. ASSUME NEW j \in S \ {k} PROVE Precedes(order, j, k)
  <2>1. j \in Nat /\ k \in Nat /\ Rank(keys, order, j) \in Nat /\ Rank(keys, order, k) \in Nat
    BY <1>1, <1>2
  <2>2. n - Rank(keys, order, k) <= n - Rank(keys, order, j)
    BY <1>4, <1>5
  <2>3. Rank(keys, order, j) <= Rank(keys, order, k)
    BY <2>1, <2>2
  <2>4. ~Precedes(order, k, j)
    BY <2>1, <2>3, RankGrows
  <2> QED
    BY <2>1, <2>4 DEF Precedes
<1> QED
  BY <1>5, <1>6 DEF HasLast

\* rows.last() is the last row.
LEMMA LastOfIs ==
  ASSUME NEW page, NEW order, HasLast(page, order)
  PROVE  /\ LastOf(page, order) \in page
         /\ \A j \in page : j = LastOf(page, order) \/ Precedes(order, j, LastOf(page, order))
BY DEF HasLast, LastOf

--------------------------------------------------------------------------------
(* Pages *)

\* The rows beyond a cursor can be walked through as the table can.
LEMMA BeyondWalkable ==
  ASSUME NEW keys, NEW order, Walkable(keys, order), NEW cursor
  PROVE  Walkable(Beyond(keys, order, cursor), order)
BY DEF Walkable, Beyond

\* A page is a beginning of the rows beyond the cursor, and empty only if there are
\* none.
LEMMA PageIsPrefix ==
  ASSUME NEW keys, NEW order, Walkable(keys, order), NEW cursor, NEW limit \in Nat \ {0}
  PROVE  LET rest == Beyond(keys, order, cursor)
             page == Page(keys, order, cursor, limit)
         IN /\ page = {k \in rest : Rank(rest, order, k) < limit}
            /\ page = {} => rest = {}
            /\ page # {} => HasLast(page, order)
            /\ \A k \in page, j \in rest : Precedes(order, j, k) => j \in page
<1> DEFINE rest == Beyond(keys, order, cursor)
           page == Page(keys, order, cursor, limit)
<1>1. Walkable(rest, order) /\ rest \subseteq Nat
  BY BeyondWalkable DEF Walkable
<1>2. page = {k \in rest : Rank(rest, order, k) < limit}
  BY DEF Page, Rank, Before
<1> HIDE DEF rest, page
<1>3. \A k \in rest : Rank(rest, order, k) \in Nat
  BY <1>1, RankFinite
<1>4. ASSUME rest # {} PROVE page # {}
  <2>1. PICK k \in rest : \A j \in rest \ {k} : Precedes(order, k, j)
    BY <1>1, <1>4, FirstExists
  <2>2. Before(rest, order, k) = {}
    <3> SUFFICES ASSUME NEW j \in rest, Precedes(order, j, k) PROVE FALSE
      BY DEF Before
    <3>1. j \in Nat /\ k \in Nat
      BY <1>1
    <3> QED
      BY <2>1, <3>1 DEF Precedes
  <2>3. Rank(rest, order, k) = 0
    BY <2>2, FS_EmptySet DEF Rank
  <2> QED
    BY <1>2, <2>3
<1>5. ASSUME page # {} PROVE HasLast(page, order)
  BY <1>1, <1>2, <1>5, LastExists
<1>6. ASSUME NEW k \in page, NEW j \in rest, Precedes(order, j, k) PROVE j \in page
  <2>1. k \in rest /\ Rank(rest, order, k) < limit
    BY <1>2
  <2>2. Rank(rest, order, j) < Rank(rest, order, k)
    BY <1>1, <1>6, <2>1, RankGrows
  <2>3. Rank(rest, order, j) < limit
    BY <1>3, <2>1, <2>2
  <2> QED
    BY <1>2, <2>3
<1> QED
  BY <1>2, <1>4, <1>5, <1>6 DEF rest, page

\* A page has at most limit rows.
LEMMA PageBounded ==
  ASSUME NEW keys, NEW order, Walkable(keys, order), NEW cursor, NEW limit \in Nat \ {0}
  PROVE  LET page == Page(keys, order, cursor, limit)
         IN IsFiniteSet(page) /\ Cardinality(page) <= limit
<1> DEFINE rest == Beyond(keys, order, cursor)
           page == Page(keys, order, cursor, limit)
<1>1. /\ page = {k \in rest : Rank(rest, order, k) < limit}
      /\ page # {} => HasLast(page, order)
      /\ \A k \in page, j \in rest : Precedes(order, j, k) => j \in page
  BY PageIsPrefix
<1>2. Walkable(rest, order) /\ rest \subseteq Nat
  BY BeyondWalkable DEF Walkable
<1> HIDE DEF rest, page
<1>3. CASE page = {}
  BY <1>3, FS_EmptySet DEF page
<1>4. CASE page # {}
  <2>1. PICK k \in page : \A j \in page \ {k} : Precedes(order, j, k)
    BY <1>1, <1>4 DEF HasLast
  <2>2. k \in Nat /\ k \in rest /\ Rank(rest, order, k) < limit
    BY <1>1, <1>2
  <2>3. page = Before(rest, order, k) \union {k}
    <3>1. \A j \in page : j \in rest /\ (j = k \/ Precedes(order, j, k))
      BY <1>1, <2>1
    <3>2. \A j \in rest : Precedes(order, j, k) => j \in page
      BY <1>1
    <3> QED
      BY <3>1, <3>2 DEF Before
  <2>4. IsFiniteSet(Before(rest, order, k)) /\ Rank(rest, order, k) \in Nat
    BY <1>2, <2>2, RankFinite
  <2>5. k \notin Before(rest, order, k)
    BY <2>2 DEF Before, Precedes
  <2>6. IsFiniteSet(page) /\ Cardinality(page) = Rank(rest, order, k) + 1
    BY <2>3, <2>4, <2>5, FS_AddElement DEF Rank
  <2>7. Cardinality(page) <= limit
    BY <2>2, <2>4, <2>6
  <2> QED
    BY <2>6, <2>7 DEF page
<1> QED
  BY <1>3, <1>4

\* LIMIT n + 1 and truncate: the page is the one of LIMIT n, and a surplus row was
\* fetched exactly if there are rows beyond the page.
LEMMA SurplusMeansMore ==
  ASSUME NEW keys, NEW order, Walkable(keys, order), NEW cursor, NEW limit \in Nat \ {0}
  PROVE  LET fetched == Fetched(keys, order, cursor, limit)
             page == Page(keys, order, cursor, limit)
         IN /\ Truncated(fetched, order, limit) = page
            /\ Surplus(fetched, limit) <=> \E k \in Beyond(keys, order, cursor) : k \notin page
<1> DEFINE rest == Beyond(keys, order, cursor)
           page == Page(keys, order, cursor, limit)
           fetched == Fetched(keys, order, cursor, limit)
<1>1. limit + 1 \in Nat \ {0}
  OBVIOUS
<1>2. Walkable(rest, order) /\ rest \subseteq Nat
  BY BeyondWalkable DEF Walkable
<1>3. /\ fetched = {k \in rest : Rank(rest, order, k) < limit + 1}
      /\ \A k \in fetched, j \in rest : Precedes(order, j, k) => j \in fetched
  BY <1>1, PageIsPrefix DEF Fetched
<1>4. /\ page = {k \in rest : Rank(rest, order, k) < limit}
      /\ page = {} => rest = {}
  BY PageIsPrefix
<1>5. IsFiniteSet(page) /\ Cardinality(page) <= limit /\ IsFiniteSet(fetched)
  BY <1>1, PageBounded DEF Fetched
<1>6. Truncated(fetched, order, limit)
        = {k \in fetched : Rank(fetched, order, k) < limit}
  <2>1. Beyond(fetched, order, NULL) = fetched
    BY DEF Beyond
  <2> HIDE DEF fetched
  <2> QED
    BY <2>1 DEF Truncated, Page, Rank, Before
<1> HIDE DEF rest, page, fetched
<1>7. \A k \in rest : Rank(rest, order, k) \in Nat
  BY <1>2, RankFinite
<1>8. ASSUME NEW k \in fetched PROVE Rank(fetched, order, k) = Rank(rest, order, k)
  <2>1. Before(fetched, order, k) = Before(rest, order, k)
    BY <1>3 DEF Before
  <2> QED
    BY <2>1 DEF Rank
<1>9. Truncated(fetched, order, limit) = page
  <2>1. \A k \in rest : Rank(rest, order, k) < limit => Rank(rest, order, k) < limit + 1
    BY <1>7
  <2> QED
    BY <1>3, <1>4, <1>6, <1>8, <2>1
<1>10. ASSUME NEW k \in rest, k \notin page PROVE Cardinality(fetched) > limit
  <2>1. PICK f \in rest \ page : \A j \in (rest \ page) \ {f} : Precedes(order, f, j)
    <3>1. rest \ page \in SUBSET rest /\ rest \ page # {}
      BY <1>10
    <3> QED
      BY <1>2, <3>1, FirstExists
  <2>2. f \in Nat /\ Rank(rest, order, f) \in Nat /\ limit <= Rank(rest, order, f)
    BY <1>2, <1>4, <1>7
  <2>3. Before(rest, order, f) = page
    <3>1. ASSUME NEW j \in rest, Precedes(order, j, f) PROVE j \in page
      <4>1. j \in Nat /\ j # f /\ ~Precedes(order, f, j)
        BY <1>2, <2>2, <3>1 DEF Precedes
      <4> QED
        BY <2>1, <4>1
    <3>2. ASSUME NEW j \in page PROVE j \in rest /\ Precedes(order, j, f)
      <4>1. j \in rest /\ Rank(rest, order, j) < limit /\ j # f /\ j \in Nat
        BY <1>2, <1>4, <2>1
      <4>2. Rank(rest, order, j) < Rank(rest, order, f)
        BY <1>7, <2>2, <4>1
      <4>3. ~Precedes(order, f, j)
        BY <1>2, <1>7, <2>2, <4>1, <4>2, RankGrows
      <4> QED
        BY <2>2, <4>1, <4>3 DEF Precedes
    <3> QED
      BY <3>1, <3>2 DEF Before
  <2>4. Rank(rest, order, f) = limit /\ Cardinality(page) = limit
    BY <1>5, <2>2, <2>3 DEF Rank
  <2>5. page \union {f} \in SUBSET fetched
    <3>1. f \in fetched
      BY <1>3, <2>4
    <3>2. page \subseteq fetched
      BY <1>3, <1>4, <1>7
    <3> QED
      BY <3>1, <3>2
  <2>6. Cardinality(page \union {f}) = limit + 1
    BY <1>5, <2>1, <2>4, FS_AddElement
  <2>7. Cardinality(page \union {f}) <= Cardinality(fetched)
    BY <1>5, <2>5, FS_Subset
  <2>8. Cardinality(fetched) \in Nat
    BY <1>5, FS_CardinalityType
  <2> QED
    BY <2>6, <2>7, <2>8
<1>11. ASSUME \A k \in rest : k \in page PROVE ~(Cardinality(fetched) > limit)
  <2>1. fetched \in SUBSET page
    BY <1>3, <1>11
  <2>2. Cardinality(fetched) <= Cardinality(page) /\ Cardinality(page) \in Nat
        /\ Cardinality(fetched) \in Nat
    BY <1>5, <2>1, FS_Subset, FS_CardinalityType
  <2> QED
    BY <1>5, <2>2
<1>12. Surplus(fetched, limit) <=> \E k \in rest : k \notin page
  BY <1>10, <1>11 DEF Surplus
<1> QED
  BY <1>9, <1>12 DEF rest, page, fetched

--------------------------------------------------------------------------------
(* Lists *)

\* A list of all rows in their order, none twice.
Sorted(list, rows, order) ==
  /\ list \in [1..Cardinality(rows) -> rows]
  /\ \A i, j \in 1..Cardinality(rows) : i < j => Precedes(order, list[i], list[j])
  /\ \A k \in rows : \E i \in 1..Cardinality(rows) : list[i] = k

\* Finitely many rows can be listed in their order: the place of a row is its rank.
LEMMA SortedExists ==
  ASSUME NEW n \in Nat, NEW rows \in SUBSET (1..n), NEW order \in Orders
  PROVE  /\ IsFiniteSet(rows) /\ Cardinality(rows) \in Nat
         /\ \E list : Sorted(list, rows, order)
<1> DEFINE c == Cardinality(rows)
           place == [k \in rows |-> Rank(rows, order, k) + 1]
<1>1. rows \subseteq Nat /\ \A k \in rows : k <= n
  OBVIOUS
<1>2. Walkable(rows, order)
  BY <1>1 DEF Walkable
<1>3. IsFiniteSet(rows) /\ c \in Nat
  BY <1>1, FS_BoundedSetOfNaturals, FS_CardinalityType
<1> HIDE DEF c
<1>4. ASSUME NEW k \in rows PROVE Rank(rows, order, k) \in Nat /\ Rank(rows, order, k) < c
  <2>1. k \notin Before(rows, order, k) /\ Before(rows, order, k) \in SUBSET rows
    BY <1>1 DEF Before, Precedes
  <2>2. Rank(rows, order, k) \in Nat
    BY <1>1, <1>2, RankFinite
  <2>3. Rank(rows, order, k) <= c /\ Rank(rows, order, k) # c
    BY <1>3, <2>1, FS_Subset DEF Rank, c
  <2> QED
    BY <1>3, <2>2, <2>3
<1>5. place \in [rows -> 1..c]
  <2>1. \A k \in rows : Rank(rows, order, k) + 1 \in 1..c
    BY <1>3, <1>4
  <2> QED
    BY <2>1
<1>6. ASSUME NEW j \in rows, NEW k \in rows
      PROVE  /\ place[j] = place[k] => j = k
             /\ place[j] < place[k] => Precedes(order, j, k)
  <2>1. Precedes(order, j, k) \/ Precedes(order, k, j) \/ j = k
    BY <1>1 DEF Precedes
  <2>2. /\ Precedes(order, j, k) => Rank(rows, order, j) < Rank(rows, order, k)
        /\ Precedes(order, k, j) => Rank(rows, order, k) < Rank(rows, order, j)
    BY <1>2, RankGrows
  <2>3. place[j] = Rank(rows, order, j) + 1 /\ place[k] = Rank(rows, order, k) + 1
    OBVIOUS
  <2>4. Rank(rows, order, j) \in Nat /\ Rank(rows, order, k) \in Nat
    BY <1>4
  <2> QED
    BY <2>1, <2>2, <2>3, <2>4
<1> HIDE DEF place
<1>7. place \in Injection(rows, 1..c)
  BY <1>5, <1>6 DEF Injection, IsInjective
<1>8. IsFiniteSet(1..c) /\ Cardinality(1..c) = c
  BY <1>3, FS_Interval
<1>9. \A i \in 1..c : \E k \in rows : place[k] = i
  <2>1. place \in Surjection(rows, 1..c)
    BY <1>7, <1>8, FS_Injection DEF c
  <2> QED
    BY <2>1 DEF Surjection
<1> DEFINE list == [i \in 1..c |-> CHOOSE k \in rows : place[k] = i]
<1>10. \A i \in 1..c : list[i] \in rows /\ place[list[i]] = i
  BY <1>9
<1>11. list \in [1..c -> rows]
  BY <1>9
<1> HIDE DEF list
<1>12. \A i, j \in 1..c : i < j => Precedes(order, list[i], list[j])
  BY <1>6, <1>10
<1>13. ASSUME NEW k \in rows PROVE \E i \in 1..c : list[i] = k
  <2>1. place[k] \in 1..c
    BY <1>5
  <2>2. list[place[k]] = k
    BY <1>6, <1>10, <2>1
  <2> QED
    BY <2>1, <2>2
<1> QED
  BY <1>3, <1>11, <1>12, <1>13 DEF Sorted, c
================================================================================
