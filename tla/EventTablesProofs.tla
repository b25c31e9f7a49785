-------------------------- MODULE EventTablesProofs --------------------------
(***************************************************************************)
(* Proofs about EventTables, for any copies, ids, types and plants, any    *)
(* sizes of pages and any lookback window that covers the delay of a row   *)
(* and the gap between two cycles.                                         *)
(*                                                                         *)
(* Of the rounding (time_bucket) the proofs use that an hour lies in one   *)
(* day, and that the instants of a bucket are those between its edges.     *)
(***************************************************************************)
EXTENDS EventTables, FiniteSetTheorems, FunctionTheorems,
        SequenceTheorems, TLAPS

-----------------------------------------------------------------------------
(* The order of the listing *)

\* Rows of different ids.
Keyed(rows) == \A c, d \in rows : IdOf[c] = IdOf[d] => c = d

\* Rows that are stamped.
Stamped(rows) == \A c \in rows : c \in Copies /\ created[c] \in Int

LEMMA NewestIsTotal ==
  ASSUME NEW rows, Keyed(rows), Stamped(rows)
  PROVE  /\ \A c \in rows : ~Newest(c, c)
         /\ \A c, d, e \in rows : Newest(c, d) /\ Newest(d, e) => Newest(c, e)
         /\ \A c, d \in rows : c = d \/ Newest(c, d) \/ Newest(d, c)
         /\ \A c, d \in rows : Newest(c, d) <=> Before(d, c)
BY TablesAssumption DEF Keyed, Stamped, Newest, Before

\* The rows newer than a row, and the row that comes at a place.
Newer(c, rows) == {d \in rows : Newest(d, c)}

LEMMA RanksGrow ==
  ASSUME NEW rows, IsFiniteSet(rows), Keyed(rows), Stamped(rows),
         NEW c \in rows, NEW d \in rows
  PROVE  /\ Rank(c, rows) \in 0..Cardinality(rows) - 1
         /\ Newest(c, d) <=> Rank(c, rows) < Rank(d, rows)
         /\ Rank(c, rows) = Rank(d, rows) => c = d
<1>1. ASSUME NEW x \in rows
      PROVE  /\ Newer(x, rows) \subseteq rows /\ x \notin Newer(x, rows)
             /\ Rank(x, rows) = Cardinality(Newer(x, rows))
             /\ IsFiniteSet(Newer(x, rows))
             /\ Rank(x, rows) \in 0..Cardinality(rows) - 1
  <2>1. Newer(x, rows) \subseteq rows /\ x \notin Newer(x, rows)
    BY NewestIsTotal DEF Newer
  <2>2. Rank(x, rows) = Cardinality(Newer(x, rows))
    BY DEF Rank, Newer
  <2>3. /\ IsFiniteSet(Newer(x, rows))
        /\ Cardinality(Newer(x, rows)) <= Cardinality(rows)
        /\ Cardinality(rows) = Cardinality(Newer(x, rows)) => rows = Newer(x, rows)
    BY <2>1, FS_Subset
  <2>4. Cardinality(rows) \in Nat /\ Cardinality(Newer(x, rows)) \in Nat
    BY <2>3, FS_CardinalityType
  <2> QED  BY <2>1, <2>2, <2>3, <2>4
<1>2. ASSUME NEW x \in rows, NEW y \in rows, Newest(x, y)
      PROVE  Rank(x, rows) < Rank(y, rows)
  <2>1. Newer(x, rows) \subseteq Newer(y, rows)
    BY <1>2, NewestIsTotal DEF Newer
  <2>2. x \in Newer(y, rows) /\ x \notin Newer(x, rows)
    BY <1>1, <1>2 DEF Newer
  <2>3. /\ Cardinality(Newer(x, rows)) <= Cardinality(Newer(y, rows))
        /\ Cardinality(Newer(x, rows)) # Cardinality(Newer(y, rows))
    BY <2>1, <2>2, <1>1, FS_Subset
  <2> QED  BY <2>3, <1>1
<1>3. Rank(c, rows) \in Int /\ Rank(d, rows) \in Int
  BY <1>1
<1>4. c = d \/ Newest(c, d) \/ Newest(d, c)
  BY NewestIsTotal
<1>5. ~Newest(c, c)
  BY NewestIsTotal
<1> QED  BY <1>1, <1>2, <1>3, <1>4, <1>5

\* NewestFirst lists every row, once, the newer before the older.
LEMMA NewestFirstLists ==
  ASSUME NEW rows, IsFiniteSet(rows), Keyed(rows), Stamped(rows)
  PROVE  /\ NewestFirst(rows) \in Seq(rows)
         /\ Len(NewestFirst(rows)) = Cardinality(rows)
         /\ Cardinality(rows) \in Nat
         /\ \A c \in rows : \E i \in 1..Cardinality(rows) : NewestFirst(rows)[i] = c
         /\ \A i, j \in 1..Cardinality(rows) :
              i < j => Before(NewestFirst(rows)[j], NewestFirst(rows)[i])
<1> DEFINE n == Cardinality(rows)
           s == NewestFirst(rows)
           rank == [c \in rows |-> Rank(c, rows)]
<1>1. n \in Nat
  BY FS_CardinalityType
<1>2. rank \in Injection(rows, 0..n - 1)
  BY RanksGrow DEF Injection, IsInjective
<1>3. IsFiniteSet(0..n - 1) /\ Cardinality(0..n - 1) = n
  BY <1>1, FS_Interval
<1>4. rank \in Surjection(rows, 0..n - 1)
  BY <1>2, <1>3, FS_Injection
<1>5. \A i \in 1..n : \E c \in rows : Rank(c, rows) = i - 1
  <2> SUFFICES ASSUME NEW i \in 1..n PROVE \E c \in rows : Rank(c, rows) = i - 1
    OBVIOUS
  <2>1. i - 1 \in 0..n - 1
    BY <1>1
  <2>2. \E c \in rows : rank[c] = i - 1
    BY <1>4, <2>1 DEF Surjection
  <2> QED  BY <2>2
<1>6. \A i \in 1..n : s[i] \in rows /\ Rank(s[i], rows) = i - 1
  BY <1>5 DEF NewestFirst
<1>7. s \in Seq(rows) /\ Len(s) = n
  <2>1. s \in [1..n -> rows]
    BY <1>6 DEF NewestFirst
  <2> QED  BY <1>1, <2>1
<1>8. ASSUME NEW c \in rows
      PROVE  \E i \in 1..n : s[i] = c
  <2>1. PICK i \in 1..n : i - 1 = Rank(c, rows)
    <3>1. Rank(c, rows) \in 0..n - 1
      BY RanksGrow
    <3>2. Rank(c, rows) + 1 \in 1..n /\ (Rank(c, rows) + 1) - 1 = Rank(c, rows)
      BY <1>1, <3>1
    <3> QED  BY <3>2
  <2>2. s[i] \in rows /\ Rank(s[i], rows) = Rank(c, rows)
    BY <2>1, <1>6
  <2> QED  BY <2>2, RanksGrow
<1>9. ASSUME NEW i \in 1..n, NEW j \in 1..n, i < j
      PROVE  Before(s[j], s[i])
  <2>1. s[i] \in rows /\ s[j] \in rows /\ Rank(s[i], rows) < Rank(s[j], rows)
    BY <1>6, <1>9
  <2>2. Newest(s[i], s[j])
    BY <2>1, RanksGrow
  <2> QED  BY <2>1, <2>2, NewestIsTotal
<1> QED  BY <1>1, <1>7, <1>8, <1>9

-----------------------------------------------------------------------------
(* A page *)

LEMMA MinOfTwo ==
  ASSUME NEW a \in Int, NEW b \in Int
  PROVE  Min({a, b}) = IF a <= b THEN a ELSE b
<1> DEFINE P(x) == x \in {a, b} /\ \A y \in {a, b} : x <= y
<1>1. P(IF a <= b THEN a ELSE b)
  OBVIOUS
<1>2. \A x : P(x) => x = IF a <= b THEN a ELSE b
  OBVIOUS
<1>3. Min({a, b}) = CHOOSE x : P(x)
  BY DEF Min
<1> HIDE DEF P
<1>4. P(CHOOSE x : P(x))
  BY <1>1, Zenon
<1> QED  BY <1>2, <1>3, <1>4

LEMMA PageSizes ==
  ASSUME NEW limit \in Int
  PROVE  NormalizePageQuery(limit) \in Nat \ {0}
BY TablesAssumption DEF NormalizePageQuery

Models(rows, limit) ==
  SubSeq(NewestFirst(rows), 1, Min({Len(NewestFirst(rows)), limit + 1}))
Items(rows, limit) ==
  SubSeq(Models(rows, limit), 1, Min({Len(Models(rows, limit)), limit}))

\* The page is in order; a row that is not on it is older than its last one, and
\* then there is more.
LEMMA PageIsNewest ==
  ASSUME NEW rows, IsFiniteSet(rows), Keyed(rows), Stamped(rows), NEW limit \in Nat \ {0}
  PROVE  LET items == Items(rows, limit)
             more == HasMore(Models(rows, limit), limit)
         IN  /\ items \in Seq(rows)
             /\ more => Len(items) # 0
             /\ \A i, j \in 1..Len(items) : i < j => Before(items[j], items[i])
             /\ \A c \in rows : \/ \E i \in 1..Len(items) : items[i] = c
                                \/ more /\ Before(c, items[Len(items)])
<1> DEFINE n == Cardinality(rows)
           s == NewestFirst(rows)
           k == IF n <= limit + 1 THEN n ELSE limit + 1
           l == IF n <= limit THEN n ELSE limit
           models == Models(rows, limit)
           items == Items(rows, limit)
<1>1. /\ s \in Seq(rows) /\ Len(s) = n /\ n \in Nat
      /\ \A c \in rows : \E i \in 1..n : s[i] = c
      /\ \A i, j \in 1..n : i < j => Before(s[j], s[i])
  BY NewestFirstLists
<1>2. models = SubSeq(s, 1, k)
  BY <1>1, MinOfTwo DEF Models
<1> HIDE DEF s, n, models
<1>3. /\ models \in Seq(rows) /\ Len(models) = k
      /\ \A i \in 1..k : models[i] = s[i]
  BY <1>1, <1>2
<1>4. HasMore(models, limit) <=> n > limit
  BY <1>1, <1>3 DEF HasMore
<1>5. Min({Len(models), limit}) = l
  BY <1>1, <1>3, MinOfTwo
<1>6. items = SubSeq(models, 1, l)
  BY <1>5 DEF Items, models
<1> HIDE DEF items
<1>7. /\ items \in Seq(rows) /\ Len(items) = l
      /\ \A i \in 1..l : items[i] = s[i]
  BY <1>1, <1>3, <1>6
<1>8. ASSUME NEW i \in 1..Len(items), NEW j \in 1..Len(items), i < j
      PROVE  Before(items[j], items[i])
  BY <1>1, <1>7, <1>8
<1>9. ASSUME NEW c \in rows
      PROVE  \/ \E i \in 1..Len(items) : items[i] = c
             \/ HasMore(models, limit) /\ Before(c, items[Len(items)])
  <2>1. PICK i \in 1..n : s[i] = c
    BY <1>1
  <2>2. CASE i <= l
    BY <2>1, <2>2, <1>1, <1>7
  <2>3. CASE i > l
    <3>1. n > limit /\ l = limit
      BY <2>3, <1>1
    <3>2. l \in 1..n /\ l < i
      BY <2>3, <3>1, <1>1
    <3>3. Before(s[i], s[l])
      BY <3>2, <1>1
    <3>4. items[Len(items)] = s[l]
      BY <3>1, <1>7
    <3> QED  BY <2>1, <3>1, <3>3, <3>4, <1>4
  <2> QED  BY <2>2, <2>3, <1>1
<1> QED  BY <1>1, <1>4, <1>7, <1>8, <1>9 DEF models, items

-----------------------------------------------------------------------------
(* The rows and the clock *)

RowsTyped ==
  /\ now \in Times /\ lastCycle \in 0..now
  /\ created \in [Copies -> Times \cup {NotYet}]
  /\ opRows \subseteq Built /\ anRows \subseteq Built
  /\ IsFiniteSet(opRows) /\ IsFiniteSet(anRows)
  /\ Keyed(opRows)

LEMMA RowsTypedInit ==
  ASSUME TablesInit
  PROVE  RowsTyped
BY TablesAssumption, FS_EmptySet DEF TablesInit, RowsTyped, Times, Keyed

\* A row is inserted once, and only if its id is new to the operational table.
LEMMA RowsTypedStep ==
  ASSUME RowsTyped, [TablesNext]_tableVars
  PROVE  RowsTyped'
<1> USE TablesAssumption DEF RowsTyped, Times
<1>1. CASE Tick
  BY <1>1 DEF Tick, rowVars, statVars, Built, Keyed
<1>2. ASSUME NEW c \in Copies, BuildEvent(c)
      PROVE  RowsTyped'
  <2>1. Built' = Built \cup {c}
    BY <1>2 DEF BuildEvent, Built, NotYet
  <2> QED  BY <1>2, <2>1 DEF BuildEvent, statVars, Keyed
<1>3. ASSUME NEW c \in Copies, StoreOperational(c)
      PROVE  RowsTyped'
  <2>1. /\ c \in Built /\ \A d \in opRows : IdOf[d] # IdOf[c]
        /\ opRows' = opRows \cup {c} /\ Built' = Built
        /\ UNCHANGED <<now, created, anRows, lastCycle>>
    BY <1>3 DEF StoreOperational, InTime, Built, statVars
  <2>2. IsFiniteSet(opRows') /\ Keyed(opRows')
    BY <2>1, FS_AddElement DEF Keyed
  <2> QED  BY <2>1, <2>2 DEF Keyed
<1>4. ASSUME NEW c \in Copies, StoreAnalytical(c)
      PROVE  RowsTyped'
  <2>1. /\ c \in Built /\ anRows' = anRows \cup {c} /\ Built' = Built
        /\ UNCHANGED <<now, created, opRows, lastCycle>>
    BY <1>4 DEF StoreAnalytical, InTime, Built, statVars
  <2>2. IsFiniteSet(anRows')
    BY <2>1, FS_AddElement
  <2> QED  BY <2>1, <2>2 DEF Keyed
<1>5. CASE RecalculateDirtyBuckets
  BY <1>5 DEF RecalculateDirtyBuckets, rowVars, Built, Keyed
<1>6. ASSUME NEW d \in Days, DropChunk(d)
      PROVE  RowsTyped'
  <2>1. /\ anRows' \in SUBSET anRows /\ Built' = Built
        /\ UNCHANGED <<now, created, opRows, lastCycle>>
    BY <1>6 DEF DropChunk, Built, statVars
  <2>2. IsFiniteSet(anRows')
    BY <2>1, FS_Subset
  <2> QED  BY <2>1, <2>2 DEF Keyed
<1>7. ASSUME UNCHANGED <<now, rowVars, statVars>>
      PROVE  RowsTyped'
  BY <1>7 DEF rowVars, statVars, Built, Keyed
<1> QED
  BY <1>1, <1>2, <1>3, <1>4, <1>5, <1>6, <1>7
  DEF TablesNext, ListEvents, NextPage, ListAgain, tableVars

LEMMA StoredIsStamped ==
  ASSUME RowsTyped, NEW c \in opRows \cup anRows
  PROVE  c \in Copies /\ c # NotYet /\ created[c] \in Int /\ created[c] # NotYet
BY TablesAssumption DEF RowsTyped, Built, Times

-----------------------------------------------------------------------------
(* The listing of a client *)

InOrder(s) == \A i \in 1..(Len(s) - 1) : Before(s[i + 1], s[i])

Read(c) == \E i \in 1..Len(listing.seen) : listing.seen[i] = c

\* What the client has, and what the cursor still has to bring.
ListingInOrder ==
  /\ listing.at \in {"none", "more", "end"}
  /\ listing.seen \in Seq(opRows) /\ InOrder(listing.seen)
  /\ listing.present \subseteq opRows
  /\ listing.at = "more" =>
       /\ Len(listing.seen) # 0 /\ listing.last = listing.seen[Len(listing.seen)]
       /\ listing.limit \in Int
       /\ listing.present \subseteq Matches(listing.type)
       /\ \A c \in listing.present : Read(c) \/ Before(c, listing.last)
  /\ listing.at = "end" => \A c \in listing.present : Read(c)

\* A place of two joined lists that is not the last is one of the second if it is not
\* of the first, and so is the next.
LEMMA SecondOfTwo ==
  ASSUME NEW m \in Nat, NEW n \in Nat, NEW i \in 1..(m + n - 1), i > m
  PROVE  \E j \in 1..n : j = i - m /\ j + 1 \in 1..n /\ j < j + 1
<1>1. i - m \in 1..n /\ (i - m) + 1 \in 1..n
  OBVIOUS
<1> QED  BY <1>1

\* The pages are joined where the cursor stands.
LEMMA JoinInOrder ==
  ASSUME NEW s \in Seq(opRows), InOrder(s), NEW t \in Seq(opRows),
         \A i, j \in 1..Len(t) : i < j => Before(t[j], t[i]),
         \A i \in 1..Len(t) : Len(s) # 0 => Before(t[i], s[Len(s)])
  PROVE  /\ s \o t \in Seq(opRows) /\ InOrder(s \o t)
         /\ Len(s \o t) = Len(s) + Len(t)
         /\ \A i \in 1..Len(s) : (s \o t)[i] = s[i]
         /\ \A i \in 1..Len(t) : (s \o t)[Len(s) + i] = t[i]
<1> DEFINE u == s \o t
<1>1. u \in Seq(opRows) /\ Len(u) = Len(s) + Len(t) /\ Len(s) \in Nat /\ Len(t) \in Nat
  BY ConcatProperties
<1>2. \A i \in 1..Len(s) + Len(t) : u[i] = IF i <= Len(s) THEN s[i] ELSE t[i - Len(s)]
  BY ConcatProperties
<1> HIDE DEF u
<1>3. \A i \in 1..Len(s) : u[i] = s[i]
  BY <1>1, <1>2
<1>4. ASSUME NEW i \in 1..Len(t)
      PROVE  u[Len(s) + i] = t[i]
  <2>1. Len(s) + i \in 1..Len(s) + Len(t) /\ ~(Len(s) + i <= Len(s))
        /\ (Len(s) + i) - Len(s) = i
    BY <1>1
  <2> QED  BY <2>1, <1>2
<1>5. ASSUME NEW i \in 1..(Len(u) - 1)
      PROVE  Before(u[i + 1], u[i])
  <2>1. CASE i + 1 <= Len(s)
    <3>1. i \in 1..Len(s) /\ i + 1 \in 1..Len(s) /\ i \in 1..(Len(s) - 1)
      BY <2>1, <1>1
    <3>2. u[i] = s[i] /\ u[i + 1] = s[i + 1]
      BY <3>1, <1>3
    <3> QED  BY <3>1, <3>2 DEF InOrder
  <2>2. CASE i = Len(s)
    <3>1. u[i] = s[Len(s)] /\ u[i + 1] = t[1] /\ Len(s) # 0 /\ 1 \in 1..Len(t)
      BY <2>2, <1>1, <1>3, <1>4
    <3> QED  BY <3>1
  <2>3. CASE i > Len(s)
    <3>0. Len(s) \in Nat /\ Len(t) \in Nat /\ i \in 1..(Len(s) + Len(t) - 1)
      BY <1>1
    <3>1. PICK j \in 1..Len(t) : j = i - Len(s) /\ j + 1 \in 1..Len(t) /\ j < j + 1
      BY <2>3, <3>0, SecondOfTwo
    <3>2. Len(s) + j = i /\ Len(s) + (j + 1) = i + 1
      BY <3>1, <1>1
    <3>3. u[i] = t[j] /\ u[i + 1] = t[j + 1]
      BY <3>1, <3>2, <1>4
    <3> QED  BY <3>1, <3>3
  <2> QED  BY <2>1, <2>2, <2>3, <1>1
<1> QED  BY <1>1, <1>3, <1>4, <1>5 DEF InOrder, u

\* A page takes the client further, whatever has been inserted since the one before.
LEMMA PageInOrder ==
  ASSUME RowsTyped, NEW type, NEW last, NEW asked \in Int,
         NEW seen \in Seq(opRows), InOrder(seen), NEW present \in SUBSET Matches(type),
         last = NotYet <=> Len(seen) = 0,
         Len(seen) # 0 => last = seen[Len(seen)],
         \A c \in present : \/ \E i \in 1..Len(seen) : seen[i] = c
                            \/ c \in Unread(type, last),
         Page(type, last, asked, seen, present), UNCHANGED rowVars
  PROVE  ListingInOrder'
<1> DEFINE rows == Unread(type, last)
           limit == NormalizePageQuery(asked)
           models == Models(rows, limit)
           items == Items(rows, limit)
           all == seen \o items
<1>1. rows \subseteq opRows /\ IsFiniteSet(rows) /\ Keyed(rows) /\ Stamped(rows)
  <2>1. rows \subseteq opRows
    BY DEF Unread, Matches
  <2> QED  BY <2>1, FS_Subset, StoredIsStamped DEF RowsTyped, Keyed, Stamped
<1>2. limit \in Nat \ {0}
  BY PageSizes
<1>3. models = Selected(type, last, limit)
  BY DEF Models, Selected
<1>4. /\ items \in Seq(rows)
      /\ HasMore(models, limit) => Len(items) # 0
      /\ \A i, j \in 1..Len(items) : i < j => Before(items[j], items[i])
      /\ \A c \in rows : \/ \E i \in 1..Len(items) : items[i] = c
                         \/ HasMore(models, limit) /\ Before(c, items[Len(items)])
  <2> HIDE DEF rows, limit
  <2> QED  BY <1>1, <1>2, PageIsNewest
<1>5. items \in Seq(opRows) /\ Len(items) \in Nat
  BY <1>1, <1>4, SeqMonotonic
<1>6. \A i \in 1..Len(items) : Len(seen) # 0 => Before(items[i], seen[Len(seen)])
  <2> SUFFICES ASSUME NEW i \in 1..Len(items), Len(seen) # 0
               PROVE  Before(items[i], seen[Len(seen)])
    OBVIOUS
  <2>1. items[i] \in rows
    BY <1>4, ElementOfSeq
  <2> QED  BY <2>1 DEF Unread, AfterCursor
<1>7. /\ all \in Seq(opRows) /\ InOrder(all) /\ Len(all) = Len(seen) + Len(items)
      /\ \A i \in 1..Len(seen) : all[i] = seen[i]
      /\ \A i \in 1..Len(items) : all[Len(seen) + i] = items[i]
      /\ Len(seen) \in Nat
  <2> HIDE DEF items
  <2> QED  BY <1>4, <1>5, <1>6, JoinInOrder
<1>8. Items(rows, limit) = SubSeq(models, 1, Min({Len(models), limit}))
  BY DEF Items
<1>9. listing' = IF HasMore(models, limit)
                 THEN [at |-> "more", type |-> type, limit |-> asked, last |-> Last(items),
                       seen |-> all, present |-> present]
                 ELSE [NoListing EXCEPT !.at = "end", !.seen = all, !.present = present]
  BY <1>3, <1>8 DEF Page
<1>10. opRows' = opRows /\ created' = created
  BY DEF rowVars
<1>11. present \subseteq opRows
  BY DEF Matches
<1> HIDE DEF rows, limit, models, items, all
\* Every row that was there is read, or older than the last one.
<1>12. ASSUME NEW c \in present
       PROVE  \/ \E i \in 1..Len(all) : all[i] = c
              \/ HasMore(models, limit) /\ Before(c, items[Len(items)])
  <2>1. CASE \E i \in 1..Len(seen) : seen[i] = c
    BY <2>1, <1>5, <1>7
  <2>2. CASE \E i \in 1..Len(items) : items[i] = c
    <3>1. PICK i \in 1..Len(items) : items[i] = c
      BY <2>2
    <3>2. Len(seen) + i \in 1..Len(all) /\ all[Len(seen) + i] = c
      BY <3>1, <1>5, <1>7
    <3> QED  BY <3>2
  <2> QED  BY <2>1, <2>2, <1>4 DEF rows
<1>13. PICK a, l : a = all /\ l = items[Len(items)]
  OBVIOUS
<1>14. /\ a \in Seq(opRows') /\ InOrder(a)' /\ Matches(type)' = Matches(type)
       /\ \A c \in opRows : Before(c, l)' <=> Before(c, l)
  <2>1. \A c, d : Before(c, d)' <=> Before(c, d)
    BY <1>10 DEF Before
  <2> QED  BY <2>1, <1>7, <1>10, <1>13 DEF InOrder, Matches
<1>15. CASE HasMore(models, limit)
  <2>1. /\ listing'.at = "more" /\ listing'.type = type /\ listing'.limit = asked
        /\ listing'.last = l /\ listing'.seen = a
        /\ listing'.present = present
    BY <1>9, <1>13, <1>15 DEF Last
  <2>2. Len(a) # 0 /\ a[Len(a)] = l
    <3>1. Len(items) \in 1..Len(items)
      BY <1>4, <1>5, <1>15
    <3>2. all[Len(seen) + Len(items)] = items[Len(items)]
      BY <3>1, <1>7
    <3>3. Len(all) = Len(seen) + Len(items) /\ Len(all) # 0
      BY <3>1, <1>5, <1>7
    <3> QED  BY <3>2, <3>3, <1>13
  <2>3. \A c \in present : (\E i \in 1..Len(a) : a[i] = c) \/ Before(c, l)'
    BY <1>11, <1>12, <1>13, <1>14
  <2> QED
    BY <2>1, <2>2, <2>3, <1>10, <1>11, <1>14 DEF ListingInOrder, Read
<1>16. CASE ~HasMore(models, limit)
  <2>1. listing'.at = "end" /\ listing'.seen = a /\ listing'.present = present
    BY <1>9, <1>13, <1>16 DEF NoListing
  <2>2. \A c \in present : \E i \in 1..Len(a) : a[i] = c
    BY <1>12, <1>13, <1>16
  <2> QED
    BY <2>1, <2>2, <1>10, <1>11, <1>14 DEF ListingInOrder, Read
<1> QED  BY <1>15, <1>16

LEMMA NoListingInOrder ==
  ASSUME listing = NoListing
  PROVE  ListingInOrder
<1>1. /\ listing.at = "none" /\ listing.seen = <<>> /\ listing.present = {}
  BY DEF NoListing
<1>2. <<>> \in Seq(opRows) /\ Len(<<>>) = 0
  OBVIOUS
<1> QED  BY <1>1, <1>2 DEF ListingInOrder, InOrder, Read

\* Rows that come leave the listing as it is.
LEMMA ListingStays ==
  ASSUME RowsTyped, ListingInOrder, listing' = listing,
         opRows \subseteq opRows', \A c \in opRows : created'[c] = created[c]
  PROVE  ListingInOrder'
<1>1. listing.seen \in Seq(opRows')
  BY SeqMonotonic DEF ListingInOrder
<1>2. \A i \in 1..Len(listing.seen) : listing.seen[i] \in opRows
  BY ElementOfSeq DEF ListingInOrder
<1>3. \A c, d \in opRows : Before(c, d)' <=> Before(c, d)
  BY DEF Before
<1>4. InOrder(listing.seen)'
  <2>1. Len(listing.seen) \in Nat
    BY DEF ListingInOrder
  <2> QED  BY <2>1, <1>2, <1>3 DEF ListingInOrder, InOrder
<1>5. \A type : Matches(type) \subseteq Matches(type)'
  BY DEF Matches
<1>6. listing.at = "more" => listing.last \in opRows
  <2>1. Len(listing.seen) \in Nat
    BY DEF ListingInOrder
  <2> QED  BY <2>1, <1>2 DEF ListingInOrder
<1>7. \A c \in listing.present : Before(c, listing.last) /\ listing.at = "more" =>
                                   Before(c, listing.last)'
  BY <1>3, <1>6 DEF ListingInOrder
<1> QED  BY <1>1, <1>4, <1>5, <1>7 DEF ListingInOrder, Read

LEMMA ListingInOrderStep ==
  ASSUME RowsTyped, ListingInOrder, [TablesNext]_tableVars
  PROVE  ListingInOrder'
<1>1. ASSUME NEW c \in Copies, BuildEvent(c)
      PROVE  ListingInOrder'
  <2>1. \A d \in opRows : created'[d] = created[d]
    BY <1>1, StoredIsStamped DEF BuildEvent, RowsTyped
  <2> QED  BY <1>1, <2>1, ListingStays DEF BuildEvent
<1>2. ASSUME NEW c \in Copies, StoreOperational(c)
      PROVE  ListingInOrder'
  BY <1>2, ListingStays DEF StoreOperational
<1>3. ASSUME NEW type \in Filters, NEW asked \in Limits, ListEvents(type, asked)
      PROVE  ListingInOrder'
  <2>1. /\ Page(type, NotYet, asked, <<>>, Matches(type)) /\ UNCHANGED rowVars
        /\ asked \in Int
    BY <1>3, TablesAssumption DEF ListEvents
  <2>2. <<>> \in Seq(opRows) /\ Len(<<>>) = 0 /\ InOrder(<<>>)
    BY DEF InOrder
  <2>3. Matches(type) = Unread(type, NotYet)
    BY DEF Unread
  <2> QED  BY <2>1, <2>2, <2>3, PageInOrder
<1>4. CASE NextPage
  <2> DEFINE type == listing.type
             last == listing.last
             seen == listing.seen
             present == listing.present
  <2>1. /\ listing.at = "more" /\ UNCHANGED rowVars
        /\ Page(type, last, listing.limit, seen, present)
    BY <1>4 DEF NextPage
  <2>2. /\ seen \in Seq(opRows) /\ InOrder(seen) /\ Len(seen) # 0 /\ last = seen[Len(seen)]
        /\ listing.limit \in Int /\ present \in SUBSET Matches(type)
        /\ \A c \in present : Read(c) \/ Before(c, last)
    BY <2>1 DEF ListingInOrder
  <2>3. last # NotYet
    <3>1. last \in opRows
      <4>1. Len(seen) \in 1..Len(seen)
        BY <2>2
      <4> QED  BY <4>1, <2>2, ElementOfSeq
    <3> QED  BY <3>1, StoredIsStamped
  <2>4. \A c \in present : \/ \E i \in 1..Len(seen) : seen[i] = c
                           \/ c \in Unread(type, last)
    BY <2>2 DEF Read, Unread, AfterCursor
  <2> HIDE DEF type, last, seen, present
  <2> QED  BY <2>1, <2>2, <2>3, <2>4, PageInOrder
<1>5. CASE ListAgain
  <2>1. (listing = NoListing)'
    BY <1>5 DEF ListAgain, NoListing
  <2>2. (listing = NoListing)' => ListingInOrder'
    BY NoListingInOrder, PTL
  <2> QED  BY <2>1, <2>2
<1>6. ASSUME UNCHANGED <<created, opRows, listing>>
      PROVE  ListingInOrder'
  BY <1>6, ListingStays
<1> QED
  BY <1>1, <1>2, <1>3, <1>4, <1>5, <1>6
  DEF TablesNext, Tick, StoreAnalytical, DropChunk, RecalculateDirtyBuckets, tableVars, rowVars

-----------------------------------------------------------------------------
(* Buckets *)

LEMMA MultiplesInOrder ==
  ASSUME NEW w \in Nat \ {0}, NEW a \in Int, NEW b \in Int
  PROVE  a * w < b * w + w <=> a <= b
<1>1. ASSUME NEW x \in Int, NEW y \in Int, x < y
      PROVE  x * w + w <= y * w
  <2>1. (y - x - 1) * w >= 0
    BY <1>1
  <2>2. (y - x - 1) * w = y * w - x * w - w
    OBVIOUS
  <2> QED  BY <2>1, <2>2
<1>2. a * w \in Int /\ b * w \in Int
  OBVIOUS
<1>3. CASE a < b
  BY <1>1, <1>2, <1>3
<1>4. CASE a = b
  BY <1>2, <1>4
<1>5. CASE b < a
  BY <1>1, <1>2, <1>5
<1> QED  BY <1>3, <1>4, <1>5

\* A bucket is the times from its first one up to the next bucket's.
LEMMA Buckets ==
  ASSUME NEW w \in Nat \ {0}, NEW t \in Int, NEW q \in Int
  PROVE  t \div w = q <=> q * w <= t /\ t <= q * w + w - 1
<1> DEFINE d == t \div w
<1>1. d \in Int /\ w * d <= t /\ t < w * (d + 1)
  OBVIOUS
<1> HIDE DEF d
<1>2. d * w <= t /\ t < d * w + w
  BY <1>1
<1>3. d * w \in Int /\ q * w \in Int
  BY <1>1
<1>4. CASE d = q
  BY <1>2, <1>3, <1>4 DEF d
<1>5. CASE d < q
  <2>1. ~(q * w < d * w + w)
    BY <1>1, <1>5, MultiplesInOrder
  <2> QED  BY <2>1, <1>2, <1>3, <1>5 DEF d
<1>6. CASE q < d
  <2>1. ~(d * w < q * w + w)
    BY <1>1, <1>6, MultiplesInOrder
  <2> QED  BY <2>1, <1>2, <1>3, <1>6 DEF d
<1> QED  BY <1>1, <1>4, <1>5, <1>6

\* An hour is in one day as a whole.
LEMMA HourWithinDay ==
  ASSUME NEW t \in Nat
  PROVE  t \div Day = ((t \div Hour) * Hour) \div Day
<1> DEFINE h == t \div Hour
           d == t \div Day
           k == Day \div Hour
<1>0. Hour \in Nat \ {0} /\ Day \in Nat \ {0} /\ Day % Hour = 0
  BY TablesAssumption
<1> USE <1>0
<1>1. h \in Int /\ d \in Int /\ k \in Int
  OBVIOUS
<1>2. Day = k * Hour
  <2>1. Day = (Day \div Hour) * Hour + (Day % Hour)
    BY Z3T(30)
  <2> QED  BY <2>1, <1>1
<1>3. h * Hour <= t /\ t <= h * Hour + Hour - 1
  BY <1>1, Buckets
<1>4. d * Day <= t /\ t <= d * Day + Day - 1
  BY <1>1, Buckets
<1> HIDE DEF h, d, k
<1>5. h * Hour \in Int /\ d * Day \in Int /\ d * k \in Int
  BY <1>1
<1>6. d * Day = (d * k) * Hour
  BY <1>1, <1>2
<1>7. (d * k) * Hour < h * Hour + Hour
  BY <1>3, <1>4, <1>5, <1>6
<1>8. d * k <= h
  BY <1>1, <1>5, <1>7, MultiplesInOrder
<1>9. d * Day <= h * Hour
  <2>1. (h - d * k) * Hour >= 0
    BY <1>1, <1>5, <1>8
  <2>2. (h - d * k) * Hour = h * Hour - (d * k) * Hour
    BY <1>1, <1>5
  <2> QED  BY <2>1, <2>2, <1>5, <1>6
<1>10. h * Hour <= d * Day + Day - 1
  BY <1>3, <1>4, <1>5
<1>11. (h * Hour) \div Day = d
  BY <1>1, <1>5, <1>9, <1>10, Buckets
<1> QED  BY <1>11 DEF h, d

LEMMA BucketOfBuilt ==
  ASSUME RowsTyped, NEW c \in Built
  PROVE  /\ created[c] \in Nat
         /\ time_bucket(Hour, created[c]) \in Hours
         /\ time_bucket(Day, created[c]) = time_bucket(Day, time_bucket(Hour, created[c]) * Hour)
<1>1. created[c] \in Times
  BY DEF RowsTyped, Built
<1>2. created[c] \in Nat
  BY <1>1, TablesAssumption DEF Times
<1>3. time_bucket(Day, created[c]) = time_bucket(Day, time_bucket(Hour, created[c]) * Hour)
  BY <1>2, HourWithinDay DEF time_bucket
<1> QED  BY <1>1, <1>2, <1>3 DEF Hours

-----------------------------------------------------------------------------
(* The statistics *)

\* A row that has come since the last cycle is young enough for the next one's window;
\* one that is gone was counted, and its day has gone with it for good.
CountsExact ==
  /\ counted \subseteq Built /\ IsFiniteSet(counted)
  /\ now - lastCycle <= MaxGap
  /\ \A c \in anRows \ counted : created[c] >= lastCycle - MaxDelay
  /\ \A c \in counted \ anRows :
       /\ PastRetention(time_bucket(Day, created[c]))
       /\ \A e \in anRows : time_bucket(Day, created[e]) # time_bucket(Day, created[c])
  /\ stats \in [Hours \X Plants -> Nat]
  /\ NothingMissed

LEMMA CountsExactInit ==
  ASSUME TablesInit
  PROVE  CountsExact
<1>1. /\ counted = {} /\ anRows = {} /\ now - lastCycle <= MaxGap
      /\ stats = [k \in Hours \X Plants |-> 0]
  BY TablesAssumption DEF TablesInit
<1>2. ASSUME NEW b \in Hours, NEW p \in Plants
      PROVE  stats[<<b, p>>] = Cardinality(RowsIn(counted, Hour, b, p))
  <2>1. RowsIn(counted, Hour, b, p) = {}
    BY <1>1 DEF RowsIn
  <2> QED  BY <1>1, <2>1, FS_EmptySet
<1> QED  BY <1>1, <1>2, FS_EmptySet DEF CountsExact, NothingMissed

\* An hour of a plant without a row in the window has had no row since the last cycle.
LEMMA QuietIsCounted ==
  ASSUME RowsTyped, CountsExact, NEW b, NEW p,
         ~ \E c \in RowsIn(anRows, Hour, b, p) : InLookback(c)
  PROVE  RowsIn(counted \cup anRows, Hour, b, p) = RowsIn(counted, Hour, b, p)
<1>1. ASSUME NEW c \in anRows \ counted
      PROVE  InLookback(c)
  <2>1. created[c] \in Int /\ now \in Int /\ lastCycle \in Int
    BY StoredIsStamped DEF RowsTyped, Times
  <2>2. created[c] >= lastCycle - MaxDelay /\ now - lastCycle <= MaxGap
    BY DEF CountsExact
  <2>3. MaxDelay \in Nat /\ MaxGap \in Nat /\ Lookback \in Nat /\ MaxDelay + MaxGap <= Lookback
    BY TablesAssumption
  <2> QED  BY <2>1, <2>2, <2>3 DEF InLookback
<1> QED  BY <1>1 DEF RowsIn

\* An hour that still has a row has lost none: a chunk goes as a whole.
LEMMA HourIsWhole ==
  ASSUME RowsTyped, CountsExact, NEW b, NEW p, NEW e \in RowsIn(anRows, Hour, b, p)
  PROVE  RowsIn(counted \cup anRows, Hour, b, p) = RowsIn(anRows, Hour, b, p)
<1>1. ASSUME NEW c \in counted \ anRows, time_bucket(Hour, created[c]) = b
      PROVE  FALSE
  <2>1. c \in Built /\ e \in Built /\ e \in anRows /\ time_bucket(Hour, created[e]) = b
    BY DEF CountsExact, RowsTyped, RowsIn
  <2>2. time_bucket(Day, created[e]) = time_bucket(Day, created[c])
    BY <1>1, <2>1, BucketOfBuilt
  <2> QED  BY <2>1, <2>2 DEF CountsExact
<1> QED  BY <1>1 DEF RowsIn

\* A row that is stored in time is of no day that is past.
LEMMA InTimeIsKept ==
  ASSUME RowsTyped, NEW c \in Copies, InTime(c), NEW d \in Int, PastRetention(d)
  PROVE  time_bucket(Day, created[c]) # d
<1>1. c \in Built /\ now - created[c] <= MaxDelay /\ now \in Int
  BY DEF InTime, RowsTyped, Times
<1>2. created[c] \in Nat
  BY <1>1, BucketOfBuilt
<1>3. /\ Day \in Nat \ {0} /\ MaxDelay \in Nat /\ Retention \in Nat /\ MaxDelay <= Retention
  BY TablesAssumption
<1>4. d * Day \in Int /\ d * Day + Day <= now - Retention
  BY <1>3 DEF PastRetention
<1>5. ~(created[c] <= d * Day + Day - 1)
  BY <1>1, <1>2, <1>3, <1>4
<1>6. created[c] \div Day = d => created[c] <= d * Day + Day - 1
  BY <1>2, <1>3, Buckets
<1> QED  BY <1>5, <1>6 DEF time_bucket

LEMMA CountsExactStep ==
  ASSUME RowsTyped, CountsExact, [TablesNext]_tableVars
  PROVE  CountsExact'
<1> USE TablesAssumption
<1>0. now \in Int /\ lastCycle \in Int /\ lastCycle <= now
  BY DEF RowsTyped, Times
\* What was counted keeps its times, and what is past stays past.
<1>1. ASSUME UNCHANGED statVars, now' \in Int, now <= now', now' - lastCycle <= MaxGap,
             Built \subseteq Built', anRows \subseteq anRows',
             \A c \in Built : created'[c] = created[c],
             \A c \in anRows' \ anRows :
               /\ c \in Built /\ created[c] >= lastCycle - MaxDelay
               /\ \A d \in Int : PastRetention(d) => time_bucket(Day, created[c]) # d
      PROVE  CountsExact'
  <2>1. /\ counted' = counted /\ stats' = stats /\ lastCycle' = lastCycle
        /\ counted \subseteq Built /\ anRows' \subseteq Built
        /\ \A c \in counted \cup anRows' : created'[c] = created[c]
    BY <1>1 DEF statVars, CountsExact, RowsTyped
  <2>2. \A b, p : RowsIn(counted, Hour, b, p)' = RowsIn(counted, Hour, b, p)
    BY <2>1 DEF RowsIn
  <2>3. NothingMissed'
    BY <2>1, <2>2 DEF NothingMissed, CountsExact
  <2>4. ASSUME NEW c \in counted \ anRows'
        PROVE  /\ PastRetention(time_bucket(Day, created[c]))'
               /\ \A e \in anRows' :
                    time_bucket(Day, created'[e]) # time_bucket(Day, created'[c])
    <3>1. PastRetention(time_bucket(Day, created[c]))
      BY <1>1 DEF CountsExact
    <3>2. time_bucket(Day, created[c]) \in Int
      BY <2>1, BucketOfBuilt DEF time_bucket
    <3>3. time_bucket(Day, created'[c]) = time_bucket(Day, created[c])
      BY <2>1
    <3>4. PastRetention(time_bucket(Day, created[c]))'
      <4>1. time_bucket(Day, created[c]) * Day \in Int /\ Retention \in Int /\ Day \in Int
        BY <3>2
      <4> QED  BY <1>0, <1>1, <3>1, <3>3, <4>1 DEF PastRetention
    <3>5. ASSUME NEW e \in anRows'
          PROVE  time_bucket(Day, created[e]) # time_bucket(Day, created[c])
      <4>1. CASE e \in anRows
        BY <1>1, <4>1 DEF CountsExact
      <4>2. CASE e \notin anRows
        BY <1>1, <3>1, <3>2, <4>2
      <4> QED  BY <4>1, <4>2
    <3> QED  BY <2>1, <3>4, <3>5
  <2>5. \A c \in (anRows \ counted)' : created'[c] >= lastCycle' - MaxDelay
    BY <1>1, <2>1 DEF CountsExact
  <2>6. counted' \subseteq Built' /\ IsFiniteSet(counted')
    BY <1>1, <2>1 DEF CountsExact
  <2>7. now' - lastCycle' <= MaxGap /\ stats' \in [Hours \X Plants -> Nat]
    BY <1>1, <2>1 DEF CountsExact
  <2> QED  BY <2>1, <2>3, <2>4, <2>5, <2>6, <2>7 DEF CountsExact
<1>2. CASE Tick
  <2>1. /\ UNCHANGED <<created, anRows, statVars>> /\ now' = now + 1
        /\ now - lastCycle < MaxGap /\ Built' = Built
    BY <1>2 DEF Tick, rowVars, Built
  <2> QED  BY <1>0, <1>1, <2>1
<1>3. ASSUME NEW c \in Copies, BuildEvent(c)
      PROVE  CountsExact'
  <2>1. \A d \in Built : created'[d] = created[d]
    BY <1>3 DEF BuildEvent, Built, RowsTyped
  <2>2. Built \subseteq Built'
    BY <2>1 DEF Built
  <2>3. UNCHANGED <<now, anRows, statVars>> /\ now - lastCycle <= MaxGap
    BY <1>3 DEF BuildEvent, CountsExact
  <2> QED  BY <2>1, <2>2, <2>3, <1>0, <1>1
<1>4. ASSUME NEW c \in Copies, StoreAnalytical(c)
      PROVE  CountsExact'
  <2>1. InTime(c) /\ c \in Built
    BY <1>4 DEF StoreAnalytical, InTime
  <2>2. created[c] >= lastCycle - MaxDelay
    BY <2>1, <1>0, BucketOfBuilt DEF InTime
  <2>3. \A d \in Int : PastRetention(d) => time_bucket(Day, created[c]) # d
    BY <2>1, InTimeIsKept
  <2>4. /\ UNCHANGED <<now, created, statVars>> /\ anRows' = anRows \cup {c}
        /\ now - lastCycle <= MaxGap /\ Built' = Built
    BY <1>4 DEF StoreAnalytical, CountsExact, Built
  <2> QED  BY <2>1, <2>2, <2>3, <2>4, <1>0, <1>1
\* The cycle counts the hours that had a row in the window; the others are as they were.
<1>5. CASE RecalculateDirtyBuckets
  <2>1. /\ lastCycle' = now /\ counted' = counted \cup anRows /\ anRows' = anRows
        /\ created' = created /\ now' = now /\ Built' = Built
    BY <1>5 DEF RecalculateDirtyBuckets, rowVars, Built
  <2>2. ASSUME NEW b \in Hours, NEW p \in Plants
        PROVE  /\ stats'[<<b, p>>] = Cardinality(RowsIn(counted \cup anRows, Hour, b, p))
               /\ stats'[<<b, p>>] \in Nat
    <3>1. /\ <<b, p>> \in Hours \X Plants
          /\ stats'[<<b, p>>] = IF \E c \in RowsIn(anRows, Hour, b, p) : InLookback(c)
                                THEN CountBucket(b, p) ELSE stats[<<b, p>>]
      BY <1>5 DEF RecalculateDirtyBuckets
    <3>2. RowsIn(anRows, Hour, b, p) \in SUBSET anRows
      BY DEF RowsIn
    <3>3. Cardinality(RowsIn(anRows, Hour, b, p)) \in Nat
      BY <3>2, FS_Subset, FS_CardinalityType DEF RowsTyped
    <3>4. CASE \E c \in RowsIn(anRows, Hour, b, p) : InLookback(c)
      <4>1. RowsIn(counted \cup anRows, Hour, b, p) = RowsIn(anRows, Hour, b, p)
        BY <3>4, HourIsWhole
      <4> QED  BY <3>1, <3>3, <3>4, <4>1 DEF CountBucket
    <3>5. CASE ~ \E c \in RowsIn(anRows, Hour, b, p) : InLookback(c)
      <4>1. RowsIn(counted \cup anRows, Hour, b, p) = RowsIn(counted, Hour, b, p)
        BY <3>5, QuietIsCounted
      <4>2. stats[<<b, p>>] = Cardinality(RowsIn(counted, Hour, b, p)) /\ stats[<<b, p>>] \in Nat
        BY <3>1 DEF CountsExact, NothingMissed
      <4> QED  BY <3>1, <3>5, <4>1, <4>2
    <3> QED  BY <3>4, <3>5
  <2>3. stats' \in [Hours \X Plants -> Nat]
    <3>1. stats' = [k \in Hours \X Plants |-> stats'[k]]
      BY <1>5 DEF RecalculateDirtyBuckets
    <3>2. ASSUME NEW k \in Hours \X Plants
          PROVE  stats'[k] \in Nat
      <4>1. PICK b \in Hours, p \in Plants : k = <<b, p>>
        OBVIOUS
      <4> QED  BY <4>1, <2>2
    <3> QED  BY <3>1, <3>2
  <2>4. NothingMissed'
    <3> SUFFICES ASSUME NEW b \in Hours, NEW p \in Plants
                 PROVE  stats'[<<b, p>>] = Cardinality(RowsIn(counted, Hour, b, p)')
      BY DEF NothingMissed
    <3>1. RowsIn(counted, Hour, b, p)' = RowsIn(counted \cup anRows, Hour, b, p)
      BY <2>1 DEF RowsIn
    <3> QED  BY <2>2, <3>1
  <2>5. counted' \subseteq Built' /\ IsFiniteSet(counted')
    BY <2>1, FS_Union DEF CountsExact, RowsTyped
  <2>6. \A c \in (counted \ anRows)' :
          /\ PastRetention(time_bucket(Day, created[c]))'
          /\ \A e \in anRows' : time_bucket(Day, created'[e]) # time_bucket(Day, created'[c])
    BY <2>1 DEF CountsExact, PastRetention
  <2>7. (anRows \ counted)' = {} /\ now' - lastCycle' <= MaxGap
    BY <2>1, <1>0
  <2> QED  BY <2>3, <2>4, <2>5, <2>6, <2>7 DEF CountsExact
\* A chunk goes with all its rows, and each was counted.
<1>6. ASSUME NEW d \in Days, DropChunk(d)
      PROVE  CountsExact'
  <2>1. /\ PastRetention(d) /\ UNCHANGED <<now, created, statVars>>
        /\ anRows' = {c \in anRows : time_bucket(Day, created[c]) # d} /\ Built' = Built
        /\ UNCHANGED <<stats, lastCycle, counted>>
    BY <1>6 DEF DropChunk, Built, statVars
  <2>2. ASSUME NEW c \in counted \ anRows'
        PROVE  /\ PastRetention(time_bucket(Day, created[c]))
               /\ \A e \in anRows' : time_bucket(Day, created[e]) # time_bucket(Day, created[c])
    <3>1. CASE c \in anRows
      BY <2>1, <3>1
    <3>2. CASE c \notin anRows
      BY <2>1, <3>2 DEF CountsExact
    <3> QED  BY <3>1, <3>2
  <2>3. NothingMissed'
    BY <2>1 DEF NothingMissed, CountsExact, RowsIn
  <2> QED  BY <2>1, <2>2, <2>3 DEF CountsExact, PastRetention
<1>7. ASSUME UNCHANGED <<now, created, anRows, statVars>>
      PROVE  CountsExact'
  <2>1. Built' = Built /\ now - lastCycle <= MaxGap
    BY <1>7 DEF Built, CountsExact
  <2> QED  BY <1>0, <1>1, <1>7, <2>1
<1> QED
  BY <1>2, <1>3, <1>4, <1>5, <1>6, <1>7
  DEF TablesNext, StoreOperational, ListEvents, NextPage, ListAgain, tableVars, rowVars

-----------------------------------------------------------------------------
(* Reports *)

\* The sizes of the parts of a set add up to its size, whatever the set is parted by.
LEMMA TotalOfParts ==
  ASSUME NEW S, IsFiniteSet(S), NEW count, NEW key \in [S -> DOMAIN count],
         \A k \in DOMAIN count : count[k] = Cardinality({x \in S : key[x] = k})
  PROVE  Total(count) = Cardinality(S)
<1> DEFINE Part(k) == {x \in S : key[x] = k}
           places == UNION {{k} \X (1..count[k]) : k \in DOMAIN count}
           listed == [k \in DOMAIN count |->
                        CHOOSE g : g \in Bijection(1..count[k], Part(k))]
           at == [z \in places |-> listed[z[1]][z[2]]]
<1>1. ASSUME NEW k \in DOMAIN count
      PROVE  /\ listed[k] \in [1..count[k] -> Part(k)]
             /\ \A i, j \in 1..count[k] : listed[k][i] = listed[k][j] => i = j
             /\ \A x \in Part(k) : \E i \in 1..count[k] : listed[k][i] = x
  <2>1. Part(k) \in SUBSET S
    OBVIOUS
  <2>2. IsFiniteSet(Part(k))
    BY <2>1, FS_Subset
  <2>3. ExistsBijection(1..Cardinality(Part(k)), Part(k))
    BY <2>2, FS_CardinalityType
  <2>4. \E g : g \in Bijection(1..count[k], Part(k))
    BY <2>3 DEF ExistsBijection
  <2> HIDE DEF Part
  <2>5. PICK f \in Bijection(1..count[k], Part(k)) : listed[k] = f
    BY <2>4
  <2>6. /\ f \in [1..count[k] -> Part(k)]
        /\ \A i, j \in 1..count[k] : f[i] = f[j] => i = j
        /\ \A x \in Part(k) : \E i \in 1..count[k] : f[i] = x
    BY DEF Bijection, Injection, IsInjective, Surjection
  <2> QED  BY <2>5, <2>6
<1> HIDE DEF listed
<1>2. ASSUME NEW z \in places
      PROVE  /\ z = <<z[1], z[2]>> /\ z[1] \in DOMAIN count /\ z[2] \in 1..count[z[1]]
             /\ at[z] \in Part(z[1])
  <2>1. PICK k \in DOMAIN count : z \in {k} \X (1..count[k])
    OBVIOUS
  <2>2. PICK i \in 1..count[k] : z = <<k, i>>
    BY <2>1
  <2>3. at[z] = listed[k][i]
    BY <2>2
  <2>4. at[z] \in Part(k)
    <3>1. listed[k] \in [1..count[k] -> Part(k)]
      BY <1>1
    <3> HIDE DEF Part, at
    <3> QED  BY <2>3, <3>1
  <2>5. z[1] = k /\ z[2] = i
    BY <2>2
  <2> QED  BY <2>2, <2>4, <2>5
<1>3. \A k \in DOMAIN count : \A i \in 1..count[k] : <<k, i>> \in places
  OBVIOUS
<1>4. at \in [places -> S]
  BY <1>2
<1>5. ASSUME NEW x \in S
      PROVE  \E z \in places : at[z] = x
  <2>1. key[x] \in DOMAIN count /\ x \in Part(key[x])
    OBVIOUS
  <2>2. PICK i \in 1..count[key[x]] : listed[key[x]][i] = x
    BY <2>1, <1>1
  <2>3. <<key[x], i>> \in places
    BY <2>1, <1>3
  <2>4. at[<<key[x], i>>] = x
    BY <2>2, <2>3
  <2> QED  BY <2>3, <2>4
<1>6. ASSUME NEW y \in places, NEW z \in places, at[y] = at[z]
      PROVE  y = z
  <2>1. y[1] = z[1]
    <3>1. at[y] \in Part(y[1]) /\ at[y] \in Part(z[1])
      BY <1>2, <1>6
    <3> QED  BY <3>1
  <2>2. listed[y[1]][y[2]] = listed[y[1]][z[2]]
    BY <1>6, <2>1
  <2>3. y[2] = z[2]
    BY <1>1, <1>2, <2>1, <2>2
  <2> QED  BY <1>2, <2>1, <2>3
<1> HIDE DEF at, places
<1>7. at \in Bijection(places, S)
  BY <1>4, <1>5, <1>6, Fun_IsBij
<1>8. ExistsBijection(S, places)
  BY <1>7, Fun_BijInverse DEF ExistsBijection
<1>9. Cardinality(places) = Cardinality(S)
  BY <1>8, FS_Bijection
<1> QED  BY <1>9 DEF Total, places

\* What a report has for a bucket are the rows of the bucket in its range, each under
\* its type.
LEMMA ReportCounts ==
  ASSUME RowsTyped, NEW w, NEW b, NEW p, NEW start, NEW end
  PROVE  Reported(Aggregation(w, p, start, end), b) =
           Cardinality(RowsIn(FindByTimeRange(start, end), w, b, p))
<1> DEFINE found == {c \in FindByTimeRange(start, end) : PlantOf[c] = p}
           Key(c) == <<time_bucket(w, created[c]), TypeOf[c]>>
           Line(k) == [bucket |-> k[1], type |-> k[2],
                       event_count |-> Cardinality({c \in found : Key(c) = k})]
           report == Aggregation(w, p, start, end)
           rows == RowsIn(FindByTimeRange(start, end), w, b, p)
           lines == {r \in report : r.bucket = b}
           key == [c \in rows |-> Line(Key(c))]
           count == [r \in lines |-> r.event_count]
<1>1. report = {Line(k) : k \in {Key(c) : c \in found}}
  BY DEF Aggregation
<1>2. rows = {c \in found : time_bucket(w, created[c]) = b}
  BY DEF RowsIn
<1>3. IsFiniteSet(rows)
  <2>1. rows \in SUBSET anRows
    BY DEF RowsIn, FindByTimeRange
  <2> QED  BY <2>1, FS_Subset DEF RowsTyped
<1> HIDE DEF found, report, rows
<1>4. \A c : /\ Line(Key(c)).bucket = time_bucket(w, created[c])
            /\ Line(Key(c)).type = TypeOf[c]
            /\ Line(Key(c)).event_count = Cardinality({d \in found : Key(d) = Key(c)})
  OBVIOUS
<1>5. \A c, d : Line(Key(d)) = Line(Key(c)) => Key(d) = Key(c)
  OBVIOUS
<1>6. key \in [rows -> lines]
  <2>1. ASSUME NEW c \in rows
        PROVE  Line(Key(c)) \in lines
    <3>1. c \in found /\ time_bucket(w, created[c]) = b
      BY <1>2
    <3>2. Line(Key(c)) \in report
      <4> HIDE DEF Line, Key
      <4> QED  BY <1>1, <3>1
    <3> QED  BY <1>4, <3>1, <3>2
  <2> HIDE DEF Line, lines
  <2> QED  BY <2>1
<1>7. ASSUME NEW r \in lines
      PROVE  r.event_count = Cardinality({c \in rows : key[c] = r})
  <2>1. PICK c \in found : r = Line(Key(c))
    BY <1>1
  <2>2. time_bucket(w, created[c]) = b
    BY <1>4, <2>1
  <2>3. ASSUME NEW d
        PROVE  d \in rows /\ key[d] = r <=> d \in found /\ Key(d) = Key(c)
    <3>1. CASE d \in rows /\ key[d] = r
      <4>1. d \in found /\ Line(Key(d)) = Line(Key(c))
        BY <1>2, <2>1, <3>1
      <4>2. Key(d) = Key(c)
        BY <1>5, <4>1
      <4> HIDE DEF Key, key
      <4> QED  BY <3>1, <4>1, <4>2
    <3>2. CASE d \in found /\ Key(d) = Key(c)
      <4>1. d \in rows
        BY <1>2, <2>2, <3>2
      <4> HIDE DEF Key, Line
      <4> QED  BY <2>1, <3>2, <4>1
    <3> HIDE DEF Key, Line, key, lines
    <3> QED  BY <3>1, <3>2
  <2>4. {d \in rows : key[d] = r} = {d \in found : Key(d) = Key(c)}
    <3> HIDE DEF Key, Line, key, lines
    <3> QED  BY <2>3
  <2>5. r.event_count = Cardinality({d \in found : Key(d) = Key(c)})
    <3> HIDE DEF Line, lines
    <3> QED  BY <1>4, <2>1
  <2> QED  BY <2>4, <2>5
<1>8. DOMAIN count = lines /\ \A r \in lines : count[r] = r.event_count
  OBVIOUS
<1>9. Total(count) = Cardinality(rows)
  <2> HIDE DEF key, count, lines
  <2> QED  BY <1>3, <1>6, <1>7, <1>8, TotalOfParts
<1> QED  BY <1>9 DEF Reported, report, rows

\* The rows of a day that were counted are parted by the hours of the day.
LEMMA HoursMakeDay ==
  ASSUME RowsTyped, CountsExact, NEW d \in Days, NEW p \in Plants
  PROVE  Total([b \in HoursOf(d) |-> stats[<<b, p>>]]) = Cardinality(RowsIn(counted, Day, d, p))
<1> DEFINE rows == RowsIn(counted, Day, d, p)
           count == [b \in HoursOf(d) |-> stats[<<b, p>>]]
           key == [c \in rows |-> time_bucket(Hour, created[c])]
<1>1. rows \in SUBSET counted /\ rows \subseteq Built
  BY DEF RowsIn, CountsExact
<1>2. IsFiniteSet(rows)
  BY <1>1, FS_Subset DEF CountsExact
<1>3. key \in [rows -> HoursOf(d)]
  <2>1. ASSUME NEW c \in rows
        PROVE  time_bucket(Hour, created[c]) \in HoursOf(d)
    <3>1. time_bucket(Day, created[c]) = d
      BY DEF RowsIn
    <3> QED  BY <1>1, <3>1, BucketOfBuilt DEF HoursOf
  <2> QED  BY <2>1
<1>4. ASSUME NEW b \in HoursOf(d)
      PROVE  count[b] = Cardinality({c \in rows : key[c] = b})
  <2>1. count[b] = Cardinality(RowsIn(counted, Hour, b, p))
    BY DEF CountsExact, NothingMissed, HoursOf
  <2>2. \A c \in counted : time_bucket(Hour, created[c]) = b => time_bucket(Day, created[c]) = d
    BY BucketOfBuilt DEF CountsExact, HoursOf
  <2>3. RowsIn(counted, Hour, b, p) = {c \in rows : time_bucket(Hour, created[c]) = b}
    BY <2>2 DEF RowsIn
  <2>4. {c \in rows : key[c] = b} = {c \in rows : time_bucket(Hour, created[c]) = b}
    OBVIOUS
  <2> QED  BY <2>1, <2>3, <2>4
<1> QED
  <2>1. DOMAIN count = HoursOf(d)
    OBVIOUS
  <2> HIDE DEF count, key, rows
  <2>2. Total(count) = Cardinality(rows)
    BY <1>2, <1>3, <1>4, <2>1, TotalOfParts
  <2> QED  BY <2>2 DEF count, rows

\* A bucket within a day d, of which every row that is left was counted: a report has
\* its rows in the range, all of them or, when the day has gone, none.
LEMMA BucketAsCounted ==
  ASSUME RowsTyped, CountsExact, NEW w \in Nat \ {0}, NEW b \in Int, NEW p, NEW d,
         \A c \in Built : time_bucket(w, created[c]) = b => time_bucket(Day, created[c]) = d,
         RowsIn(anRows, w, b, p) \subseteq counted,
         NEW start \in Int, NEW end \in Int
  PROVE  AsCounted(Reported(Aggregation(w, p, start, end), b),
                   Cardinality(RowsIn(counted, w, b, p)),
                   Whole(w, b, start, end), PastRetention(d))
<1> DEFINE found == RowsIn(FindByTimeRange(start, end), w, b, p)
           left == RowsIn(anRows, w, b, p)
           all == RowsIn(counted, w, b, p)
<1>1. /\ found \in SUBSET left /\ left \in SUBSET all /\ all \in SUBSET counted
      /\ found \in SUBSET all
  BY DEF RowsIn, FindByTimeRange
<1>2. IsFiniteSet(all) /\ IsFiniteSet(found)
  BY <1>1, FS_Subset DEF CountsExact
<1>3. Cardinality(found) <= Cardinality(all)
  BY <1>1, <1>2, FS_Subset
<1>4. ASSUME Whole(w, b, start, end)
      PROVE  found = left
  <2>1. ASSUME NEW c \in left
        PROVE  InRange(c, start, end)
    <3>1. c \in Built /\ time_bucket(w, created[c]) = b
      BY DEF RowsIn, RowsTyped
    <3>2. created[c] \in Int
      BY <3>1, BucketOfBuilt
    <3>3. b * w <= created[c] /\ created[c] <= b * w + w - 1
      BY <3>1, <3>2, Buckets DEF time_bucket
    <3>4. b * w \in Int
      OBVIOUS
    <3> QED  BY <1>4, <3>2, <3>3, <3>4 DEF Whole, InRange
  <2> QED  BY <2>1 DEF RowsIn, FindByTimeRange
\* Where a row has gone, its day has.
<1>5. ASSUME left # all
      PROVE  left = {} /\ PastRetention(d)
  <2>1. PICK c \in all : c \notin left
    BY <1>1, <1>5
  <2>2. c \in counted \ anRows /\ c \in Built /\ time_bucket(Day, created[c]) = d
    BY <2>1 DEF RowsIn, CountsExact
  <2>3. \A e \in left : e \in anRows /\ time_bucket(Day, created[e]) = d
    BY DEF RowsIn, RowsTyped
  <2> QED  BY <2>2, <2>3 DEF CountsExact
<1>6. Reported(Aggregation(w, p, start, end), b) = Cardinality(found)
  BY ReportCounts
<1>7. Cardinality({}) = 0
  BY FS_EmptySet
<1> HIDE DEF found, left, all
<1>8. Whole(w, b, start, end) =>
        Cardinality(found) = Cardinality(all) \/ (Cardinality(found) = 0 /\ PastRetention(d))
  BY <1>4, <1>5, <1>7
<1> QED  BY <1>3, <1>6, <1>8 DEF AsCounted, all

LEMMA ReportsAgree ==
  ASSUME RowsTyped, CountsExact
  PROVE  ReportAgreesWithStats
<1>0. Hour \in Nat \ {0} /\ Day \in Nat \ {0} /\ MaxTime \in Nat
  BY TablesAssumption
<1> SUFFICES ASSUME NEW p \in Plants, NEW start \in Times, NEW end \in start..MaxTime
             PROVE
  /\ \A b \in {b \in Hours : RowsIn(anRows, Hour, b, p) \subseteq counted} :
       AsCounted(Reported(GetHourlyAggregation(p, start, end), b), stats[<<b, p>>],
                 Whole(Hour, b, start, end), PastRetention(time_bucket(Day, b * Hour)))
  /\ \A d \in {d \in Days : RowsIn(anRows, Day, d, p) \subseteq counted} :
       AsCounted(Reported(GetDailyAggregation(p, start, end), d),
                 Total([b \in HoursOf(d) |-> stats[<<b, p>>]]),
                 Whole(Day, d, start, end), PastRetention(d))
  BY DEF ReportAgreesWithStats
<1>1. start \in Int /\ end \in Int
  BY <1>0 DEF Times
<1>2. ASSUME NEW b \in Hours, RowsIn(anRows, Hour, b, p) \subseteq counted
      PROVE  AsCounted(Reported(GetHourlyAggregation(p, start, end), b), stats[<<b, p>>],
                       Whole(Hour, b, start, end), PastRetention(time_bucket(Day, b * Hour)))
  <2>1. b \in Int
    BY <1>0 DEF Hours, Times, time_bucket
  <2>2. \A c \in Built : time_bucket(Hour, created[c]) = b =>
                          time_bucket(Day, created[c]) = time_bucket(Day, b * Hour)
    BY BucketOfBuilt
  <2>3. stats[<<b, p>>] = Cardinality(RowsIn(counted, Hour, b, p))
    BY DEF CountsExact, NothingMissed
  <2> QED  BY <1>0, <1>1, <1>2, <2>1, <2>2, <2>3, BucketAsCounted DEF GetHourlyAggregation
<1>3. ASSUME NEW d \in Days, RowsIn(anRows, Day, d, p) \subseteq counted
      PROVE  AsCounted(Reported(GetDailyAggregation(p, start, end), d),
                       Total([b \in HoursOf(d) |-> stats[<<b, p>>]]),
                       Whole(Day, d, start, end), PastRetention(d))
  <2>1. d \in Int
    BY <1>0 DEF Days, Times, time_bucket
  <2>2. AsCounted(Reported(Aggregation(Day, p, start, end), d),
                  Cardinality(RowsIn(counted, Day, d, p)),
                  Whole(Day, d, start, end), PastRetention(d))
    BY <1>0, <1>1, <1>3, <2>1, BucketAsCounted
  <2> QED  BY <2>2, HoursMakeDay DEF GetDailyAggregation
<1> QED  BY <1>2, <1>3

-----------------------------------------------------------------------------
(* The theorems *)

\* Rows, listings and statistics keep their invariants in every step.
THEOREM TablesHold == TablesSpec => [](RowsTyped /\ ListingInOrder /\ CountsExact)
<1> DEFINE Inv == RowsTyped /\ ListingInOrder /\ CountsExact
<1>1. TablesInit => Inv
  BY RowsTypedInit, NoListingInOrder, CountsExactInit DEF TablesInit
<1>2. Inv /\ [TablesNext]_tableVars => Inv'
  BY RowsTypedStep, ListingInOrderStep, CountsExactStep
<1> QED  BY <1>1, <1>2, PTL DEF TablesSpec

\* Every variable has its type, and the operational table one row for an id.
THEOREM TablesTypeCorrect == TablesSpec => []TablesTypeOK
<1>1. RowsTyped /\ ListingInOrder /\ CountsExact => TablesTypeOK
  <2> SUFFICES ASSUME RowsTyped, ListingInOrder, CountsExact
               PROVE  TablesTypeOK
    OBVIOUS
  <2>1. opRows \subseteq Copies
    BY DEF RowsTyped, Built
  <2>2. listing.seen \in Seq(Copies) /\ listing.present \subseteq Copies
    BY <2>1, SeqMonotonic DEF ListingInOrder
  <2> QED  BY <2>2 DEF RowsTyped, ListingInOrder, CountsExact, TablesTypeOK, Keyed
<1> QED  BY <1>1, TablesHold, PTL

\* The pages a client reads are in order and without repetition, and the last one
\* completes what was there when it began, whatever is inserted between them.
THEOREM PagesMakeOneListing == TablesSpec => []PagesAreOneListing
<1>1. ListingInOrder => PagesAreOneListing
  BY DEF ListingInOrder, InOrder, Read, PagesAreOneListing, ToSet
<1> QED  BY <1>1, TablesHold, PTL

\* With a window that covers the delay of a row and the gap between two cycles, the
\* statistics have every row there was in a cycle, those of dropped chunks included.
THEOREM CyclesMissNothing == TablesSpec => []NothingMissed
<1>1. CountsExact => NothingMissed
  BY DEF CountsExact
<1> QED  BY <1>1, TablesHold, PTL

\* A report over any range has for an hour or a day that is wholly in it what the
\* statistics have, or nothing when its chunk was dropped, and never more for one at the
\* edge, unless a row has come since the last cycle.
THEOREM ReportsAgreeWithStats == TablesSpec => []ReportAgreesWithStats
BY ReportsAgree, TablesHold, PTL
=============================================================================
