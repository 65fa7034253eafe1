------------------------- MODULE PageListingProofs -------------------------
(***************************************************************************)
(* What the listings promise a client that walks them or compares tokens,  *)
(* for any table, page size and number of writers.                         *)
(***************************************************************************)
EXTENDS PageListing, FiniteSetTheorems, TLAPS

Tables == [Ids -> Row]

\* u is t but for the row k, which is w.
Rewritten(t, k, w, u) ==
    u \in Tables /\ u[k] = w /\ \A i \in Ids \ {k} : u[i] = t[i]

\* The rows of S that a walk has behind it, and those that are still to come,
\* when its next page begins at row number o.
Behind(t, S, o) == {i \in S : Rank(t, i) < o}
ToCome(t, S, o) == {i \in S : Rank(t, i) >= o}

WalkOffset == Offset(walk.page, walk.size)

\* Rows the walk is past and did not get, and rows it got or will get again.
Skipped == Behind(rows, steady \ listed, WalkOffset)
Repeated == again \union ToCome(rows, listed, WalkOffset)

WalkInv ==
    /\ walk.at \in {"idle", "refused"} => listed = {} /\ again = {}
    /\ walk.at = "walking" =>
         /\ SizeIsServed(walk.size)
         /\ walk.page \in Nat \ {0}
         /\ steady \subseteq Listing(rows)
         /\ Cardinality(Skipped) <= left
         /\ Cardinality(Repeated) <= entered
    /\ walk.at = "done" =>
         /\ Cardinality(Missed) <= left
         /\ Cardinality(again) <= entered

\* No stamp is from the future, and a write's is not older than its row's.
StampInv ==
    /\ \A i \in Ids : rows[i].stamp <= second
    /\ writing # None =>
         rows[writing.id].stamp <= writing.row.stamp /\ writing.row.stamp <= second

\* A row that is late and not changed yet is the one being written, and what
\* changed without being late has a stamp from the bootstrap's second on.
TokenInv ==
    /\ sync = None => late = {}
    /\ sync # None => scene = "bootstrap"
    /\ late \ changed # {} => writing # None /\ late \ changed = {writing.id}
    /\ sync # None =>
         /\ sync.second <= second
         /\ \A p \in changed \ late : rows[p].stamp >= sync.second
         /\ writing # None /\ writing.id \notin late \ changed =>
              writing.row.stamp >= sync.second

IInv == ListingTypeOK /\ StampInv /\ WalkInv /\ TokenInv

-----------------------------------------------------------------------------
\* The order of a listing.

LEMMA Finite ==
    ASSUME NEW t \in Tables, NEW i \in Ids
    PROVE  /\ Listing(t) \subseteq Ids /\ IsFiniteSet(Listing(t))
           /\ Before(t, i) \subseteq Listing(t) /\ IsFiniteSet(Before(t, i))
           /\ Rank(t, i) \in Nat
           /\ Cardinality(Listing(t)) \in Nat /\ Cardinality(Ids) \in Nat
           /\ Cardinality(Listing(t)) <= Cardinality(Ids)
<1>1. Listing(t) \subseteq Ids /\ Before(t, i) \subseteq Listing(t)
  BY DEF Listing, Before
<1>2. IsFiniteSet(Ids)
  BY ListingAssumption
<1>3. IsFiniteSet(Listing(t)) /\ Cardinality(Listing(t)) <= Cardinality(Ids)
  BY <1>1, <1>2, FS_Subset
<1>4. IsFiniteSet(Before(t, i))
  BY <1>1, <1>3, FS_Subset
<1> QED  BY <1>1, <1>2, <1>3, <1>4, FS_CardinalityType DEF Rank

LEMMA Stamps ==
    ASSUME NEW t \in Tables, NEW i \in Ids
    PROVE  t[i] \in Row /\ t[i].stamp \in Nat /\ i \in Nat
BY ListingAssumption DEF Tables, Row

LEMMA AheadIsAnOrder ==
    ASSUME NEW t \in Tables, NEW i \in Ids, NEW j \in Ids
    PROVE  /\ ~Ahead(t, i, i)
           /\ i # j => Ahead(t, i, j) \/ Ahead(t, j, i)
           /\ \A k \in Ids : Ahead(t, i, j) /\ Ahead(t, j, k) => Ahead(t, i, k)
BY Stamps DEF Ahead

LEMMA RankOrder ==
    ASSUME NEW t \in Tables, NEW i \in Listing(t), NEW j \in Listing(t), Ahead(t, i, j)
    PROVE  Rank(t, i) < Rank(t, j)
<1>1. i \in Ids /\ j \in Ids
  BY DEF Listing
<1>2. i \notin Before(t, i) /\ Before(t, i) \union {i} \subseteq Before(t, j)
  BY <1>1, AheadIsAnOrder DEF Before, Listing
<1>3. IsFiniteSet(Before(t, i)) /\ IsFiniteSet(Before(t, j))
  BY <1>1, Finite
<1>4. Cardinality(Before(t, i) \union {i}) = Cardinality(Before(t, i)) + 1
  BY <1>2, <1>3, FS_AddElement
<1>5. Cardinality(Before(t, i) \union {i}) <= Cardinality(Before(t, j))
  BY <1>2, <1>3, FS_Subset
<1>6. Rank(t, i) \in Nat /\ Rank(t, j) \in Nat
  BY <1>1, Finite
<1> QED  BY <1>4, <1>5, <1>6 DEF Rank

LEMMA RankInjective ==
    ASSUME NEW t \in Tables, NEW i \in Listing(t), NEW j \in Listing(t),
           Rank(t, i) = Rank(t, j)
    PROVE  i = j
<1>1. i \in Ids /\ j \in Ids
  BY DEF Listing
<1>2. Rank(t, i) \in Nat
  BY <1>1, Finite
<1>3. ~Ahead(t, i, j) /\ ~Ahead(t, j, i)
  BY <1>2, RankOrder
<1> QED  BY <1>1, <1>3, AheadIsAnOrder

LEMMA RankBelowCount ==
    ASSUME NEW t \in Tables, NEW i \in Listing(t)
    PROVE  Rank(t, i) < Cardinality(Listing(t))
<1>1. i \in Ids
  BY DEF Listing
<1>2. i \notin Before(t, i) /\ Before(t, i) \union {i} \subseteq Listing(t)
  BY <1>1, AheadIsAnOrder DEF Before
<1>3. Cardinality(Before(t, i) \union {i}) = Cardinality(Before(t, i)) + 1
  BY <1>1, <1>2, Finite, FS_AddElement
<1>4. Cardinality(Before(t, i) \union {i}) <= Cardinality(Listing(t))
  BY <1>1, <1>2, Finite, FS_Subset
<1> QED  BY <1>1, <1>3, <1>4, Finite DEF Rank

\* A listing with rows in it has a first one, which every other row is behind.
LEMMA FirstRow ==
    ASSUME NEW t \in Tables, NEW p \in Listing(t)
    PROVE  \E m \in Listing(t) : Rank(t, m) = 0 /\ t[m].stamp >= t[p].stamp
<1> DEFINE L == Listing(t)
           n == Cardinality(L)
           f == [i \in L |-> Rank(t, i)]
<1>1. p \in Ids /\ \A i \in L : i \in Ids
  BY DEF Listing
<1>2. IsFiniteSet(L) /\ n \in Nat
  BY <1>1, Finite
<1>3. \A i \in L : Rank(t, i) \in Nat /\ Rank(t, i) < n
  BY <1>1, Finite, RankBelowCount
<1>4. n > 0
  BY <1>2, <1>3
<1>5. IsFiniteSet(0..(n - 1)) /\ Cardinality(0..(n - 1)) = n
  <2> HIDE DEF n
  <2> QED  BY <1>2, <1>4, FS_Interval
<1>6. f \in Injection(L, 0..(n - 1))
  <2>1. f \in [L -> 0..(n - 1)]
    BY <1>2, <1>3
  <2>2. \A i, j \in L : f[i] = f[j] => i = j
    BY RankInjective
  <2> HIDE DEF f
  <2> QED  BY <2>1, <2>2 DEF Injection, IsInjective
<1>7. f \in Surjection(L, 0..(n - 1))
  <2> HIDE DEF f, n, L
  <2> QED  BY <1>2, <1>5, <1>6, FS_Injection DEF n
<1>8. 0 \in 0..(n - 1)
  BY <1>2, <1>4
<1>9. PICK m \in L : f[m] = 0
  <2> HIDE DEF f, L
  <2> QED  BY <1>7, <1>8 DEF Surjection
<1>10. Rank(t, m) = 0
  BY <1>9
<1>11. m = p \/ Ahead(t, m, p)
  <2>1. ~Ahead(t, p, m)
    BY <1>1, <1>3, <1>10, RankOrder
  <2> QED  BY <1>1, <2>1, AheadIsAnOrder
<1>12. t[m].stamp >= t[p].stamp
  BY <1>1, <1>11, Stamps DEF Ahead
<1> QED  BY <1>10, <1>12

LEMMA OneMore ==
    ASSUME NEW A, NEW B, IsFiniteSet(B), \A x, y \in A \ B : x = y
    PROVE  IsFiniteSet(A) /\ Cardinality(A) <= Cardinality(B) + 1
<1>1. Cardinality(B) \in Nat
  BY FS_CardinalityType
<1>2. CASE A \subseteq B
  <2>1. IsFiniteSet(A) /\ Cardinality(A) <= Cardinality(B)
    BY <1>2, FS_Subset
  <2> QED  BY <1>1, <2>1, FS_CardinalityType
<1>3. CASE ~(A \subseteq B)
  <2>1. PICK x \in A \ B : TRUE
    BY <1>3
  <2>2. A \subseteq B \union {x}
    BY <2>1
  <2>3. IsFiniteSet(B \union {x}) /\ Cardinality(B \union {x}) = Cardinality(B) + 1
    BY <2>1, FS_AddElement
  <2> QED  BY <2>2, <2>3, FS_Subset
<1> QED  BY <1>2, <1>3

-----------------------------------------------------------------------------
\* What one written row does to the ranks of the others.

LEMMA OthersStay ==
    ASSUME NEW t \in Tables, NEW k \in Ids, NEW w \in Row,
           NEW u, Rewritten(t, k, w, u)
    PROVE  /\ u \in Tables /\ u[k] = w
           /\ \A i \in Ids \ {k} : u[i] = t[i] /\ (i \in Listing(u) <=> i \in Listing(t))
BY DEF Rewritten, Listing

LEMMA RankAfterWrite ==
    ASSUME NEW t \in Tables, NEW k \in Ids, NEW w \in Row, NEW i \in Ids \ {k},
           NEW u, Rewritten(t, k, w, u)
    PROVE  /\ Rank(t, i) - 1 <= Rank(u, i) /\ Rank(u, i) <= Rank(t, i) + 1
           /\ ~Matches(t[k]) => Rank(u, i) >= Rank(t, i)
           /\ ~Matches(w) => Rank(u, i) <= Rank(t, i)
           /\ Matches(w) /\ t[k].stamp <= w.stamp => Rank(u, i) >= Rank(t, i)
<1>1. /\ u \in Tables /\ u[k] = w
      /\ \A j \in Ids \ {k} : u[j] = t[j] /\ (j \in Listing(u) <=> j \in Listing(t))
  BY OthersStay
<1> DEFINE B == Before(t, i)
           C == Before(u, i)
<1>2. B \ {k} = C \ {k}
  BY <1>1 DEF Before, Ahead, Listing
<1>3. IsFiniteSet(B) /\ IsFiniteSet(C) /\ Cardinality(B) \in Nat /\ Cardinality(C) \in Nat
  BY <1>1, Finite, FS_CardinalityType
<1>4. /\ Cardinality(B \ {k}) = IF k \in B THEN Cardinality(B) - 1 ELSE Cardinality(B)
      /\ Cardinality(C \ {k}) = IF k \in C THEN Cardinality(C) - 1 ELSE Cardinality(C)
  <2> HIDE DEF B, C
  <2> QED  BY <1>3, FS_RemoveElement
<1>5. ~Matches(t[k]) => k \notin B
  BY DEF Before, Listing
<1>6. ~Matches(w) => k \notin C
  BY <1>1 DEF Before, Listing
<1>7. Matches(w) /\ t[k].stamp <= w.stamp /\ k \in B => k \in C
  <2> SUFFICES ASSUME Matches(w), t[k].stamp <= w.stamp, k \in B
               PROVE  k \in C
    OBVIOUS
  <2>1. k \in Listing(u)
    BY <1>1 DEF Listing
  <2>2. Ahead(t, k, i)
    BY DEF Before
  <2>3. t[k].stamp \in Nat /\ t[i].stamp \in Nat /\ w.stamp \in Nat
    BY Stamps DEF Row
  <2>4. Ahead(u, k, i)
    BY <1>1, <2>2, <2>3 DEF Ahead
  <2> QED  BY <2>1, <2>4 DEF Before
<1>8. Rank(t, i) = Cardinality(B) /\ Rank(u, i) = Cardinality(C)
  BY DEF Rank
<1>9. Cardinality(B \ {k}) = Cardinality(C \ {k})
  BY <1>2
<1> HIDE DEF B, C
<1>10. CASE k \in B /\ k \in C
  BY <1>3, <1>4, <1>5, <1>6, <1>8, <1>9, <1>10
<1>11. CASE k \in B /\ k \notin C
  BY <1>3, <1>4, <1>5, <1>7, <1>8, <1>9, <1>11
<1>12. CASE k \notin B /\ k \in C
  BY <1>3, <1>4, <1>6, <1>8, <1>9, <1>12
<1>13. CASE k \notin B /\ k \notin C
  BY <1>3, <1>4, <1>8, <1>9, <1>13
<1> QED  BY <1>10, <1>11, <1>12, <1>13

\* A write puts at most one row more behind a walk, and none unless its row
\* leaves the listing.
LEMMA BehindAfterWrite ==
    ASSUME NEW t \in Tables, NEW k \in Ids, NEW w \in Row, t[k].stamp <= w.stamp,
           NEW S, S \subseteq Listing(t), k \notin S, NEW o \in Int,
           NEW u, Rewritten(t, k, w, u)
    PROVE  /\ Cardinality(Behind(u, S, o)) <= Cardinality(Behind(t, S, o)) + 1
           /\ ~(Matches(t[k]) /\ ~Matches(w)) => Behind(u, S, o) \subseteq Behind(t, S, o)
<1>1. \A i \in S : i \in Ids \ {k} /\ i \in Listing(t)
  BY DEF Listing
<1>2. u \in Tables /\ \A i \in S : i \in Listing(u)
  BY <1>1, OthersStay
<1>3. \A i \in S : Rank(t, i) \in Nat /\ Rank(u, i) \in Nat
  BY <1>1, <1>2, Finite
<1>4. IsFiniteSet(S)
  BY <1>1, ListingAssumption, FS_Subset
<1>5. \A x, y \in Behind(u, S, o) \ Behind(t, S, o) : x = y
  <2> SUFFICES ASSUME NEW x \in Behind(u, S, o) \ Behind(t, S, o),
                      NEW y \in Behind(u, S, o) \ Behind(t, S, o)
               PROVE  x = y
    OBVIOUS
  <2>1. x \in S /\ y \in S
    BY DEF Behind
  <2>2. /\ Rank(u, x) < o /\ Rank(t, x) >= o /\ Rank(u, y) < o /\ Rank(t, y) >= o
    BY <1>3, <2>1 DEF Behind
  <2>3. Rank(u, x) >= Rank(t, x) - 1 /\ Rank(u, y) >= Rank(t, y) - 1
    BY <1>1, <1>3, <2>1, RankAfterWrite
  <2>4. Rank(u, x) = Rank(u, y)
    BY <1>3, <2>1, <2>2, <2>3
  <2> QED  BY <1>2, <2>1, <2>4, RankInjective
<1>6. IsFiniteSet(Behind(t, S, o))
  BY <1>4, FS_Subset DEF Behind
<1>7. Cardinality(Behind(u, S, o)) <= Cardinality(Behind(t, S, o)) + 1
  BY <1>5, <1>6, OneMore
<1>8. ASSUME ~(Matches(t[k]) /\ ~Matches(w))
      PROVE  Behind(u, S, o) \subseteq Behind(t, S, o)
  <2>1. \A i \in S : Rank(u, i) >= Rank(t, i)
    BY <1>1, <1>8, RankAfterWrite
  <2> QED  BY <1>3, <2>1 DEF Behind
<1> QED  BY <1>7, <1>8

\* A write puts at most one row that a walk is past in front of it again, and
\* none unless its row comes into the listing or to its front.
LEMMA ToComeAfterWrite ==
    ASSUME NEW t \in Tables, NEW k \in Ids, NEW w \in Row,
           NEW S, S \subseteq Listing(t), k \notin S, NEW o \in Int,
           NEW u, Rewritten(t, k, w, u), NEW A, IsFiniteSet(A)
    PROVE  /\ Cardinality(A \union ToCome(u, S, o)) <= Cardinality(A \union ToCome(t, S, o)) + 1
           /\ ~Matches(w) => ToCome(u, S, o) \subseteq ToCome(t, S, o)
<1>1. \A i \in S : i \in Ids \ {k} /\ i \in Listing(t)
  BY DEF Listing
<1>2. u \in Tables /\ \A i \in S : i \in Listing(u)
  BY <1>1, OthersStay
<1>3. \A i \in S : Rank(t, i) \in Nat /\ Rank(u, i) \in Nat
  BY <1>1, <1>2, Finite
<1>4. IsFiniteSet(S)
  BY <1>1, ListingAssumption, FS_Subset
<1>5. \A x, y \in ToCome(u, S, o) \ ToCome(t, S, o) : x = y
  <2> SUFFICES ASSUME NEW x \in ToCome(u, S, o) \ ToCome(t, S, o),
                      NEW y \in ToCome(u, S, o) \ ToCome(t, S, o)
               PROVE  x = y
    OBVIOUS
  <2>1. x \in S /\ y \in S
    BY DEF ToCome
  <2>2. /\ Rank(u, x) >= o /\ Rank(t, x) < o /\ Rank(u, y) >= o /\ Rank(t, y) < o
    BY <1>3, <2>1 DEF ToCome
  <2>3. Rank(u, x) <= Rank(t, x) + 1 /\ Rank(u, y) <= Rank(t, y) + 1
    BY <1>1, <1>3, <2>1, RankAfterWrite
  <2>4. Rank(u, x) = Rank(u, y)
    BY <1>3, <2>1, <2>2, <2>3
  <2> QED  BY <1>2, <2>1, <2>4, RankInjective
<1>6. IsFiniteSet(A \union ToCome(t, S, o))
  BY <1>4, FS_Subset, FS_Union DEF ToCome
<1>7. Cardinality(A \union ToCome(u, S, o)) <= Cardinality(A \union ToCome(t, S, o)) + 1
  BY <1>5, <1>6, OneMore
<1>8. ASSUME ~Matches(w)
      PROVE  ToCome(u, S, o) \subseteq ToCome(t, S, o)
  <2>1. \A i \in S : Rank(u, i) <= Rank(t, i)
    BY <1>1, <1>8, RankAfterWrite
  <2> QED  BY <1>3, <2>1 DEF ToCome
<1> QED  BY <1>7, <1>8

-----------------------------------------------------------------------------
\* The invariant.

LEMMA PrimedViews ==
    /\ Skipped' = Behind(rows', steady' \ listed', Offset(walk'.page, walk'.size))
    /\ Repeated' = again' \union ToCome(rows', listed', Offset(walk'.page, walk'.size))
BY DEF Skipped, Repeated, WalkOffset, Behind, ToCome, Offset, Rank, Before, Listing, Ahead,
       Matches

LEMMA InitInv == ListingInit => IInv
<1> SUFFICES ASSUME ListingInit PROVE IInv
  OBVIOUS
<1>1. ListingTypeOK
  <2>1. rows \in [Ids -> Row]
    BY DEF ListingInit, Absent, Row
  <2>2. walk \in Walk
    BY DEF ListingInit, Walk
  <2> QED  BY <2>1, <2>2 DEF ListingInit, ListingTypeOK
<1>2. StampInv
  BY DEF ListingInit, StampInv, Absent
<1>3. WalkInv
  BY DEF ListingInit, WalkInv
<1>4. TokenInv
  BY DEF ListingInit, TokenInv
<1> QED  BY <1>1, <1>2, <1>3, <1>4 DEF IInv

\* What the writers write.
LEMMA WrittenRows ==
    ASSUME IInv, NEW i \in Ids, NEW w, \/ \E hit \in BOOLEAN : w = Fresh(hit)
                                      \/ /\ rows[i].status = "active"
                                         /\ \E hit \in BOOLEAN : w = Touched(i, hit)
                                      \/ w = [rows[i] EXCEPT !.status = "deleted", !.stamp = second]
    PROVE  w \in Row /\ w.stamp = second /\ rows[i].stamp <= w.stamp
<1>1. rows[i] \in Row /\ second \in Nat /\ rows[i].stamp <= second
  BY DEF IInv, ListingTypeOK, StampInv
<1>2. CASE \E hit \in BOOLEAN : w = Fresh(hit)
  BY <1>1, <1>2 DEF Row, Fresh
<1>3. CASE rows[i].status = "active" /\ \E hit \in BOOLEAN : w = Touched(i, hit)
  BY <1>1, <1>3 DEF Row, Touched
<1>4. CASE w = [rows[i] EXCEPT !.status = "deleted", !.stamp = second]
  BY <1>1, <1>4 DEF Row
<1> QED  BY <1>2, <1>3, <1>4

LEMMA BeginInv ==
    ASSUME IInv, NEW i \in Ids, NEW w \in Row, rows[i].stamp <= w.stamp,
           w.stamp = second \/ (w.stamp <= second /\ scene # "bootstrap"), Begin(i, w)
    PROVE  IInv'
<1> USE DEF Begin, walkHistory, syncVars
<1>1. ListingTypeOK'
  BY DEF IInv, ListingTypeOK, Write
<1>2. StampInv'
  <2>1. writing' = [id |-> i, row |-> w] /\ rows' = rows /\ second' = second /\ second \in Nat
    BY DEF IInv, ListingTypeOK
  <2> QED  BY <2>1 DEF IInv, StampInv
<1>3. WalkInv'
  <2>1. Skipped' = Skipped /\ Repeated' = Repeated
    BY PrimedViews DEF Skipped, Repeated, WalkOffset
  <2>2. Listing(rows)' = Listing(rows)
    BY DEF Listing, Matches
  <2> QED  BY <2>1, <2>2 DEF IInv, WalkInv, Missed, SizeIsServed
<1>4. TokenInv'
  <2>1. writing' = [id |-> i, row |-> w] /\ writing' # None
    BY NoneAssumption DEF Write
  <2> QED  BY <2>1 DEF IInv, TokenInv, ListingTypeOK, Sync
<1> QED  BY <1>1, <1>2, <1>3, <1>4 DEF IInv

LEMMA WriterBegins ==
    ASSUME IInv, NEW i \in Ids, Insert(i) \/ Update(i) \/ Delete(i) \/ Reindex(i)
    PROVE  IInv'
<1>1. CASE Insert(i)
  <2>1. PICK hit \in BOOLEAN : Begin(i, Fresh(hit))
    BY <1>1 DEF Insert
  <2> QED  BY <2>1, WrittenRows, BeginInv
<1>2. CASE Update(i)
  <2>1. PICK hit \in BOOLEAN : Begin(i, Touched(i, hit))
    BY <1>2 DEF Update
  <2>2. rows[i].status = "active"
    BY <1>2 DEF Update
  <2> QED  BY <2>1, <2>2, WrittenRows, BeginInv
<1>3. CASE Delete(i)
  BY <1>3, WrittenRows, BeginInv DEF Delete
<1>4. CASE Reindex(i)
  <2> DEFINE w == Reindexed(i, ~rows[i].hit)
  <2>1. rows[i] \in Row /\ rows[i].stamp \in Nat /\ rows[i].stamp <= second
    BY DEF IInv, ListingTypeOK, StampInv, Row
  <2>2. w \in Row /\ w.stamp = rows[i].stamp
    BY <2>1 DEF Reindexed, Row
  <2>3. Begin(i, w) /\ scene # "bootstrap"
    BY <1>4 DEF Reindex
  <2> HIDE DEF w
  <2> QED  BY <2>1, <2>2, <2>3, BeginInv
<1> QED  BY <1>1, <1>2, <1>3, <1>4

LEMMA CountedIsMore ==
    ASSUME NEW n \in Nat, NEW happens \in BOOLEAN
    PROVE  /\ Counted(n, happens) \in Nat /\ n <= Counted(n, happens)
           /\ happens /\ walk.at = "walking" =>
                Counted(n, happens) = n + 1 \/ Cardinality(Ids) <= Counted(n, happens)
<1>1. Cardinality(Ids) \in Nat
  BY ListingAssumption, FS_CardinalityType
<1>2. CASE happens /\ walk.at = "walking" /\ n < Cardinality(Ids)
  BY <1>2 DEF Counted
<1>3. CASE ~(happens /\ walk.at = "walking" /\ n < Cardinality(Ids))
  <2>1. Counted(n, happens) = n
    BY <1>3 DEF Counted
  <2> QED  BY <1>1, <1>3, <2>1
<1> QED  BY <1>2, <1>3

\* The histories are finite: they are sets of ids.
LEMMA Histories ==
    ASSUME ListingTypeOK
    PROVE  \A S \in SUBSET Ids : /\ IsFiniteSet(S) /\ Cardinality(S) \in Nat
                                 /\ Cardinality(S) <= Cardinality(Ids)
                                 /\ \A T \in SUBSET S : Cardinality(T) <= Cardinality(S)
BY ListingAssumption, FS_Subset, FS_CardinalityType

LEMMA ViewsAreOfIds ==
    ASSUME NEW t, NEW S \in SUBSET Ids, NEW o
    PROVE  Behind(t, S, o) \in SUBSET Ids /\ ToCome(t, S, o) \in SUBSET Ids
BY DEF Behind, ToCome

\* The row a commit puts in place.
LEMMA CommittedRow ==
    ASSUME IInv, Commit
    PROVE  /\ writing \in Write /\ writing.id \in Ids /\ writing.row \in Row
           /\ rows \in Tables /\ rows[writing.id].stamp <= writing.row.stamp
           /\ Rewritten(rows, writing.id, writing.row, rows')
<1>1. writing \in Write /\ writing.id \in Ids /\ writing.row \in Row
  BY DEF IInv, ListingTypeOK, Commit, Write
<1>2. rows \in Tables
  BY DEF IInv, ListingTypeOK, Tables
<1>3. Rewritten(rows, writing.id, writing.row, rows')
  BY <1>1, <1>2 DEF Commit, Rewritten, Tables
<1> QED  BY <1>1, <1>2, <1>3 DEF IInv, StampInv, Commit

LEMMA CommitWalk ==
    ASSUME IInv, Commit
    PROVE  WalkInv'
<1> DEFINE k == writing.id
           w == writing.row
           o == WalkOffset
           S == (steady \ {k}) \ (listed \ {k})
           leaves == Matches(rows[k]) /\ ~Matches(w)
<1>1. /\ k \in Ids /\ w \in Row /\ rows \in Tables /\ rows[k].stamp <= w.stamp
      /\ Rewritten(rows, k, w, rows')
  BY CommittedRow
<1>2. /\ steady \in SUBSET Ids /\ listed \in SUBSET steady /\ again \in SUBSET listed
      /\ left \in Nat /\ entered \in Nat /\ walk \in Walk
  BY DEF IInv, ListingTypeOK
<1>3. /\ steady' = steady \ {k} /\ listed' = listed \ {k} /\ again' = again \ {k}
      /\ left' = Counted(left, leaves) /\ entered' = Counted(entered, Matches(w))
      /\ walk' = walk
  BY DEF Commit
<1>4. leaves \in BOOLEAN /\ Matches(w) \in BOOLEAN
  BY <1>1 DEF Matches, Row
<1>5. /\ left' \in Nat /\ left <= left' /\ entered' \in Nat /\ entered <= entered'
      /\ leaves /\ walk.at = "walking" => left' = left + 1 \/ Cardinality(Ids) <= left'
      /\ Matches(w) /\ walk.at = "walking" =>
           entered' = entered + 1 \/ Cardinality(Ids) <= entered'
  <2> HIDE DEF leaves
  <2> QED  BY <1>2, <1>3, <1>4, CountedIsMore
<1>6. walk'.at \in {"idle", "refused"} => listed' = {} /\ again' = {}
  BY <1>3 DEF IInv, WalkInv
<1>7. ASSUME walk'.at = "walking"
      PROVE  /\ SizeIsServed(walk.size)' /\ walk'.page \in Nat \ {0}
             /\ steady' \subseteq Listing(rows)'
             /\ Cardinality(Skipped)' <= left'
             /\ Cardinality(Repeated)' <= entered'
  <2>1. /\ walk.at = "walking" /\ SizeIsServed(walk.size) /\ walk.page \in Nat \ {0}
        /\ steady \subseteq Listing(rows)
        /\ Cardinality(Skipped) <= left /\ Cardinality(Repeated) <= entered
    BY <1>3, <1>7 DEF IInv, WalkInv
  <2>2. o \in Int
    BY <1>2 DEF WalkOffset, Offset, Walk
  <2>3. S \subseteq Listing(rows) /\ k \notin S /\ S \subseteq steady \ listed
        /\ (listed \ {k}) \subseteq Listing(rows) /\ k \notin listed \ {k}
    BY <1>2, <2>1
  <2>4. steady' \subseteq Listing(rows')
    BY <1>1, <1>3, <2>1, OthersStay DEF Listing
  <2>5. Skipped' = Behind(rows', S, o)
    BY <1>3, PrimedViews DEF WalkOffset
  <2>6. Behind(rows, S, o) \subseteq Skipped
    BY <2>3 DEF Behind, Skipped
  <2>7. /\ Skipped \in SUBSET Ids /\ Skipped' \in SUBSET Ids
        /\ Behind(rows, S, o) \in SUBSET Ids
    <3>1. S \in SUBSET Ids
      BY <1>2
    <3> HIDE DEF S
    <3> QED  BY <1>2, <2>5, <3>1, ViewsAreOfIds DEF Skipped
  <2>8. /\ Cardinality(Behind(rows', S, o)) <= Cardinality(Behind(rows, S, o)) + 1
        /\ ~leaves => Behind(rows', S, o) \subseteq Behind(rows, S, o)
    <3> HIDE DEF S, k, w, o
    <3> QED  BY <1>1, <2>2, <2>3, BehindAfterWrite DEF leaves
  <2>9. Cardinality(Skipped') <= left'
    <3>1. Cardinality(Behind(rows, S, o)) <= left
      <4>1. /\ Cardinality(Behind(rows, S, o)) <= Cardinality(Skipped)
            /\ Cardinality(Behind(rows, S, o)) \in Nat /\ Cardinality(Skipped) \in Nat
        <5> HIDE DEF S, o
        <5> QED  BY <2>6, <2>7, Histories DEF IInv
      <4> HIDE DEF S, o
      <4> QED  BY <1>2, <2>1, <4>1
    <3>2. CASE leaves
      <4>1. Cardinality(Skipped') <= left + 1
        <5>1. Cardinality(Skipped') \in Nat /\ Cardinality(Behind(rows, S, o)) \in Nat
          <6> HIDE DEF S, o
          <6> QED  BY <2>7, Histories DEF IInv
        <5>2. Cardinality(Skipped') <= Cardinality(Behind(rows, S, o)) + 1
          BY <2>5, <2>8
        <5> HIDE DEF S, o
        <5> QED  BY <1>2, <3>1, <5>1, <5>2
      <4>2. Cardinality(Skipped') <= Cardinality(Ids) /\ Cardinality(Ids) \in Nat
        BY <2>7, Histories DEF IInv
      <4>3. Cardinality(Skipped') \in Nat
        BY <2>7, Histories DEF IInv
      <4> QED  BY <1>2, <1>5, <2>1, <3>2, <4>1, <4>2, <4>3
    <3>3. CASE ~leaves
      <4>1. Skipped' \in SUBSET Behind(rows, S, o)
        BY <2>5, <2>8, <3>3
      <4>2. Cardinality(Skipped') <= Cardinality(Behind(rows, S, o))
        BY <2>7, <4>1, Histories DEF IInv
      <4>3. Cardinality(Skipped') \in Nat /\ Cardinality(Behind(rows, S, o)) \in Nat
        BY <2>7, Histories DEF IInv
      <4> HIDE DEF S, o
      <4> QED  BY <1>2, <1>5, <3>1, <4>2, <4>3
    <3> QED  BY <3>2, <3>3
  <2> DEFINE L == listed \ {k}
             A == again \ {k}
             R == A \union ToCome(rows, L, o)
  <2>10. Repeated' = A \union ToCome(rows', L, o)
    BY <1>3, PrimedViews DEF WalkOffset
  <2>11. R \subseteq Repeated
    BY DEF ToCome, Repeated
  <2>12. /\ A \in SUBSET Ids /\ R \in SUBSET Ids /\ Repeated' \in SUBSET Ids
         /\ Repeated \in SUBSET Ids
    <3>1. A \in SUBSET Ids /\ L \in SUBSET Ids
      BY <1>2
    <3>2. /\ ToCome(rows, L, o) \in SUBSET Ids /\ ToCome(rows', L, o) \in SUBSET Ids
          /\ ToCome(rows, listed, o) \in SUBSET Ids
      <4> HIDE DEF L
      <4> QED  BY <1>2, <3>1, ViewsAreOfIds
    <3> HIDE DEF L, A
    <3> QED  BY <1>2, <2>10, <3>1, <3>2 DEF Repeated
  <2>13. IsFiniteSet(A)
    BY <2>12, Histories DEF IInv
  <2>14. /\ Cardinality(A \union ToCome(rows', L, o)) <= Cardinality(R) + 1
         /\ ~Matches(w) => ToCome(rows', L, o) \subseteq ToCome(rows, L, o)
    <3>1. L \subseteq Listing(rows) /\ k \notin L
      BY <2>3
    <3> HIDE DEF L, A, k, w, o
    <3> QED  BY <1>1, <2>2, <2>13, <3>1, ToComeAfterWrite
  <2>15. Cardinality(Repeated') <= entered'
    <3>1. Cardinality(R) <= entered
      <4>1. Cardinality(R) <= Cardinality(Repeated)
        BY <2>11, <2>12, Histories DEF IInv
      <4>2. Cardinality(R) \in Nat /\ Cardinality(Repeated) \in Nat
        BY <2>12, Histories DEF IInv
      <4> HIDE DEF R
      <4> QED  BY <1>2, <2>1, <4>1, <4>2
    <3>2. CASE Matches(w)
      <4>1. Cardinality(Repeated') <= Cardinality(R) + 1
        BY <2>10, <2>14
      <4>2. Cardinality(Repeated') <= Cardinality(Ids) /\ Cardinality(Ids) \in Nat
        BY <2>12, Histories DEF IInv
      <4>3. Cardinality(Repeated') \in Nat /\ Cardinality(R) \in Nat
        BY <2>12, Histories DEF IInv
      <4> HIDE DEF R
      <4> QED  BY <1>2, <1>5, <2>1, <3>1, <3>2, <4>1, <4>2, <4>3
    <3>3. CASE ~Matches(w)
      <4>1. Repeated' \in SUBSET R
        BY <2>10, <2>14, <3>3
      <4>2. Cardinality(Repeated') <= Cardinality(R)
        BY <2>12, <4>1, Histories DEF IInv
      <4>3. Cardinality(Repeated') \in Nat /\ Cardinality(R) \in Nat
        BY <2>12, Histories DEF IInv
      <4> HIDE DEF R
      <4> QED  BY <1>2, <1>5, <3>1, <4>2, <4>3
    <3> QED  BY <3>2, <3>3
  <2> QED  BY <1>3, <2>1, <2>4, <2>9, <2>15 DEF SizeIsServed, Listing, Matches
<1>8. walk'.at = "done" => Cardinality(Missed)' <= left' /\ Cardinality(again)' <= entered'
  <2> SUFFICES ASSUME walk'.at = "done"
               PROVE  Cardinality(Missed') <= left' /\ Cardinality(again') <= entered'
    OBVIOUS
  <2>1. Cardinality(Missed) <= left /\ Cardinality(again) <= entered
    BY <1>3 DEF IInv, WalkInv
  <2>2. Missed' \subseteq Missed /\ again' \subseteq again
    BY <1>3 DEF Missed
  <2>3. Missed \in SUBSET Ids /\ again \in SUBSET Ids
    BY <1>2 DEF Missed
  <2>4. /\ Cardinality(Missed') <= Cardinality(Missed) /\ Cardinality(again') <= Cardinality(again)
        /\ Cardinality(Missed) \in Nat /\ Cardinality(again) \in Nat
        /\ Cardinality(Missed') \in Nat /\ Cardinality(again') \in Nat
    BY <2>2, <2>3, Histories DEF IInv
  <2> QED  BY <1>2, <1>5, <2>1, <2>4
<1> QED  BY <1>6, <1>7, <1>8 DEF WalkInv

LEMMA CommitInv ==
    ASSUME IInv, Commit
    PROVE  IInv'
<1> DEFINE k == writing.id
           w == writing.row
<1>1. /\ k \in Ids /\ w \in Row /\ rows \in Tables /\ rows[k].stamp <= w.stamp
      /\ Rewritten(rows, k, w, rows')
  BY CommittedRow
<1>2. ListingTypeOK'
  <2>1. left' \in Nat /\ entered' \in Nat
    <3>1. /\ left \in Nat /\ entered \in Nat
          /\ (Matches(rows[k]) /\ ~Matches(w)) \in BOOLEAN /\ Matches(w) \in BOOLEAN
      BY <1>1 DEF IInv, ListingTypeOK, Matches, Row
    <3>2. /\ left' = Counted(left, Matches(rows[k]) /\ ~Matches(w))
          /\ entered' = Counted(entered, Matches(w))
      BY DEF Commit
    <3> QED  BY <3>1, <3>2, CountedIsMore
  <2>2. rows' \in [Ids -> Row]
    BY <1>1 DEF Rewritten, Tables
  <2> QED  BY <1>1, <2>1, <2>2 DEF IInv, ListingTypeOK, Commit
<1>3. StampInv'
  <2>1. w.stamp <= second /\ second' = second /\ writing' = None
    BY DEF Commit, IInv, StampInv
  <2> QED  BY <1>1, <2>1 DEF IInv, StampInv, Rewritten
<1>4. TokenInv'
  <2>1. /\ changed' = (IF sync = None THEN changed ELSE changed \union {k})
        /\ late' = late \ (changed \intersect {k}) /\ sync' = sync /\ second' = second
        /\ writing' = None /\ writing # None /\ scene' = scene
    BY DEF Commit
  <2>2. /\ late \ changed # {} => late \ changed = {k}
        /\ sync = None => late = {}
    BY DEF IInv, TokenInv
  <2>3. (late \ changed)' = {}
    BY <2>1, <2>2
  <2>4. ASSUME sync # None, NEW p \in (changed \ late)'
        PROVE  rows'[p].stamp >= sync.second
    <3>1. CASE p = k
      <4>1. k \notin late \ changed
        BY <2>1, <2>4, <3>1
      <4> QED  BY <1>1, <2>1, <2>4, <3>1, <4>1 DEF IInv, TokenInv, Rewritten
    <3>2. CASE p # k
      <4>1. p \in changed \ late /\ p \in Ids
        BY <2>1, <2>4, <3>2 DEF IInv, ListingTypeOK
      <4> QED  BY <1>1, <2>4, <3>2, <4>1 DEF IInv, TokenInv, Rewritten
    <3> QED  BY <3>1, <3>2
  <2> QED  BY <2>1, <2>2, <2>3, <2>4 DEF IInv, TokenInv
<1> QED  BY <1>2, <1>3, <1>4, CommitWalk DEF IInv

\* The steps that move neither the table nor the walk.
LEMMA WalkStays ==
    ASSUME IInv, UNCHANGED <<rows, walk, walkHistory>>
    PROVE  WalkInv'
<1>1. Skipped' = Skipped /\ Repeated' = Repeated
  BY PrimedViews DEF Skipped, Repeated, WalkOffset, walkHistory
<1>2. Listing(rows)' = Listing(rows)
  BY DEF Listing, Matches
<1> QED  BY <1>1, <1>2 DEF IInv, WalkInv, Missed, SizeIsServed, walkHistory

LEMMA RollbackInv ==
    ASSUME IInv, Rollback
    PROVE  IInv'
<1> USE DEF Rollback, walkHistory
<1>1. ListingTypeOK'
  BY DEF IInv, ListingTypeOK
<1>2. StampInv'
  BY DEF IInv, StampInv
<1>3. WalkInv'
  BY WalkStays
<1>4. TokenInv'
  BY DEF IInv, TokenInv
<1> QED  BY <1>1, <1>2, <1>3, <1>4 DEF IInv

LEMMA TickInv ==
    ASSUME IInv, Tick
    PROVE  IInv'
<1> USE DEF Tick, walkHistory, syncVars, table
<1>1. second \in Nat /\ second' = second + 1
  BY DEF IInv, ListingTypeOK
<1>2. ListingTypeOK'
  BY <1>1 DEF IInv, ListingTypeOK
<1>3. StampInv'
  <2>1. \A i \in Ids : rows[i].stamp \in Nat
    BY DEF IInv, ListingTypeOK, Row
  <2>2. writing # None => writing.row.stamp \in Nat
    BY DEF IInv, ListingTypeOK, Row, Write
  <2> QED  BY <1>1, <2>1, <2>2 DEF IInv, StampInv
<1>4. WalkInv'
  BY WalkStays
<1>5. TokenInv'
  BY <1>1 DEF IInv, TokenInv, ListingTypeOK, Sync
<1> QED  BY <1>2, <1>3, <1>4, <1>5 DEF IInv

LEMMA BootstrapInv ==
    ASSUME IInv, Bootstrap
    PROVE  IInv'
<1> USE DEF Bootstrap, walkHistory, table
<1>1. PICK s \in 0..second : sync' = [token |-> s, second |-> second]
  OBVIOUS
<1>2. second \in Nat
  BY DEF IInv, ListingTypeOK
<1>3. sync' \in Sync
  BY <1>1, <1>2 DEF Sync
<1>4. writing = None \/ writing.id \in Ids
  BY DEF IInv, ListingTypeOK, Write
<1>5. ListingTypeOK'
  BY <1>3, <1>4 DEF IInv, ListingTypeOK
<1>6. StampInv'
  BY DEF IInv, StampInv
<1>7. WalkInv'
  BY WalkStays
<1>8. TokenInv'
  <2>1. sync' # None
    BY <1>3, NoneAssumption
  <2> QED  BY <1>1, <1>2, <2>1 DEF TokenInv
<1> QED  BY <1>5, <1>6, <1>7, <1>8 DEF IInv

LEMMA StartWalkInv ==
    ASSUME IInv, NEW size \in Sizes, StartWalk(size)
    PROVE  IInv'
<1> USE DEF StartWalk, syncVars, table
<1>1. /\ rows \in Tables /\ listed = {} /\ again = {} /\ Listing(rows) \subseteq Ids
  BY DEF IInv, ListingTypeOK, WalkInv, Tables, Listing
<1>2. size \in Int
  BY ListingAssumption
<1>3. ListingTypeOK'
  BY <1>1, <1>2 DEF IInv, ListingTypeOK, Walk
<1>4. StampInv'
  BY DEF IInv, StampInv
<1>5. WalkInv'
  <2>1. CASE SizeIsServed(size)
    <3>1. walk' = [at |-> "walking", size |-> size, page |-> 1] /\ steady' = Listing(rows)
      BY <2>1
    <3>2. Offset(1, size) = 0
      BY <1>2 DEF Offset
    <3>3. Skipped' = Behind(rows, Listing(rows), 0)
      BY <1>1, <3>1, <3>2, PrimedViews
    <3>4. Behind(rows, Listing(rows), 0) = {}
      BY <1>1, Finite DEF Behind
    <3>5. Repeated' = {}
      BY <1>1, PrimedViews DEF ToCome
    <3>6. Cardinality(Skipped') = 0 /\ Cardinality(Repeated') = 0
      BY <3>3, <3>4, <3>5, FS_EmptySet
    <3>7. steady' \subseteq Listing(rows)' /\ SizeIsServed(walk.size)'
      BY <2>1, <3>1 DEF SizeIsServed, Listing, Matches
    <3> QED  BY <3>1, <3>6, <3>7 DEF WalkInv
  <2>2. CASE ~SizeIsServed(size)
    BY <1>1, <2>2 DEF WalkInv
  <2> QED  BY <2>1, <2>2
<1>6. TokenInv'
  BY DEF IInv, TokenInv
<1> QED  BY <1>3, <1>4, <1>5, <1>6 DEF IInv

\* Where the page after begins.
LEMMA NextOffset ==
    ASSUME NEW page \in Nat \ {0}, NEW size \in Nat \ {0}
    PROVE  /\ Offset(page, size) \in Nat
           /\ Offset(page + 1, size) = Offset(page, size) + size
           /\ page <= Offset(page, size) + size
<1>1. PICK n \in Nat : page = n + 1
  <2>1. page - 1 \in Nat /\ page = (page - 1) + 1
    OBVIOUS
  <2> QED  BY <2>1
<1>2. n * size \in Nat /\ n <= n * size /\ (n + 1) * size = n * size + size
  OBVIOUS
<1>3. Offset(page, size) = n * size /\ Offset(page + 1, size) = (n + 1) * size
  BY <1>1 DEF Offset
<1> QED  BY <1>1, <1>2, <1>3

LEMMA FetchPageInv ==
    ASSUME IInv, FetchPage
    PROVE  IInv'
<1> DEFINE slice == steady \intersect Slice(rows, walk.page, walk.size)
           o == WalkOffset
           more == HasMore(rows, walk.page, walk.size)
<1> USE DEF syncVars, table
<1>1. /\ walk \in Walk /\ rows \in Tables /\ left \in Nat /\ entered \in Nat
      /\ steady \in SUBSET Ids /\ listed \in SUBSET steady /\ again \in SUBSET listed
  BY DEF IInv, ListingTypeOK, Tables
<1>2. /\ walk.at = "walking" /\ walk.page \in Nat \ {0} /\ walk.size \in Nat \ {0}
      /\ steady \subseteq Listing(rows) /\ SizeIsServed(walk.size)
      /\ Cardinality(Skipped) <= left /\ Cardinality(Repeated) <= entered
  BY ListingAssumption DEF FetchPage, IInv, WalkInv, SizeIsServed
<1>3. /\ listed' = listed \union slice /\ again' = again \union (listed \intersect slice)
      /\ rows' = rows /\ steady' = steady /\ left' = left /\ entered' = entered
      /\ walk' = IF more THEN [walk EXCEPT !.page = PageAfter(@)] ELSE [walk EXCEPT !.at = "done"]
  BY DEF FetchPage
<1>4. /\ o \in Nat /\ Offset(walk.page + 1, walk.size) = o + walk.size
      /\ walk.page <= o + walk.size
  BY <1>2, NextOffset DEF WalkOffset
<1>5. \A i \in steady : Rank(rows, i) \in Nat /\ i \in Listing(rows)
  BY <1>1, <1>2, Finite
<1>6. \A i \in steady : i \in slice <=> o <= Rank(rows, i) /\ Rank(rows, i) < o + walk.size
  BY <1>2, <1>4, <1>5 DEF Slice, WalkOffset
<1>7. \A i \in steady \ listed' : Rank(rows, i) < o + walk.size => i \in Skipped
  BY <1>3, <1>4, <1>5, <1>6 DEF Skipped, Behind
<1>8. /\ again' \subseteq Repeated
      /\ \A i \in listed' : Rank(rows, i) >= o + walk.size => i \in Repeated
  <2>1. listed \intersect slice \subseteq Repeated
    BY <1>1, <1>4, <1>5, <1>6 DEF Repeated, ToCome
  <2>2. again' \subseteq Repeated
    BY <1>3, <2>1 DEF Repeated
  <2>3. ASSUME NEW i \in listed', Rank(rows, i) >= o + walk.size
        PROVE  i \in Repeated
    <3>1. i \in steady
      BY <1>1, <1>3
    <3>2. i \notin slice /\ i \in listed
      BY <1>2, <1>3, <1>4, <1>5, <1>6, <2>3, <3>1
    <3>3. Rank(rows, i) >= o
      BY <1>2, <1>4, <1>5, <2>3, <3>1
    <3> QED  BY <3>2, <3>3 DEF Repeated, ToCome
  <2> QED  BY <2>2, <2>3
<1>9. Skipped \in SUBSET Ids /\ Repeated \in SUBSET Ids
  <2>1. steady \ listed \in SUBSET Ids /\ listed \in SUBSET Ids /\ again \in SUBSET Ids
    BY <1>1
  <2> QED  BY <2>1, ViewsAreOfIds DEF Skipped, Repeated
<1>10. \A S \in SUBSET Skipped : Cardinality(S) <= left'
  <2> TAKE S \in SUBSET Skipped
  <2>1. Cardinality(S) <= Cardinality(Skipped)
    BY <1>9, Histories DEF IInv
  <2>2. Cardinality(S) \in Nat /\ Cardinality(Skipped) \in Nat
    BY <1>9, Histories DEF IInv
  <2> QED  BY <1>1, <1>2, <1>3, <2>1, <2>2
<1>11. \A S \in SUBSET Repeated : Cardinality(S) <= entered'
  <2> TAKE S \in SUBSET Repeated
  <2>1. Cardinality(S) <= Cardinality(Repeated)
    BY <1>9, Histories DEF IInv
  <2>2. Cardinality(S) \in Nat /\ Cardinality(Repeated) \in Nat
    BY <1>9, Histories DEF IInv
  <2> QED  BY <1>1, <1>2, <1>3, <2>1, <2>2
<1>12. WalkInv'
  <2>1. CASE more
    <3>1. walk.page < Cardinality(Ids)
      <4>1. Cardinality(Listing(rows)) > o + walk.size
        BY <2>1 DEF HasMore, WalkOffset
      <4>2. Cardinality(Ids) \in Nat
        BY ListingAssumption, FS_CardinalityType
      <4>3. Cardinality(Listing(rows)) <= Cardinality(Ids) /\ Cardinality(Listing(rows)) \in Nat
        <5>1. Listing(rows) \in SUBSET Ids
          BY DEF Listing
        <5> QED  BY <5>1, Histories DEF IInv
      <4> QED  BY <1>2, <1>4, <4>1, <4>2, <4>3
    <3>2. /\ walk'.at = "walking" /\ walk'.size = walk.size /\ walk'.page = walk.page + 1
      <4>1. PageAfter(walk.page) = walk.page + 1
        <5>1. Cardinality(Ids) \in Nat
          BY ListingAssumption, FS_CardinalityType
        <5> QED  BY <1>2, <3>1, <5>1 DEF PageAfter
      <4> QED  BY <1>1, <1>2, <1>3, <2>1, <4>1 DEF Walk
    <3>3. Offset(walk'.page, walk'.size) = o + walk.size
      BY <1>4, <3>2
    <3>4. Skipped' \subseteq Skipped
      <4>1. Skipped' = Behind(rows, steady \ listed', o + walk.size)
        BY <1>3, <3>3, PrimedViews
      <4> QED  BY <1>7, <4>1 DEF Behind
    <3>5. Repeated' \subseteq Repeated
      <4>1. Repeated' = again' \union ToCome(rows, listed', o + walk.size)
        BY <1>3, <3>3, PrimedViews
      <4> QED  BY <1>8, <4>1 DEF ToCome
    <3>6. SizeIsServed(walk.size)' /\ steady' \subseteq Listing(rows)'
      BY <1>2, <1>3, <3>2 DEF SizeIsServed, Listing, Matches
    <3> QED  BY <1>2, <1>10, <1>11, <3>2, <3>4, <3>5, <3>6 DEF WalkInv
  <2>2. CASE ~more
    <3>1. walk'.at = "done"
      BY <1>1, <1>3, <2>2 DEF Walk
    <3>2. \A i \in steady : Rank(rows, i) < o + walk.size
      <4>1. Cardinality(Listing(rows)) <= o + walk.size /\ Cardinality(Listing(rows)) \in Nat
        <5>1. ~(Cardinality(Listing(rows)) > o + walk.size)
          BY <2>2 DEF HasMore, WalkOffset
        <5>2. Listing(rows) \in SUBSET Ids
          BY DEF Listing
        <5>3. Cardinality(Listing(rows)) \in Nat
          BY <5>2, Histories DEF IInv
        <5> QED  BY <1>2, <1>4, <5>1, <5>3
      <4>2. \A i \in steady : Rank(rows, i) < Cardinality(Listing(rows))
        BY <1>1, <1>5, RankBelowCount
      <4> QED  BY <1>2, <1>4, <1>5, <4>1, <4>2
    <3>3. Missed' \subseteq Skipped
      BY <1>3, <1>7, <3>2 DEF Missed
    <3> QED  BY <1>8, <1>10, <1>11, <3>1, <3>3 DEF WalkInv
  <2> QED  BY <2>1, <2>2
<1>13. ListingTypeOK'
  <2>1. walk' \in Walk
    <3>1. PageAfter(walk.page) \in Nat
      BY <1>2 DEF PageAfter
    <3> QED  BY <1>1, <1>3, <3>1 DEF Walk
  <2> QED  BY <1>3, <2>1 DEF IInv, ListingTypeOK, FetchPage
<1>14. StampInv' /\ TokenInv'
  BY DEF IInv, StampInv, TokenInv, FetchPage
<1> QED  BY <1>12, <1>13, <1>14 DEF IInv

LEMMA StutterInv ==
    ASSUME IInv, UNCHANGED listingVars
    PROVE  IInv'
<1> USE DEF listingVars, table, walkHistory, syncVars
<1>1. ListingTypeOK' /\ StampInv' /\ TokenInv'
  BY DEF IInv, ListingTypeOK, StampInv, TokenInv
<1>2. WalkInv'
  BY WalkStays
<1> QED  BY <1>1, <1>2 DEF IInv

LEMMA NextInv == IInv /\ [ListingNext]_listingVars => IInv'
<1> SUFFICES ASSUME IInv, [ListingNext]_listingVars PROVE IInv'
  OBVIOUS
<1>1. CASE Tick
  BY <1>1, TickInv
<1>2. CASE WriterStep
  BY <1>2, WriterBegins, CommitInv, RollbackInv DEF WriterStep
<1>3. CASE \E size \in Sizes : StartWalk(size)
  BY <1>3, StartWalkInv
<1>4. CASE FetchPage
  BY <1>4, FetchPageInv
<1>5. CASE Bootstrap
  BY <1>5, BootstrapInv
<1>6. CASE UNCHANGED listingVars
  BY <1>6, StutterInv
<1> QED  BY <1>1, <1>2, <1>3, <1>4, <1>5, <1>6 DEF ListingNext

-----------------------------------------------------------------------------
(***************************************************************************)
(* The invariant holds of every behaviour.                                 *)
(***************************************************************************)
THEOREM ListingInvariant == ListingSpec => []IInv
BY InitInv, NextInv, PTL DEF ListingSpec

(***************************************************************************)
(* The rows, the walk, the token and the histories have their types.       *)
(***************************************************************************)
THEOREM ListingTypes == ListingSpec => []ListingTypeOK
BY ListingInvariant, PTL DEF IInv

(***************************************************************************)
(* A walk that ended missed one unchanged row at most for each row that    *)
(* left the listing under it, for every page size and every writer.        *)
(***************************************************************************)
THEOREM WalksMissOnlyForLeaving == ListingSpec => []OnlyLeavingSkips
<1>1. IInv => OnlyLeavingSkips
  BY DEF IInv, WalkInv, OnlyLeavingSkips
<1> QED  BY <1>1, ListingInvariant, PTL

(***************************************************************************)
(* A walk was given one unchanged row twice at most for each row that came *)
(* to the front of the listing under it.                                   *)
(***************************************************************************)
THEOREM WalksRepeatOnlyForEntering == ListingSpec => []OnlyEnteringRepeats
<1>1. IInv => OnlyEnteringRepeats
  <2> SUFFICES ASSUME IInv PROVE OnlyEnteringRepeats
    OBVIOUS
  <2>1. /\ walk \in Walk /\ entered \in Nat /\ again \in SUBSET Ids /\ Repeated \in SUBSET Ids
    <3>1. again \in SUBSET Ids /\ listed \in SUBSET Ids
      BY DEF IInv, ListingTypeOK
    <3> QED  BY <3>1, ViewsAreOfIds DEF IInv, ListingTypeOK, Repeated
  <2>2. CASE walk.at \in {"idle", "refused"}
    BY <2>1, <2>2, FS_EmptySet DEF IInv, WalkInv, OnlyEnteringRepeats
  <2>3. CASE walk.at = "walking"
    <3>1. again \in SUBSET Repeated
      BY DEF Repeated
    <3>2. Cardinality(again) <= Cardinality(Repeated)
      BY <2>1, <3>1, Histories DEF IInv
    <3>3. Cardinality(again) \in Nat /\ Cardinality(Repeated) \in Nat
      BY <2>1, Histories DEF IInv
    <3>4. Cardinality(Repeated) <= entered
      BY <2>3 DEF IInv, WalkInv
    <3> QED  BY <2>1, <3>2, <3>3, <3>4 DEF OnlyEnteringRepeats
  <2>4. CASE walk.at = "done"
    BY <2>4 DEF IInv, WalkInv, OnlyEnteringRepeats
  <2> QED  BY <2>1, <2>2, <2>3, <2>4 DEF Walk
<1> QED  BY <1>1, ListingInvariant, PTL

(***************************************************************************)
(* A token that is the same as a bootstrap's, read after the second it     *)
(* names, vouches for every page that is a root page now but the one a     *)
(* writer had in hand: whatever the number of root pages a bootstrap reads,*)
(* because the newest is always among them.                                *)
(***************************************************************************)
THEOREM SameTokenVouches == ListingSpec => []SameTokenSamePages
<1>1. IInv => SameTokenSamePages
  <2> SUFFICES ASSUME IInv, sync # None, IsToken(rows, sync.token), sync.second > sync.token,
                      NEW p \in Listing(rows) \intersect changed, p \notin late
               PROVE  FALSE
    BY DEF SameTokenSamePages
  <2>1. rows \in Tables /\ sync.token \in Nat /\ sync.second \in Nat
    BY DEF IInv, ListingTypeOK, Tables, Sync
  <2>2. rows[p].stamp >= sync.second
    BY DEF IInv, TokenInv
  <2>3. PICK m \in Listing(rows) : Rank(rows, m) = 0 /\ rows[m].stamp >= rows[p].stamp
    BY <2>1, FirstRow
  <2>4. m \in Roots(rows)
    BY <2>3, ListingAssumption DEF Roots
  <2>5. rows[m].stamp <= sync.token
    BY <2>4 DEF IsToken
  <2>6. rows[m].stamp \in Nat /\ rows[p].stamp \in Nat
    BY <2>1, Stamps DEF Listing
  <2> QED  BY <2>1, <2>2, <2>3, <2>5, <2>6
<1> QED  BY <1>1, ListingInvariant, PTL
=============================================================================
