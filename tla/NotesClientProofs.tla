------------------------- MODULE NotesClientProofs -------------------------
(***************************************************************************)
(* The safety of NotesClient for any list of defaults, however many notes  *)
(* are made and whenever the client is closed.  What makes it inductive is *)
(* that it holds of two lists at once: the one in memory and the one that  *)
(* the next load will find (Disk), and that an id which is a parent is a   *)
(* collection's wherever it is listed.                                     *)
(***************************************************************************)
EXTENDS NotesClient, FiniteSetTheorems, TLAPS

\* What a load finds.
Disk == IF stored = None THEN Defaults ELSE stored

Notes == ToSet(list) \union ToSet(Disk)

Distinct(s) == \A i, j \in DOMAIN s : s[i].id = s[j].id => i = j

\* As ChaptersKeepTheirOrder says of the list in memory, but for the ids in M.
Ordered(s, M) ==
    \A i, j \in DOMAIN s :
        /\ s[i].parent = s[j].parent /\ s[i].parent # None
        /\ s[i].id \notin M /\ s[j].id \notin M
        /\ s[i].id < s[j].id
        => i < j

\* As LeftBehindAreInnerOrLate says of the list in memory.
Attached(s) ==
    \A n \in ToSet(s) : n.parent \in IdsOf(s) \union {None} \/ n.parent \in inner \/ n.id \in late

(***************************************************************************)
(* While the notes are open and the effect has nothing to save, the        *)
(* storage has the list as it is shown: closing the client then loses      *)
(* nothing at all (the effect of NotesProvider depends on the list and on  *)
(* isLoading).                                                             *)
(***************************************************************************)
RestIsSaved == Loaded /\ ~changed => stored = list /\ IdsOf(list) \subseteq saved

NotesTypes ==
    /\ phase \in {"closed", "loading", "open"}
    /\ list \in Seq(Note)
    /\ changed \in BOOLEAN
    /\ asked \in Seq(Asked)
    /\ stored \in Seq(Note) \union {None}
    /\ made \in Ids
    /\ opens \in 0..MaxOpens /\ room \in Nat
    /\ Distinct(list) /\ Distinct(Disk)

\* Nothing has an id, or a parent, that is not made yet.
MadeInv ==
    /\ made >= Len(Defaults)
    /\ \A n \in Notes : n.id <= made /\ n.parent \in 1..made \union {None}
    /\ \A k \in DOMAIN asked : asked[k].parent \in 1..made \union {None}
    /\ saved \subseteq 1..made /\ deleted \subseteq 1..made /\ moved \subseteq 1..made
    /\ inner \subseteq 1..made /\ late \subseteq 1..made

\* A note is a collection wherever it is listed, if it is one anywhere or if
\* something has it for a parent.
KindsInv ==
    \A b \in Notes :
        /\ \A a \in Notes : /\ a.id = b.id => a.coll = b.coll
                            /\ a.parent = b.id => b.coll
        /\ \A k \in DOMAIN asked : asked[k].parent = b.id => b.coll

PlacesInv ==
    /\ Ordered(list, moved) /\ Ordered(Disk, moved)
    /\ Attached(list) /\ Attached(Disk)
    /\ \A n \in Notes : n.coll /\ n.parent # None => n.id \in inner

SavedInv ==
    /\ saved \ deleted \subseteq IdsOf(Disk)
    /\ phase = "open" => saved \ deleted \subseteq IdsOf(list)

NotesInv == NotesTypes /\ MadeInv /\ KindsInv /\ PlacesInv /\ SavedInv

-----------------------------------------------------------------------------
\* Sets of numbers, of which the library's operators choose.

\* Nth counts a finite set of positions from the first to the last.
LEMMA NthCounts ==
    ASSUME NEW n \in Nat, NEW K \in SUBSET (1..n)
    PROVE  /\ Cardinality(K) \in Nat
           /\ \A k \in 1..Cardinality(K) : Nth(K, k) \in K
           /\ \A k, l \in 1..Cardinality(K) : k < l => Nth(K, k) < Nth(K, l)
           /\ \A i \in K : \E k \in 1..Cardinality(K) : Nth(K, k) = i
<1> DEFINE c == [i \in K |-> Cardinality({j \in K : j <= i})]
           m == Cardinality(K)
<1>0. \A i \in K : i \in Nat
  OBVIOUS
<1>1. IsFiniteSet(K) /\ m \in Nat
  <2>1. IsFiniteSet(1..n)
    BY FS_Interval
  <2>2. IsFiniteSet(K)
    BY <2>1, FS_Subset
  <2> QED  BY <2>2, FS_CardinalityType
<1>2. ASSUME NEW i \in K
      PROVE  /\ IsFiniteSet({j \in K : j <= i}) /\ c[i] \in Nat /\ c[i] <= m /\ c[i] >= 1
  <2>1. {j \in K : j <= i} \in SUBSET K /\ {i} \in SUBSET {j \in K : j <= i}
    OBVIOUS
  <2>2. /\ IsFiniteSet({j \in K : j <= i}) /\ Cardinality({j \in K : j <= i}) <= m
        /\ Cardinality({j \in K : j <= i}) \in Nat
    BY <1>1, <2>1, FS_Subset, FS_CardinalityType
  <2>3. Cardinality({i}) = 1 /\ Cardinality({i}) <= Cardinality({j \in K : j <= i})
    BY <2>1, <2>2, FS_Singleton, FS_Subset
  <2> QED  BY <2>2, <2>3
<1>3. ASSUME NEW i \in K, NEW j \in K, i < j PROVE c[i] < c[j]
  <2> DEFINE A == {h \in K : h <= i}
             B == {h \in K : h <= j}
  <2>1. A \in SUBSET B /\ j \in B /\ j \notin A
    <3>1. j \in B
      BY <1>0
    <3>2. j \notin A
      BY <1>0, <1>3
    <3>3. \A h \in K : h <= i => h <= j
      BY <1>0, <1>3
    <3> QED  BY <3>1, <3>2, <3>3
  <2>2. IsFiniteSet(B) /\ Cardinality(A) <= Cardinality(B) /\ Cardinality(A) # Cardinality(B)
    BY <1>2, <2>1, FS_Subset
  <2>3. Cardinality(A) = c[i] /\ Cardinality(B) = c[j]
    OBVIOUS
  <2> QED  BY <1>2, <2>2, <2>3
<1>4. c \in Injection(K, 1..m)
  <2>1. c \in [K -> 1..m]
    BY <1>1, <1>2
  <2>2. \A i, j \in K : c[i] = c[j] => i = j
    <3> SUFFICES ASSUME NEW i \in K, NEW j \in K, c[i] = c[j] PROVE i = j
      OBVIOUS
    <3>1. ~(i < j) /\ ~(j < i)
      BY <1>2, <1>3
    <3> QED  BY <3>1
  <2> HIDE DEF c
  <2> QED  BY <2>1, <2>2 DEF Injection, IsInjective
<1>5. \A k \in 1..m : \E i \in K : c[i] = k
  <2>1. IsFiniteSet(1..m) /\ Cardinality(1..m) = m
    BY <1>1, FS_Interval
  <2>2. c \in Surjection(K, 1..m)
    <3> HIDE DEF c
    <3> QED  BY <1>1, <1>4, <2>1, FS_Injection
  <2> HIDE DEF c
  <2> QED  BY <2>2 DEF Surjection
<1>6. \A k \in 1..m : Nth(K, k) \in K /\ c[Nth(K, k)] = k
  BY <1>5 DEF Nth
<1>7. ASSUME NEW k \in 1..m, NEW l \in 1..m, k < l PROVE Nth(K, k) < Nth(K, l)
  <2> DEFINE p == Nth(K, k)
             q == Nth(K, l)
  <2>1. p \in K /\ q \in K /\ c[p] < c[q]
    BY <1>1, <1>6, <1>7
  <2>2. ~(q < p) /\ q # p
    <3> HIDE DEF c, p, q, m
    <3>1. c[p] \in Nat /\ c[q] \in Nat
      BY <1>2, <2>1
    <3>2. q < p => c[q] < c[p]
      BY <1>3, <2>1
    <3> QED  BY <2>1, <3>1, <3>2
  <2> HIDE DEF p, q
  <2>3. p < q
    BY <2>1, <2>2
  <2> QED  BY <2>3 DEF p, q
<1>8. ASSUME NEW i \in K PROVE \E k \in 1..m : Nth(K, k) = i
  <2>1. c[i] \in 1..m
    BY <1>1, <1>2
  <2>2. c[Nth(K, c[i])] = c[i] /\ Nth(K, c[i]) \in K
    BY <1>6, <2>1
  <2>3. Nth(K, c[i]) = i
    <3> HIDE DEF c
    <3> QED  BY <1>4, <2>2 DEF Injection, IsInjective
  <2> QED  BY <2>1, <2>3
<1> QED  BY <1>1, <1>6, <1>7, <1>8
LEMMA Greatest ==
    ASSUME NEW n \in Nat, NEW K \in SUBSET (1..n), K # {}
    PROVE  /\ \E m \in K : \A k \in K : m >= k
           /\ \E m \in K : \A k \in K : m <= k
<1> DEFINE m == Cardinality(K)
           p(k) == Nth(K, k)
<1>1. /\ m \in Nat /\ \A k \in 1..m : p(k) \in K
      /\ \A k, l \in 1..m : k < l => p(k) < p(l)
      /\ \A i \in K : \E k \in 1..m : p(k) = i
  BY NthCounts
<1> HIDE DEF m, p
<1>2. m >= 1 /\ p(1) \in K /\ p(m) \in K
  <2>1. PICK i \in K : TRUE
    OBVIOUS
  <2>2. PICK k \in 1..m : p(k) = i
    BY <1>1, <2>1
  <2> QED  BY <1>1, <2>2
<1>3. ASSUME NEW i \in K PROVE p(1) <= i /\ i <= p(m)
  <2>1. PICK k \in 1..m : p(k) = i
    BY <1>1
  <2>2. (1 < k => p(1) < p(k)) /\ (k < m => p(k) < p(m))
    BY <1>1, <1>2, <2>1
  <2>3. p(1) \in Nat /\ p(m) \in Nat /\ i \in Nat
    <3>1. \A j \in K : j \in Nat
      OBVIOUS
    <3> QED  BY <1>2, <3>1
  <2> QED  BY <1>1, <2>1, <2>2, <2>3
<1> QED  BY <1>2, <1>3

-----------------------------------------------------------------------------
\* What the operators on lists return.

\* t is s with n put at position p.
Inserts(s, t, p, n) ==
    /\ t \in Seq(Note) /\ Len(t) = Len(s) + 1
    /\ p \in 1..Len(t) /\ t[p] = n
    /\ \A i \in 1..Len(s) : t[IF i < p THEN i ELSE i + 1] = s[i]

LEMMA LastInIs ==
    ASSUME NEW s \in Seq(Note), NEW c
    PROVE  /\ LastIn(s, c) \in 0..Len(s)
           /\ \A i \in DOMAIN s : s[i].parent = c => i <= LastIn(s, c)
<1> DEFINE I == {i \in 1..Len(s) : s[i].parent = c}
<1>1. LastIn(s, c) = IF I # {} THEN Max(I) ELSE 0
  BY DEF LastIn, SelectLastInSeq
<1>2. Len(s) \in Nat /\ I \in SUBSET (1..Len(s)) /\ DOMAIN s = 1..Len(s)
  OBVIOUS
<1>3. CASE I # {}
  <2>1. \E m \in I : \A k \in I : m >= k
    BY <1>2, <1>3, Greatest
  <2>2. Max(I) \in I /\ \A k \in I : Max(I) >= k
    BY <2>1 DEF Max
  <2>3. LastIn(s, c) \in I /\ \A k \in I : LastIn(s, c) >= k
    BY <1>1, <1>3, <2>2
  <2>4. \A i \in DOMAIN s : s[i].parent = c => i \in I
    BY <1>2
  <2> QED  BY <1>2, <2>3, <2>4
<1>4. CASE I = {}
  BY <1>1, <1>2, <1>4
<1> QED  BY <1>3, <1>4

LEMMA PositionIs ==
    ASSUME NEW s \in Seq(Note), NEW id
    PROVE  PositionOf(s, id) \in 0..Len(s)
<1> DEFINE I == {i \in 1..Len(s) : s[i].id = id}
<1>1. PositionOf(s, id) = IF I # {} THEN Min(I) ELSE 0
  BY DEF PositionOf, SelectInSeq
<1>2. Len(s) \in Nat /\ I \in SUBSET (1..Len(s))
  OBVIOUS
<1>3. CASE I # {}
  <2>1. \E m \in I : \A k \in I : m <= k
    BY <1>2, <1>3, Greatest
  <2>2. Min(I) \in I
    BY <2>1 DEF Min
  <2> QED  BY <1>1, <1>2, <1>3, <2>2
<1>4. CASE I = {}
  BY <1>1, <1>2, <1>4
<1> QED  BY <1>3, <1>4

LEMMA InsertAtIs ==
    ASSUME NEW s \in Seq(Note), NEW n \in Note, NEW p \in 1..(Len(s) + 1)
    PROVE  Inserts(s, InsertAt(s, p, n), p, n)
<1> DEFINE a == SubSeq(s, 1, p - 1)
           b == SubSeq(s, p, Len(s))
           c == a \o <<n>>
           t == c \o b
<1>1. Len(s) \in Nat /\ p - 1 \in 0..Len(s)
  OBVIOUS
<1>2. a \in Seq(Note) /\ Len(a) = p - 1 /\ \A i \in 1..(p - 1) : a[i] = s[i]
  BY <1>1
<1>3. /\ b \in Seq(Note) /\ Len(b) = Len(s) - p + 1
      /\ \A j \in 1..(Len(s) - p + 1) : b[j] = s[p + j - 1]
  BY <1>1
<1> HIDE DEF a, b
<1>4. /\ c \in Seq(Note) /\ Len(c) = p /\ c[p] = n
      /\ \A i \in 1..(p - 1) : c[i] = s[i]
  BY <1>1, <1>2
<1> HIDE DEF c
<1>5. /\ t \in Seq(Note) /\ Len(t) = Len(s) + 1
      /\ \A i \in 1..p : t[i] = c[i]
      /\ \A j \in 1..(Len(s) - p + 1) : t[p + j] = b[j]
  BY <1>1, <1>3, <1>4
<1> HIDE DEF t
<1>6. ASSUME NEW i \in 1..Len(s), i < p PROVE t[i] = s[i]
  BY <1>1, <1>4, <1>5, <1>6
<1>7. ASSUME NEW i \in 1..Len(s), ~(i < p) PROVE t[i + 1] = s[i]
  <2> DEFINE j == i + 1 - p
  <2>1. j \in 1..(Len(s) - p + 1) /\ p + j = i + 1 /\ p + j - 1 = i
    BY <1>1, <1>7
  <2> HIDE DEF j
  <2> QED  BY <1>3, <1>5, <2>1
<1>8. Inserts(s, t, p, n)
  BY <1>1, <1>4, <1>5, <1>6, <1>7 DEF Inserts
<1> QED  BY <1>8 DEF InsertAt, a, b, c, t

\* createNote puts a note behind all the notes of its collection.
LEMMA InsertedIs ==
    ASSUME NEW s \in Seq(Note), NEW n \in Note
    PROVE  \E p \in Nat :
             /\ Inserts(s, Inserted(s, n), p, n)
             /\ n.parent # None => \A i \in DOMAIN s : s[i].parent = n.parent => i < p
<1>1. Len(s) \in Nat /\ DOMAIN s = 1..Len(s)
  OBVIOUS
<1> DEFINE last == LastIn(s, n.parent)
           place == PositionOf(s, n.parent)
           behind == IF last # 0 THEN last ELSE place
<1>2. /\ last \in 0..Len(s) /\ place \in 0..Len(s)
      /\ \A i \in DOMAIN s : s[i].parent = n.parent => i <= last
  BY LastInIs, PositionIs
<1>3. Inserted(s, n) = IF n.parent = None THEN <<n>> \o s
                       ELSE IF behind # 0 THEN InsertAt(s, behind + 1, n)
                       ELSE Append(s, n)
  BY DEF Inserted
<1> HIDE DEF last, place
<1>4. CASE n.parent = None
  <2>1. Inserts(s, <<n>> \o s, 1, n)
    BY <1>1 DEF Inserts
  <2> QED  BY <1>3, <1>4, <2>1
<1>5. CASE n.parent # None /\ behind # 0
  <2>1. behind + 1 \in 1..(Len(s) + 1)
    BY <1>1, <1>2, <1>5
  <2>2. Inserts(s, InsertAt(s, behind + 1, n), behind + 1, n)
    BY <2>1, InsertAtIs
  <2>3. \A i \in DOMAIN s : s[i].parent = n.parent => i < behind + 1
    BY <1>1, <1>2
  <2> QED  BY <1>3, <1>5, <2>1, <2>2, <2>3
<1>6. CASE n.parent # None /\ behind = 0
  <2>1. Inserts(s, Append(s, n), Len(s) + 1, n)
    BY <1>1 DEF Inserts
  <2>2. \A i \in DOMAIN s : i < Len(s) + 1
    BY <1>1
  <2> QED  BY <1>1, <1>3, <1>6, <2>1, <2>2
<1> QED  BY <1>4, <1>5, <1>6

\* t is what s has of ids other than these, and f says where it stood.
Keeps(s, t, ids, f) ==
    /\ f \in [DOMAIN t -> DOMAIN s]
    /\ \A k \in DOMAIN t : t[k] = s[f[k]] /\ s[f[k]].id \notin ids
    /\ \A k, l \in DOMAIN t : k < l => f[k] < f[l]
    /\ \A i \in DOMAIN s : s[i].id \notin ids => \E k \in DOMAIN t : f[k] = i

\* What is left of a list is what was kept, in its order.
LEMMA WithoutIs ==
    ASSUME NEW s \in Seq(Note), NEW ids
    PROVE  Without(s, ids) \in Seq(Note) /\ \E f : Keeps(s, Without(s, ids), ids, f)
<1> DEFINE K == Kept(s, ids)
           m == Cardinality(K)
           t == Without(s, ids)
           f == [k \in 1..m |-> Nth(K, k)]
<1>1. Len(s) \in Nat /\ DOMAIN s = 1..Len(s)
  OBVIOUS
<1>2. K \in SUBSET (1..Len(s)) /\ \A i \in DOMAIN s : i \in K <=> s[i].id \notin ids
  BY <1>1 DEF Kept
<1>3. /\ m \in Nat
      /\ \A k \in 1..m : Nth(K, k) \in K
      /\ \A k, l \in 1..m : k < l => Nth(K, k) < Nth(K, l)
      /\ \A i \in K : \E k \in 1..m : Nth(K, k) = i
  BY <1>1, <1>2, NthCounts
<1>4. t = [k \in 1..m |-> s[Nth(K, k)]]
  BY DEF Without
<1> HIDE DEF K, m, t
<1>5. t \in Seq(Note) /\ DOMAIN t = 1..m
  <2>1. ASSUME NEW k \in 1..m PROVE s[Nth(K, k)] \in Note
    <3>1. Nth(K, k) \in 1..Len(s)
      BY <1>2, <1>3
    <3> QED  BY <3>1
  <2>2. t \in [1..m -> Note]
    BY <1>4, <2>1
  <2> QED  BY <1>3, <1>4, <2>2
<1>6. f \in [DOMAIN t -> DOMAIN s]
  BY <1>1, <1>2, <1>3, <1>5
<1>7. \A k \in DOMAIN t : t[k] = s[f[k]] /\ s[f[k]].id \notin ids
  BY <1>1, <1>2, <1>3, <1>4, <1>5
<1>8. \A k, l \in DOMAIN t : k < l => f[k] < f[l]
  BY <1>3, <1>5
<1>9. \A i \in DOMAIN s : s[i].id \notin ids => \E k \in DOMAIN t : f[k] = i
  BY <1>2, <1>3, <1>5
<1> HIDE DEF f
<1>10. Keeps(s, t, ids, f)
  BY <1>6, <1>7, <1>8, <1>9 DEF Keeps
<1> QED  BY <1>5, <1>10 DEF t

-----------------------------------------------------------------------------
\* What they keep of the lists they are given.

LEMMA ElementsOf ==
    ASSUME NEW s
    PROVE  /\ \A n : n \in ToSet(s) <=> \E i \in DOMAIN s : n = s[i]
           /\ \A id : id \in IdsOf(s) <=> \E n \in ToSet(s) : id = n.id
BY DEF ToSet, IdsOf

LEMMA InsertingKeeps ==
    ASSUME NEW s \in Seq(Note), NEW t, NEW p \in Nat, NEW n \in Note, Inserts(s, t, p, n)
    PROVE  /\ t \in Seq(Note)
           /\ ToSet(t) = ToSet(s) \union {n}
           /\ Distinct(s) /\ n.id \notin IdsOf(s) => Distinct(t)
           /\ \A M : /\ Ordered(s, M)
                     /\ \A i \in DOMAIN s : s[i].id < n.id
                     /\ n.parent # None => \A i \in DOMAIN s : s[i].parent = n.parent => i < p
                     => Ordered(t, M)
<1> DEFINE g(i) == IF i < p THEN i ELSE i + 1
<1>1. /\ Len(s) \in Nat /\ DOMAIN s = 1..Len(s) /\ DOMAIN t = 1..(Len(s) + 1)
      /\ t \in Seq(Note) /\ p \in DOMAIN t /\ t[p] = n
  BY DEF Inserts
<1>2. \A i \in DOMAIN s : g(i) \in DOMAIN t /\ g(i) # p /\ t[g(i)] = s[i]
  BY <1>1 DEF Inserts
<1>3. ASSUME NEW k \in DOMAIN t, k # p PROVE \E i \in DOMAIN s : k = g(i)
  <2>1. CASE k < p
    BY <1>1, <2>1
  <2>2. CASE k > p
    <3>1. k - 1 \in DOMAIN s /\ k = g(k - 1)
      BY <1>1, <2>2
    <3> QED  BY <3>1
  <2> QED  BY <1>1, <1>3, <2>1, <2>2
<1>4. \A i, j \in DOMAIN s : i < j => g(i) < g(j)
  BY <1>1
<1>5. \A i \in DOMAIN s : i < p => g(i) < p
  BY <1>1
<1> HIDE DEF g
<1>6. ToSet(t) = ToSet(s) \union {n}
  BY <1>1, <1>2, <1>3 DEF ToSet
<1>7. ASSUME Distinct(s), n.id \notin IdsOf(s) PROVE Distinct(t)
  <2>1. \A i \in DOMAIN s : s[i].id # n.id
    BY <1>7 DEF IdsOf
  <2> QED  BY <1>1, <1>2, <1>3, <1>7, <2>1 DEF Distinct
<1>8. ASSUME NEW M, Ordered(s, M), \A i \in DOMAIN s : s[i].id < n.id,
             n.parent # None => \A i \in DOMAIN s : s[i].parent = n.parent => i < p
      PROVE  Ordered(t, M)
  <2> SUFFICES ASSUME NEW k \in DOMAIN t, NEW l \in DOMAIN t,
                      t[k].parent = t[l].parent, t[k].parent # None,
                      t[k].id \notin M, t[l].id \notin M, t[k].id < t[l].id
               PROVE  k < l
    BY DEF Ordered
  <2>1. n.id \in Nat
    BY DEF Note, Ids
  <2>2. CASE k # p /\ l # p
    <3>1. PICK i \in DOMAIN s, j \in DOMAIN s : k = g(i) /\ l = g(j)
      BY <1>3, <2>2
    <3>2. i < j
      BY <1>2, <1>8, <3>1 DEF Ordered
    <3> QED  BY <1>4, <3>1, <3>2
  <2>3. CASE k # p /\ l = p
    <3>1. PICK i \in DOMAIN s : k = g(i)
      BY <1>3, <2>3
    <3> QED  BY <1>1, <1>2, <1>5, <1>8, <2>3, <3>1
  <2>4. CASE k = p
    <3>1. l # p
      BY <1>1, <2>1, <2>4
    <3>2. PICK j \in DOMAIN s : l = g(j)
      BY <1>3, <3>1
    <3>3. s[j].id < n.id /\ n.id < s[j].id /\ s[j].id \in Nat
      <4>1. s[j] \in Note
        OBVIOUS
      <4> QED  BY <1>1, <1>2, <1>8, <2>4, <3>2, <4>1 DEF Note, Ids
    <3> QED  BY <2>1, <3>3
  <2> QED  BY <2>2, <2>3, <2>4
<1> QED  BY <1>1, <1>6, <1>7, <1>8

LEMMA WithoutKeeps ==
    ASSUME NEW s \in Seq(Note), NEW ids
    PROVE  /\ Without(s, ids) \in Seq(Note)
           /\ \A n : n \in ToSet(Without(s, ids)) <=> n \in ToSet(s) /\ n.id \notin ids
           /\ Distinct(s) => Distinct(Without(s, ids))
           /\ \A M : Ordered(s, M) => Ordered(Without(s, ids), M)
<1> DEFINE t == Without(s, ids)
<1>1. PICK f : Keeps(s, t, ids, f)
  BY WithoutIs
<1>2. t \in Seq(Note)
  BY WithoutIs
<1> HIDE DEF t
<1>3. /\ \A k \in DOMAIN t : k \in Nat /\ f[k] \in DOMAIN s
      /\ \A i \in DOMAIN s : i \in Nat
  BY <1>1, <1>2 DEF Keeps
<1>4. \A n : n \in ToSet(t) <=> n \in ToSet(s) /\ n.id \notin ids
  BY <1>1, <1>3 DEF Keeps, ToSet
<1>5. \A k, l \in DOMAIN t : f[k] = f[l] => k = l
  <2> SUFFICES ASSUME NEW k \in DOMAIN t, NEW l \in DOMAIN t, f[k] = f[l] PROVE k = l
    OBVIOUS
  <2>1. ~(k < l) /\ ~(l < k)
    BY <1>1, <1>3 DEF Keeps
  <2> QED  BY <1>3, <2>1
<1>6. ASSUME Distinct(s) PROVE Distinct(t)
  BY <1>1, <1>3, <1>5, <1>6 DEF Keeps, Distinct
<1>7. ASSUME NEW M, Ordered(s, M) PROVE Ordered(t, M)
  <2> SUFFICES ASSUME NEW k \in DOMAIN t, NEW l \in DOMAIN t,
                      t[k].parent = t[l].parent, t[k].parent # None,
                      t[k].id \notin M, t[l].id \notin M, t[k].id < t[l].id
               PROVE  k < l
    BY DEF Ordered
  <2>1. f[k] < f[l]
    BY <1>1, <1>3, <1>7 DEF Keeps, Ordered
  <2>2. ~(l < k) /\ k # l
    BY <1>1, <1>3, <2>1 DEF Keeps
  <2> QED  BY <1>3, <2>2
<1> QED  BY <1>2, <1>4, <1>6, <1>7 DEF t

LEMMA SwappedKeeps ==
    ASSUME NEW s \in Seq(Note), NEW i \in DOMAIN s, NEW j \in DOMAIN s
    PROVE  /\ Swapped(s, i, j) \in Seq(Note)
           /\ ToSet(Swapped(s, i, j)) = ToSet(s)
           /\ Distinct(s) => Distinct(Swapped(s, i, j))
           /\ \A M : Ordered(s, M) => Ordered(Swapped(s, i, j), M \union {s[i].id, s[j].id})
<1> DEFINE t == Swapped(s, i, j)
<1>1. /\ t \in Seq(Note) /\ DOMAIN t = DOMAIN s /\ t[i] = s[j] /\ t[j] = s[i]
      /\ \A k \in DOMAIN s \ {i, j} : t[k] = s[k]
  BY DEF Swapped
<1> HIDE DEF t
<1>2. ToSet(t) = ToSet(s)
  BY <1>1 DEF ToSet
<1>3. ASSUME Distinct(s) PROVE Distinct(t)
  BY <1>1, <1>3 DEF Distinct
<1>4. ASSUME NEW M, Ordered(s, M) PROVE Ordered(t, M \union {s[i].id, s[j].id})
  BY <1>1, <1>4 DEF Ordered
<1> QED  BY <1>1, <1>2, <1>3, <1>4 DEF t

LEMMA WithParentKeeps ==
    ASSUME NEW s \in Seq(Note), NEW i \in DOMAIN s, NEW p \in Ids \union {None}
    PROVE  /\ WithParent(s, i, p) \in Seq(Note)
           /\ \A n \in ToSet(WithParent(s, i, p)) :
                \/ n \in ToSet(s)
                \/ n.id = s[i].id /\ n.coll = s[i].coll /\ n.parent = p
           /\ IdsOf(WithParent(s, i, p)) = IdsOf(s)
           /\ Distinct(s) => Distinct(WithParent(s, i, p))
           /\ \A M : Ordered(s, M) => Ordered(WithParent(s, i, p), M \union {s[i].id})
<1> DEFINE t == WithParent(s, i, p)
<1>1. s[i] \in Note
  OBVIOUS
<1>2. /\ t \in Seq(Note) /\ DOMAIN t = DOMAIN s
      /\ t[i].id = s[i].id /\ t[i].coll = s[i].coll /\ t[i].parent = p
      /\ \A k \in DOMAIN s \ {i} : t[k] = s[k]
  <2> DEFINE e == [s[i] EXCEPT !.parent = p]
  <2>1. t = [s EXCEPT ![i] = e]
    BY DEF WithParent
  <2>2. e \in Note /\ e.id = s[i].id /\ e.coll = s[i].coll /\ e.parent = p
    BY <1>1 DEF Note
  <2> HIDE DEF t, e
  <2> QED  BY <2>1, <2>2
<1> HIDE DEF t
<1>3. /\ \A n \in ToSet(t) : \/ n \in ToSet(s)
                             \/ n.id = s[i].id /\ n.coll = s[i].coll /\ n.parent = p
      /\ IdsOf(t) = IdsOf(s)
  BY <1>2 DEF ToSet, IdsOf
<1>4. ASSUME Distinct(s) PROVE Distinct(t)
  BY <1>2, <1>4 DEF Distinct
<1>5. ASSUME NEW M, Ordered(s, M) PROVE Ordered(t, M \union {s[i].id})
  BY <1>2, <1>5 DEF Ordered
<1> QED  BY <1>2, <1>3, <1>4, <1>5 DEF t

-----------------------------------------------------------------------------
LEMMA DefaultsAre ==
    /\ Defaults \in Seq(Note) /\ Distinct(Defaults) /\ Len(Defaults) \in Ids
    /\ \A n \in ToSet(Defaults) :
         /\ n.id \in 1..Len(Defaults) /\ n.parent \in IdsOf(Defaults) \union {None}
         /\ n.coll => n.parent = None
         /\ \A m \in ToSet(Defaults) : (m.id = n.id => m = n) /\ (m.parent = n.id => n.coll)
    /\ \A M : Ordered(Defaults, M)
<1> USE ClientAssumption
<1>1. Defaults \in Seq(Note) /\ \A i \in DOMAIN Defaults : Defaults[i].id = i
  OBVIOUS
<1>2. /\ Len(Defaults) \in Ids /\ DOMAIN Defaults = 1..Len(Defaults)
      /\ \A i \in DOMAIN Defaults : Defaults[i] \in Note /\ i # None
  BY <1>1 DEF Ids
<1>3. Distinct(Defaults) /\ \A M : Ordered(Defaults, M)
  BY <1>1, <1>2 DEF Distinct, Ordered
<1>4. ASSUME NEW i \in DOMAIN Defaults
      PROVE  /\ Defaults[i].parent \in IdsOf(Defaults) \union {None}
             /\ Defaults[i].coll => Defaults[i].parent = None
             /\ \A j \in DOMAIN Defaults : Defaults[i].parent = Defaults[j].id => Defaults[j].coll
  <2>1. CASE Defaults[i].parent = None
    BY <1>1, <1>2, <2>1
  <2>2. CASE Defaults[i].parent # None
    <3>1. PICK j \in DOMAIN Defaults :
            Defaults[j].id = Defaults[i].parent /\ Defaults[j].coll
      BY <2>2
    <3>2. \A k \in DOMAIN Defaults : Defaults[k].id = Defaults[j].id => k = j
      BY <1>1
    <3> QED  BY <3>1, <3>2, <2>2 DEF IdsOf
  <2> QED  BY <2>1, <2>2
<1> QED  BY <1>1, <1>2, <1>3, <1>4 DEF ToSet

LEMMA InitInv == NotesInit => NotesInv
<1> SUFFICES ASSUME NotesInit PROVE NotesInv
  OBVIOUS
<1> USE ClientAssumption DEF NotesInit
<1>1. Disk = Defaults /\ list = <<>> /\ asked = <<>>
  BY DEF Disk
<1>2. ToSet(list) = {} /\ Notes = ToSet(Defaults) /\ Distinct(list) /\ Ordered(list, moved)
  BY <1>1 DEF ToSet, Notes, Distinct, Ordered
<1>3. NotesTypes
  <2>1. list \in Seq(Note) /\ asked \in Seq(Asked) /\ opens \in 0..MaxOpens /\ room \in Nat
    BY <1>1
  <2>2. made \in Ids /\ Distinct(Disk) /\ Distinct(list)
    BY <1>1, <1>2, DefaultsAre
  <2> QED  BY <2>1, <2>2, Zenon DEF NotesTypes
<1>4. MadeInv
  <2>1. \A n \in ToSet(Defaults) : n.id <= made /\ n.parent \in 1..made \union {None}
    BY DefaultsAre, ElementsOf DEF Ids
  <2> QED  BY <1>1, <1>2, <2>1, DefaultsAre DEF MadeInv, Ids
<1>5. KindsInv
  BY <1>1, <1>2, DefaultsAre DEF KindsInv
<1>6. PlacesInv
  BY <1>1, <1>2, DefaultsAre DEF PlacesInv, Attached
<1>7. SavedInv
  BY DEF SavedInv
<1> QED  BY <1>3, <1>4, <1>5, <1>6, <1>7 DEF NotesInv

\* Every note of the two lists is a note of the model.
LEMMA NotesAreNotes ==
    ASSUME NotesTypes
    PROVE  /\ Disk \in Seq(Note) /\ Notes \subseteq Note
           /\ \A n \in Note : n.id \in Nat /\ n.id # None /\ n.parent \in Nat \union {None}
                              /\ n.coll \in BOOLEAN
           /\ None \notin Nat /\ None \notin Seq(Note)
           /\ Disk # None
<1>1. Disk \in Seq(Note) /\ Disk # None
  BY DefaultsAre, ClientAssumption DEF NotesTypes, Disk
<1>2. \A n \in Notes : n \in Note
  BY <1>1, ElementsOf DEF NotesTypes, Notes
<1>3. \A n \in Note : n.id \in Nat /\ n.id # None /\ n.parent \in Nat \union {None}
                      /\ n.coll \in BOOLEAN
  BY ClientAssumption DEF Note, Ids
<1> QED  BY <1>1, <1>2, <1>3, ClientAssumption

\* The ids of the two lists are made.
LEMMA DiskIdsAreMade ==
    ASSUME NotesTypes, MadeInv
    PROVE  IdsOf(list) \subseteq 1..made /\ IdsOf(Disk) \subseteq 1..made
<1>1. \A n \in Notes : n.id \in 1..made
  <2>1. \A n \in Notes : n \in Note
    BY NotesAreNotes
  <2>2. \A n \in Note : n.id \in Nat /\ n.id >= 1
    BY DEF Note, Ids
  <2> QED  BY <2>1, <2>2 DEF MadeInv, NotesTypes, Ids
<1>2. ToSet(list) \subseteq Notes /\ ToSet(Disk) \subseteq Notes
  BY DEF Notes
<1> QED  BY <1>1, <1>2, ElementsOf

-----------------------------------------------------------------------------

LEMMA OpenStep == NotesInv /\ Open => NotesInv'
<1> SUFFICES ASSUME NotesInv, Open PROVE NotesInv'
  OBVIOUS
<1>1. /\ UNCHANGED <<list, asked, stored, room, made, saved, deleted, moved, inner, late>>
      /\ phase' = "loading" /\ changed' = TRUE /\ opens' = opens + 1 /\ opens < MaxOpens
  BY DEF Open, noteHistory
<1>2. Disk' = Disk /\ Notes' = Notes
  BY <1>1 DEF Disk, Notes
<1>3. NotesTypes'
  BY <1>1, <1>2, ClientAssumption DEF NotesInv, NotesTypes, Distinct
<1> QED  BY <1>1, <1>2, <1>3 DEF NotesInv, MadeInv, KindsInv, PlacesInv, SavedInv, Ordered, Attached

LEMMA LoadStep == NotesInv /\ Load => NotesInv'
<1> SUFFICES ASSUME NotesInv, Load PROVE NotesInv'
  OBVIOUS
<1>1. /\ UNCHANGED <<asked, opens, room, made, deleted, moved, inner, late>>
      /\ phase' = "open" /\ changed' = TRUE
      /\ stored' = Disk /\ list' = Disk /\ saved' = saved \union IdsOf(Disk)
  BY DEF Load, SetNotes, Disk
<1>2. Disk \in Seq(Note) /\ Disk' = Disk
  <2>1. Disk \in Seq(Note) /\ Disk # None
    BY NotesAreNotes DEF NotesInv
  <2> QED  BY <1>1, <2>1 DEF Disk
<1>3. Notes' = ToSet(Disk) /\ Notes' \subseteq Notes
  BY <1>1, <1>2 DEF Notes
<1>4. NotesTypes'
  BY <1>1, <1>2 DEF NotesInv, NotesTypes, Distinct
<1>5. MadeInv'
  <2>1. IdsOf(Disk) \subseteq 1..made
    BY DiskIdsAreMade DEF NotesInv
  <2>2. saved' \subseteq 1..made'
    BY <1>1, <2>1 DEF NotesInv, MadeInv
  <2> QED  BY <1>1, <1>3, <2>2 DEF NotesInv, MadeInv
<1>6. KindsInv'
  BY <1>1, <1>3 DEF NotesInv, KindsInv
<1>7. PlacesInv'
  BY <1>1, <1>2, <1>3 DEF NotesInv, PlacesInv, Ordered, Attached
<1>8. SavedInv'
  BY <1>1, <1>2 DEF NotesInv, SavedInv
<1> QED  BY <1>4, <1>5, <1>6, <1>7, <1>8 DEF NotesInv

LEMMA SaveStep == NotesInv /\ Save => NotesInv'
<1> SUFFICES ASSUME NotesInv, Save PROVE NotesInv'
  OBVIOUS
<1>1. UNCHANGED <<phase, list, asked, opens, room, made, deleted, moved, inner, late>> /\ changed' = FALSE
  BY DEF Save
<1>2. CASE phase = "open"
  <2>1. stored' = list /\ saved' = saved \union IdsOf(list)
    BY <1>2 DEF Save, Loaded
  <2>2. Disk' = list
    BY <2>1, ClientAssumption DEF NotesInv, NotesTypes, Disk
  <2>3. Notes' = ToSet(list) /\ Notes' \subseteq Notes
    BY <1>1, <2>2 DEF Notes
  <2>4. NotesTypes'
    BY <1>1, <2>1, <2>2 DEF NotesInv, NotesTypes, Distinct
  <2>5. MadeInv'
    <3>1. saved' \subseteq 1..made'
      BY <1>1, <2>1, DiskIdsAreMade DEF NotesInv, MadeInv
    <3> QED  BY <1>1, <2>3, <3>1 DEF NotesInv, MadeInv
  <2>6. KindsInv'
    BY <1>1, <2>3 DEF NotesInv, KindsInv
  <2>7. PlacesInv'
    BY <1>1, <2>2, <2>3 DEF NotesInv, PlacesInv, Ordered, Attached
  <2>8. SavedInv'
    BY <1>1, <1>2, <2>1, <2>2 DEF NotesInv, SavedInv
  <2> QED  BY <2>4, <2>5, <2>6, <2>7, <2>8 DEF NotesInv
<1>3. CASE phase # "open"
  <2>1. UNCHANGED <<stored, saved>>
    BY <1>3 DEF Save, Loaded
  <2>2. Disk' = Disk /\ Notes' = Notes
    BY <1>1, <2>1 DEF Disk, Notes
  <2>3. NotesTypes'
    BY <1>1, <2>1, <2>2 DEF NotesInv, NotesTypes, Distinct
  <2> QED  BY <1>1, <2>1, <2>2, <2>3
           DEF NotesInv, MadeInv, KindsInv, PlacesInv, SavedInv, Ordered, Attached
<1> QED  BY <1>2, <1>3

LEMMA CloseStep == NotesInv /\ Close => NotesInv'
<1> SUFFICES ASSUME NotesInv, Close PROVE NotesInv'
  OBVIOUS
<1>1. /\ UNCHANGED <<stored, opens, room, made, saved, deleted, moved, inner, late>>
      /\ phase' = "closed" /\ list' = <<>> /\ changed' = FALSE /\ asked' = <<>>
  BY DEF Close, noteHistory
<1>2. Disk' = Disk /\ Notes' = ToSet(Disk) /\ Notes' \subseteq Notes
  BY <1>1 DEF Disk, Notes, ToSet
<1>3. Distinct(<<>>) /\ Ordered(<<>>, moved) /\ Attached(<<>>)'
  BY DEF Distinct, Ordered, Attached, ToSet
<1>4. NotesTypes'
  <2>1. list' \in Seq(Note) /\ asked' \in Seq(Asked)
    BY <1>1
  <2> QED  BY <1>1, <1>2, <1>3, <2>1 DEF NotesInv, NotesTypes, Distinct
<1>5. MadeInv'
  BY <1>1, <1>2 DEF NotesInv, MadeInv
<1>6. KindsInv'
  BY <1>1, <1>2 DEF NotesInv, KindsInv
<1>7. PlacesInv'
  BY <1>1, <1>2, <1>3 DEF NotesInv, PlacesInv, Ordered, Attached
<1>8. SavedInv'
  BY <1>1, <1>2 DEF NotesInv, SavedInv
<1> QED  BY <1>4, <1>5, <1>6, <1>7, <1>8 DEF NotesInv

\* A call may name as its parent what is a collection of the list.
LEMMA AskKeeps ==
    ASSUME NotesInv, NEW call \in Asked, Ask(call),
           \/ call.parent = None
           \/ \E c \in Collections : call.parent = c.id
    PROVE  NotesInv'
<1>1. /\ UNCHANGED <<phase, list, changed, stored, opens, made, saved, deleted, moved, inner, late>>
      /\ room' = room - 1 - call.chapters /\ room > call.chapters
      /\ asked' = Append(asked, call)
  BY DEF Ask, noteHistory
<1>2. asked \in Seq(Asked) /\ NotesTypes
  BY DEF NotesInv, NotesTypes
<1>3. \A k \in DOMAIN asked' : asked'[k] = call \/ \E j \in DOMAIN asked : asked'[k] = asked[j]
  BY <1>1, <1>2
<1>4. Disk' = Disk /\ Notes' = Notes
  BY <1>1 DEF Disk, Notes
<1>5. NotesTypes'
  <2>1. room' \in Nat
    BY <1>1, <1>2, ClientAssumption DEF NotesTypes, Asked
  <2>2. asked' \in Seq(Asked)
    BY <1>1, <1>2
  <2> QED  BY <1>1, <1>2, <1>4, <2>1, <2>2 DEF NotesTypes, Distinct
<1>6. call.parent # None => \E c \in Notes : c.coll /\ call.parent = c.id /\ c.id \in 1..made
  <2> SUFFICES ASSUME call.parent # None
               PROVE  \E c \in Notes : c.coll /\ call.parent = c.id /\ c.id \in 1..made
    OBVIOUS
  <2>1. PICK c \in Collections : call.parent = c.id
    OBVIOUS
  <2>2. c \in ToSet(list) /\ c.coll
    BY <2>1 DEF Collections
  <2>3. c.id \in IdsOf(list) /\ c \in Notes
    BY <2>2, ElementsOf DEF Notes
  <2>4. c.id \in 1..made
    BY <2>3, DiskIdsAreMade DEF NotesInv
  <2> QED  BY <2>1, <2>2, <2>3, <2>4
<1>7. MadeInv'
  <2>1. \A k \in DOMAIN asked' : asked'[k].parent \in 1..made \union {None}
    BY <1>3, <1>6 DEF NotesInv, MadeInv
  <2> QED  BY <1>1, <1>4, <2>1 DEF NotesInv, MadeInv
<1>8. KindsInv'
  <2>1. ASSUME NEW b \in Notes, call.parent = b.id PROVE b.coll
    <3>1. call.parent # None
      BY <1>2, <2>1, NotesAreNotes
    <3>2. PICK c \in Notes : c.coll /\ c.id = b.id
      BY <1>6, <2>1, <3>1
    <3> QED  BY <3>2 DEF NotesInv, KindsInv
  <2>2. \A b \in Notes : \A k \in DOMAIN asked' : asked'[k].parent = b.id => b.coll
    BY <1>3, <2>1 DEF NotesInv, KindsInv
  <2> QED  BY <1>1, <1>4, <2>2 DEF NotesInv, KindsInv
<1>9. PlacesInv' /\ SavedInv'
  BY <1>1, <1>4 DEF NotesInv, PlacesInv, SavedInv, Ordered, Attached
<1> QED  BY <1>5, <1>7, <1>8, <1>9 DEF NotesInv

LEMMA AskStep == NotesInv /\ (AskNote \/ AskIn \/ AskTemplate) => NotesInv'
<1> SUFFICES ASSUME NotesInv, AskNote \/ AskIn \/ AskTemplate PROVE NotesInv'
  OBVIOUS
<1>1. CASE AskNote
  <2> DEFINE call == [parent |-> None, coll |-> FALSE, chapters |-> 0]
  <2>1. call \in Asked /\ call.parent = None /\ Ask(call)
    BY <1>1, ClientAssumption DEF AskNote, Asked
  <2> HIDE DEF call
  <2> QED  BY <2>1, AskKeeps
<1>2. CASE AskTemplate
  <2> DEFINE call == [parent |-> None, coll |-> TRUE, chapters |-> Chapters]
  <2>1. call \in Asked /\ call.parent = None /\ Ask(call)
    BY <1>2, ClientAssumption DEF AskTemplate, Asked
  <2> HIDE DEF call
  <2> QED  BY <2>1, AskKeeps
<1>3. CASE AskIn
  <2>1. PICK c \in Collections, coll \in BOOLEAN :
          Ask([parent |-> c.id, coll |-> coll, chapters |-> 0])
    BY <1>3 DEF AskIn
  <2> DEFINE call == [parent |-> c.id, coll |-> coll, chapters |-> 0]
  <2>2. c \in Note /\ 0 \in 0..Chapters
    BY ElementsOf, ClientAssumption DEF NotesInv, NotesTypes, Collections
  <2>3. call \in Asked /\ call.parent = c.id /\ Ask(call)
    BY <2>1, <2>2 DEF Asked, Note
  <2> HIDE DEF call
  <2> QED  BY <2>1, <2>3, AskKeeps
<1> QED  BY <1>1, <1>2, <1>3

LEMMA NextChapterIs ==
    ASSUME NEW n \in Note, NEW call \in Asked
    PROVE  /\ NextChapter(n, call) \in Seq(Asked)
           /\ \A k \in DOMAIN NextChapter(n, call) :
                NextChapter(n, call)[k].parent = IF n.coll THEN n.id ELSE n.parent
<1> DEFINE next == [parent |-> IF n.coll THEN n.id ELSE n.parent, coll |-> FALSE,
                    chapters |-> call.chapters - 1]
<1>1. CASE call.chapters = 0
  BY <1>1 DEF NextChapter
<1>2. CASE call.chapters # 0
  <2>1. next \in Asked /\ next.parent = IF n.coll THEN n.id ELSE n.parent
    <3>1. (IF n.coll THEN n.id ELSE n.parent) \in Ids \union {None}
      BY DEF Note
    <3>2. call.chapters - 1 \in 0..Chapters
      BY <1>2, ClientAssumption DEF Asked
    <3> QED  BY <3>1, <3>2 DEF Asked
  <2>2. NextChapter(n, call) = <<next>>
    BY <1>2 DEF NextChapter
  <2> HIDE DEF next
  <2> QED  BY <2>1, <2>2
<1> QED  BY <1>1, <1>2

LEMMA AnswerStep == NotesInv /\ Answer => NotesInv'
<1> SUFFICES ASSUME NotesInv, Answer PROVE NotesInv'
  OBVIOUS
<1> DEFINE call == Head(asked)
           n == [id |-> made + 1, parent |-> call.parent, coll |-> call.coll]
           next == NextChapter(n, call)
<1>1. /\ UNCHANGED <<phase, stored, opens, room, saved, deleted, moved>>
      /\ asked # <<>> /\ list' = Inserted(list, n) /\ changed' = TRUE
      /\ asked' = Tail(asked) \o next /\ made' = made + 1
      /\ inner' = IF n.coll /\ n.parent # None THEN inner \union {n.id} ELSE inner
      /\ late' = IF InPlace(n) THEN late ELSE late \union {n.id}
  BY DEF Answer, SetNotes
<1>2. NotesTypes /\ asked \in Seq(Asked) /\ list \in Seq(Note) /\ made \in Ids /\ made \in Nat
  BY DEF NotesInv, NotesTypes, Ids
<1>3. /\ 1 \in DOMAIN asked /\ call = asked[1] /\ call \in Asked
      /\ \A k \in DOMAIN Tail(asked) : k + 1 \in DOMAIN asked /\ Tail(asked)[k] = asked[k + 1]
      /\ Tail(asked) \in Seq(Asked)
  BY <1>1, <1>2
<1> HIDE DEF call
<1>4. /\ n \in Note /\ n.id = made + 1 /\ n.parent = call.parent
      /\ n.parent \in 1..made \union {None}
  <2>1. call.parent \in 1..made \union {None}
    BY <1>3 DEF NotesInv, MadeInv
  <2>2. made + 1 \in Ids /\ call.parent \in Ids \union {None} /\ call.coll \in BOOLEAN
    BY <1>2, <1>3 DEF Ids, Asked
  <2> QED  BY <2>1, <2>2 DEF Note
<1> HIDE DEF n
<1>5. /\ next \in Seq(Asked)
      /\ \A k \in DOMAIN next : next[k].parent = IF n.coll THEN n.id ELSE n.parent
  BY <1>3, <1>4, NextChapterIs
<1> HIDE DEF next
<1>6. /\ asked' \in Seq(Asked)
      /\ \A k \in DOMAIN asked' :
           \/ \E j \in DOMAIN asked : asked'[k] = asked[j]
           \/ asked'[k].parent = IF n.coll THEN n.id ELSE n.parent
  <2> DEFINE rest == Tail(asked)
  <2>1. rest \in Seq(Asked) /\ \A k \in DOMAIN rest : k + 1 \in DOMAIN asked /\ rest[k] = asked[k + 1]
    BY <1>3
  <2>2. asked' = rest \o next
    BY <1>1
  <2> HIDE DEF rest
  <2>3. /\ asked' \in Seq(Asked)
        /\ \A k \in DOMAIN asked' : \/ k \in DOMAIN rest /\ asked'[k] = rest[k]
                                    \/ \E j \in DOMAIN next : asked'[k] = next[j]
    <3>1. Len(rest) \in Nat /\ Len(next) \in Nat /\ DOMAIN rest = 1..Len(rest) /\ DOMAIN next = 1..Len(next)
      BY <1>5, <2>1
    <3>2. asked' \in Seq(Asked) /\ DOMAIN asked' = 1..(Len(rest) + Len(next))
      BY <1>5, <2>1, <2>2
    <3>3. \A k \in 1..Len(rest) : asked'[k] = rest[k]
      BY <1>5, <2>1, <2>2
    <3>4. \A k \in (Len(rest) + 1)..(Len(rest) + Len(next)) :
            k - Len(rest) \in DOMAIN next /\ asked'[k] = next[k - Len(rest)]
      BY <1>5, <2>1, <2>2, <3>1
    <3> QED  BY <3>1, <3>2, <3>3, <3>4
  <2> QED  BY <1>5, <2>1, <2>3
<1>7. PICK p \in Nat :
        /\ Inserts(list, list', p, n)
        /\ n.parent # None => \A i \in DOMAIN list : list[i].parent = n.parent => i < p
  BY <1>1, <1>2, <1>4, InsertedIs
<1>8. Disk' = Disk
  BY <1>1 DEF Disk
<1>9. /\ \A a \in Notes : a.id \in Nat /\ a.id <= made /\ a.parent \in 1..made \union {None}
      /\ None \notin Nat
  BY <1>2, NotesAreNotes DEF NotesInv, MadeInv
<1>10. n.id \notin IdsOf(list) /\ \A i \in DOMAIN list : list[i].id < n.id
  <2>1. \A a \in ToSet(list) : a.id < n.id
    BY <1>2, <1>4, <1>9 DEF Notes
  <2>2. \A a \in ToSet(list) : a.id # n.id
    BY <1>2, <1>4, <1>9 DEF Notes
  <2> QED  BY <2>1, <2>2, ElementsOf
<1>11. /\ list' \in Seq(Note) /\ ToSet(list') = ToSet(list) \union {n}
       /\ Distinct(list') /\ Ordered(list', moved)
  <2>1. Distinct(list) /\ Ordered(list, moved)
    BY DEF NotesInv, NotesTypes, PlacesInv
  <2> QED  BY <1>2, <1>4, <1>7, <1>10, <2>1, InsertingKeeps
<1>12. Notes' = Notes \union {n}
  BY <1>8, <1>11 DEF Notes
<1>13. IdsOf(list') = IdsOf(list) \union {n.id}
  BY <1>11, ElementsOf
<1>14. NotesTypes'
  <2>1. made' \in Ids
    BY <1>1, <1>2 DEF Ids
  <2> QED  BY <1>1, <1>2, <1>6, <1>8, <1>11, <2>1 DEF NotesTypes, Distinct
<1>15. MadeInv'
  <2>1. /\ made' \in Nat /\ 1..made \subseteq 1..made' /\ n.id \in 1..made'
        /\ n.parent \in 1..made' \union {None} /\ made' >= Len(Defaults)
    <3>1. made >= Len(Defaults) /\ Len(Defaults) \in Nat
      BY ClientAssumption DEF NotesInv, MadeInv
    <3> QED  BY <1>1, <1>2, <1>4, <3>1
  <2>2. \A a \in Notes' : a.id <= made' /\ a.parent \in 1..made' \union {None}
    BY <1>1, <1>2, <1>4, <1>9, <1>12, <2>1
  <2>3. \A k \in DOMAIN asked' : asked'[k].parent \in 1..made' \union {None}
    BY <1>6, <2>1 DEF NotesInv, MadeInv
  <2>4. inner' \subseteq 1..made' /\ late' \subseteq 1..made'
    BY <1>1, <2>1 DEF NotesInv, MadeInv
  <2>5. saved' \subseteq 1..made' /\ deleted' \subseteq 1..made' /\ moved' \subseteq 1..made'
    BY <1>1, <2>1 DEF NotesInv, MadeInv
  <2> QED  BY <2>1, <2>2, <2>3, <2>4, <2>5 DEF MadeInv
<1>16. KindsInv'
  <2>1. /\ \A a \in Notes : a.id # n.id /\ a.parent # n.id
        /\ n.parent # n.id
        /\ \A k \in DOMAIN asked : asked[k].parent # n.id
    <3>1. \A x \in 1..made \union {None} : x # made + 1
      BY <1>2, <1>9
    <3>2. \A a \in Notes : a.id # made + 1
      BY <1>2, <1>9
    <3> QED  BY <1>4, <1>9, <3>1, <3>2 DEF NotesInv, MadeInv
  <2>2. \A b \in Notes : n.parent = b.id => b.coll
    BY <1>3, <1>4 DEF NotesInv, KindsInv
  <2>3. ASSUME NEW b \in Notes'
        PROVE  \A a \in Notes' : (a.id = b.id => a.coll = b.coll) /\ (a.parent = b.id => b.coll)
    BY <1>12, <2>1, <2>2 DEF NotesInv, KindsInv
  <2>4. ASSUME NEW b \in Notes', NEW k \in DOMAIN asked', asked'[k].parent = b.id
        PROVE  b.coll
    <3>1. CASE \E j \in DOMAIN asked : asked'[k] = asked[j]
      BY <1>12, <2>1, <2>4, <3>1 DEF NotesInv, KindsInv
    <3>2. CASE asked'[k].parent = IF n.coll THEN n.id ELSE n.parent
      BY <1>12, <2>1, <2>2, <2>4, <3>2
    <3> QED  BY <1>6, <3>1, <3>2
  <2> QED  BY <2>3, <2>4 DEF KindsInv
<1>17. PlacesInv'
  <2>1. inner \subseteq inner' /\ late \subseteq late'
    BY <1>1
  <2>2. Ordered(list, moved)' /\ Ordered(Disk, moved)'
    BY <1>1, <1>8, <1>11 DEF NotesInv, PlacesInv, Ordered
  <2>3. Attached(Disk)'
    BY <1>8, <2>1 DEF NotesInv, PlacesInv, Attached
  <2>4. Attached(list)'
    <3>1. \A a \in ToSet(list) :
            a.parent \in IdsOf(list') \union {None} \/ a.parent \in inner' \/ a.id \in late'
      BY <1>13, <2>1 DEF NotesInv, PlacesInv, Attached
    <3>2. n.parent \in IdsOf(list') \union {None} \/ n.id \in late'
      BY <1>1, <1>13 DEF InPlace
    <3> QED  BY <1>11, <3>1, <3>2 DEF Attached
  <2>5. \A a \in Notes' : a.coll /\ a.parent # None => a.id \in inner'
    BY <1>1, <1>12, <2>1 DEF NotesInv, PlacesInv
  <2> QED  BY <2>2, <2>3, <2>4, <2>5 DEF PlacesInv
<1>18. SavedInv'
  BY <1>1, <1>8, <1>13 DEF NotesInv, SavedInv
<1> QED  BY <1>14, <1>15, <1>16, <1>17, <1>18 DEF NotesInv

\* What is deleted may leave behind only what is in a collection of a collection.
LEMMA DeleteKeeps ==
    ASSUME NotesInv, NEW ids \in SUBSET IdsOf(list), Delete(ids),
           \A a \in ToSet(list) : a.id \notin ids /\ a.parent \in ids => a.parent \in inner
    PROVE  NotesInv'
<1>1. /\ UNCHANGED <<phase, asked, stored, opens, made, saved, moved, inner, late>>
      /\ room > 0 /\ room' = room - 1 /\ changed' = TRUE
      /\ list' = Without(list, ids) /\ deleted' = deleted \union ids
  BY DEF Delete, Act, SetNotes
<1>2. NotesTypes /\ list \in Seq(Note) /\ Distinct(list) /\ Ordered(list, moved)
  BY DEF NotesInv, NotesTypes, PlacesInv
<1>3. /\ list' \in Seq(Note) /\ Distinct(list') /\ Ordered(list', moved)
      /\ \A n : n \in ToSet(list') <=> n \in ToSet(list) /\ n.id \notin ids
  BY <1>1, <1>2, WithoutKeeps
<1>4. \A id : id \in IdsOf(list') <=> id \in IdsOf(list) /\ id \notin ids
  BY <1>3, ElementsOf
<1>5. Disk' = Disk /\ Notes' \subseteq Notes
  BY <1>1, <1>3 DEF Disk, Notes
<1>6. NotesTypes'
  <2>1. room' \in Nat
    BY <1>1, <1>2 DEF NotesTypes
  <2> QED  BY <1>1, <1>2, <1>3, <1>5, <2>1 DEF NotesTypes, Distinct
<1>7. MadeInv'
  <2>1. deleted' \subseteq 1..made'
    BY <1>1, <1>2, DiskIdsAreMade DEF NotesInv, MadeInv
  <2> QED  BY <1>1, <1>5, <2>1 DEF NotesInv, MadeInv
<1>8. KindsInv'
  BY <1>1, <1>5 DEF NotesInv, KindsInv
<1>9. PlacesInv'
  <2>1. Attached(list)'
    <3>1. \A a \in ToSet(list) : a.id \notin ids =>
            a.parent \in IdsOf(list') \union {None} \/ a.parent \in inner \/ a.id \in late
      BY <1>4 DEF NotesInv, PlacesInv, Attached
    <3> QED  BY <1>1, <1>3, <3>1 DEF Attached
  <2>2. Ordered(list, moved)' /\ Ordered(Disk, moved)' /\ Attached(Disk)'
    BY <1>1, <1>3, <1>5 DEF NotesInv, PlacesInv, Ordered, Attached
  <2> QED  BY <1>1, <1>5, <2>1, <2>2 DEF NotesInv, PlacesInv
<1>10. SavedInv'
  BY <1>1, <1>4, <1>5 DEF NotesInv, SavedInv
<1> QED  BY <1>6, <1>7, <1>8, <1>9, <1>10 DEF NotesInv

LEMMA DeleteStep == NotesInv /\ (DeleteNote \/ DeleteCollection) => NotesInv'
<1> SUFFICES ASSUME NotesInv, DeleteNote \/ DeleteCollection PROVE NotesInv'
  OBVIOUS
<1>1. /\ ToSet(list) \subseteq Notes /\ None \notin Nat
      /\ \A n \in ToSet(list) : n.id # None /\ n.id \in IdsOf(list)
  BY NotesAreNotes, ElementsOf DEF NotesInv, Notes
\* A collection that is in another is one of those in inner.
<1>2. \A a, d \in ToSet(list) : a.parent = d.id /\ d.parent # None => d.id \in inner
  BY <1>1 DEF NotesInv, KindsInv, PlacesInv
<1>3. CASE DeleteNote
  <2>1. PICK n \in ToSet(list) : (n.coll => n.parent # None) /\ Delete({n.id})
    BY <1>3 DEF DeleteNote
  <2>2. \A a \in ToSet(list) : a.parent \in {n.id} => a.parent \in inner
    BY <1>1, <1>2, <2>1 DEF NotesInv, KindsInv
  <2> QED  BY <1>1, <2>1, <2>2, DeleteKeeps
<1>4. CASE DeleteCollection
  <2>1. PICK c \in Collections : Delete(WithChildren(list, c.id))
    BY <1>4 DEF DeleteCollection
  <2> DEFINE ids == WithChildren(list, c.id)
  <2>2. c \in ToSet(list) /\ c.id # None
    BY <1>1 DEF Collections
  <2>3. \A id : id \in ids <=> id = c.id \/ \E d \in ToSet(list) : d.parent = c.id /\ id = d.id
    BY DEF WithChildren, ToSet
  <2> HIDE DEF ids
  <2>4. ids \in SUBSET IdsOf(list)
    BY <1>1, <2>2, <2>3
  <2>5. ASSUME NEW a \in ToSet(list), a.id \notin ids, a.parent \in ids
        PROVE  a.parent \in inner
    <3>1. a.parent # c.id
      BY <2>3, <2>5
    <3>2. PICK d \in ToSet(list) : d.parent = c.id /\ a.parent = d.id
      BY <2>3, <2>5, <3>1
    <3> QED  BY <1>2, <2>2, <3>2
  <2> QED  BY <2>1, <2>4, <2>5, DeleteKeeps DEF ids
<1> QED  BY <1>3, <1>4

\* A note that is moved goes out of its collection, or is none itself and goes
\* into one that is listed.
LEMMA MovedKeeps ==
    ASSUME NotesInv, NEW s \in Seq(Note), NEW ids \in SUBSET IdsOf(list), Moved(s, ids),
           Distinct(s), Ordered(s, moved \union ids), IdsOf(s) = IdsOf(list),
           \A a \in ToSet(s) :
             \/ a \in ToSet(list)
             \/ /\ \E b \in ToSet(list) : a.id = b.id /\ a.coll = b.coll
                /\ \/ a.parent = None
                   \/ ~a.coll /\ \E c \in Collections : a.parent = c.id
    PROVE  NotesInv'
<1>1. /\ UNCHANGED <<phase, asked, stored, opens, made, saved, deleted, inner, late>>
      /\ room > 0 /\ room' = room - 1 /\ changed' = TRUE
      /\ list' = s /\ moved' = moved \union ids
  BY DEF Moved, Act, SetNotes
<1>2. Disk' = Disk
  BY <1>1 DEF Disk
<1>3. \A a \in Notes' :
        \/ a \in Notes
        \/ /\ a \in ToSet(s) /\ \E b \in Notes : a.id = b.id /\ a.coll = b.coll
           /\ \/ a.parent = None
              \/ ~a.coll /\ \E c \in Notes : c.coll /\ a.parent = c.id /\ c.id \in IdsOf(list)
  BY <1>1, <1>2, ElementsOf DEF Notes, Collections
<1>4. NotesTypes'
  BY <1>1, <1>2 DEF NotesInv, NotesTypes, Distinct
<1>5. IdsOf(list) \subseteq 1..made
  BY DiskIdsAreMade DEF NotesInv
<1>6. MadeInv'
  <2>1. \A a \in Notes' : a.id <= made /\ a.parent \in 1..made \union {None}
    BY <1>3, <1>5 DEF NotesInv, MadeInv
  <2>2. moved' \subseteq 1..made
    BY <1>1, <1>5 DEF NotesInv, MadeInv
  <2> QED  BY <1>1, <2>1, <2>2 DEF NotesInv, MadeInv
<1>7. KindsInv'
  <2>1. \A a \in Notes' : \E b \in Notes : a.id = b.id /\ a.coll = b.coll
    BY <1>3
  <2>2. \A b \in Notes : b.id # None
    BY NotesAreNotes DEF NotesInv
  <2>3. \A a \in Notes', b \in Notes : a.parent = b.id => b.coll
    BY <1>3, <2>2 DEF NotesInv, KindsInv
  <2>4. \A a \in Notes', b \in Notes' : a.parent = b.id => b.coll
    BY <2>1, <2>3
  <2>5. \A a, b \in Notes' : a.id = b.id => a.coll = b.coll
    BY <2>1 DEF NotesInv, KindsInv
  <2>6. \A b \in Notes' : \A k \in DOMAIN asked' : asked'[k].parent = b.id => b.coll
    BY <1>1, <2>1 DEF NotesInv, KindsInv
  <2> QED  BY <2>4, <2>5, <2>6 DEF KindsInv
<1>8. PlacesInv'
  <2>1. Ordered(list, moved)' /\ Ordered(Disk, moved)'
    BY <1>1, <1>2 DEF NotesInv, PlacesInv, Ordered
  <2>2. Attached(list)'
    <3>1. \A a \in ToSet(list) : a.parent \in IdsOf(s) \union {None} \/ a.parent \in inner \/ a.id \in late
      BY DEF NotesInv, PlacesInv, Attached
    <3>2. \A c \in Collections : c.id \in IdsOf(s)
      BY ElementsOf DEF Collections
    <3> QED  BY <1>1, <3>1, <3>2 DEF Attached
  <2>3. Attached(Disk)'
    BY <1>1, <1>2 DEF NotesInv, PlacesInv, Attached
  <2>4. \A a \in Notes' : a.coll /\ a.parent # None => a.id \in inner'
    BY <1>1, <1>3 DEF NotesInv, PlacesInv
  <2> QED  BY <2>1, <2>2, <2>3, <2>4 DEF PlacesInv
<1>9. SavedInv'
  BY <1>1, <1>2 DEF NotesInv, SavedInv
<1> QED  BY <1>4, <1>6, <1>7, <1>8, <1>9 DEF NotesInv

LEMMA MoveStep == NotesInv /\ (MoveUpOrDown \/ MoveInto \/ MoveOut) => NotesInv'
<1> SUFFICES ASSUME NotesInv, MoveUpOrDown \/ MoveInto \/ MoveOut PROVE NotesInv'
  OBVIOUS
<1>1. list \in Seq(Note) /\ Distinct(list) /\ Ordered(list, moved)
  BY DEF NotesInv, NotesTypes, PlacesInv
<1>2. /\ \A i \in DOMAIN list : list[i] \in ToSet(list) /\ list[i].id \in IdsOf(list)
      /\ \A n \in ToSet(list) : n.id \in Ids
  <2>1. \A i \in DOMAIN list : list[i] \in Note
    BY <1>1
  <2>2. \A n \in Note : n.id \in Ids
    BY DEF Note
  <2> QED  BY <2>1, <2>2 DEF ToSet, IdsOf
<1>3. CASE MoveUpOrDown
  <2>1. PICK i \in DOMAIN list, j \in DOMAIN list :
          Moved(Swapped(list, i, j), {list[i].id, list[j].id})
    BY <1>3 DEF MoveUpOrDown
  <2> DEFINE s == Swapped(list, i, j)
             ids == {list[i].id, list[j].id}
  <2>2. s \in Seq(Note) /\ ToSet(s) = ToSet(list) /\ Distinct(s) /\ Ordered(s, moved \union ids)
    BY <1>1, SwappedKeeps
  <2>3. ids \in SUBSET IdsOf(list) /\ Moved(s, ids)
    BY <1>2, <2>1
  <2> HIDE DEF s, ids
  <2>4. IdsOf(s) = IdsOf(list)
    <3>1. \A id : id \in IdsOf(s) <=> id \in IdsOf(list)
      BY <2>2, ElementsOf
    <3> QED  BY <3>1
  <2> QED  BY <2>2, <2>3, <2>4, MovedKeeps
<1>4. ASSUME NEW i \in DOMAIN list, NEW p \in Ids \union {None},
             Moved(WithParent(list, i, p), {list[i].id}),
             p = None \/ (~list[i].coll /\ \E c \in Collections : p = c.id)
      PROVE  NotesInv'
  <2> DEFINE s == WithParent(list, i, p)
             ids == {list[i].id}
  <2>1. /\ s \in Seq(Note) /\ IdsOf(s) = IdsOf(list) /\ Distinct(s)
        /\ Ordered(s, moved \union ids)
        /\ \A a \in ToSet(s) : \/ a \in ToSet(list)
                               \/ a.id = list[i].id /\ a.coll = list[i].coll /\ a.parent = p
    BY <1>1, WithParentKeeps
  <2>2. ids \in SUBSET IdsOf(list) /\ Moved(s, ids)
    BY <1>2, <1>4
  <2> HIDE DEF s, ids
  <2>3. \A a \in ToSet(s) :
          \/ a \in ToSet(list)
          \/ /\ \E b \in ToSet(list) : a.id = b.id /\ a.coll = b.coll
             /\ \/ a.parent = None
                \/ ~a.coll /\ \E c \in Collections : a.parent = c.id
    BY <1>2, <1>4, <2>1
  <2> QED  BY <2>1, <2>2, <2>3, MovedKeeps
<1>5. CASE MoveInto
  <2>1. PICK i \in DOMAIN list, c \in Collections :
          ~list[i].coll /\ Moved(WithParent(list, i, c.id), {list[i].id})
    BY <1>5 DEF MoveInto
  <2>2. c.id \in Ids
    BY <1>2 DEF Collections
  <2> QED  BY <1>4, <2>1, <2>2
<1>6. CASE MoveOut
  <2>1. PICK i \in DOMAIN list : Moved(WithParent(list, i, None), {list[i].id})
    BY <1>6 DEF MoveOut
  <2>2. None \in Ids \union {None}
    OBVIOUS
  <2> QED  BY <1>4, <2>1, <2>2
<1> QED  BY <1>3, <1>5, <1>6

LEMMA NotesStep == NotesInv /\ [NotesNext]_clientVars => NotesInv'
<1> SUFFICES ASSUME NotesInv, [NotesNext]_clientVars PROVE NotesInv'
  OBVIOUS
<1>1. CASE NotesNext
  BY <1>1, OpenStep, LoadStep, SaveStep, CloseStep, AskStep, AnswerStep, DeleteStep, MoveStep
     DEF NotesNext
<1>2. CASE UNCHANGED clientVars
  BY <1>2 DEF clientVars, memory, noteHistory, NotesInv, NotesTypes, MadeInv, KindsInv,
              PlacesInv, SavedInv, Notes, Disk, Distinct, Ordered, Attached
<1> QED  BY <1>1, <1>2

-----------------------------------------------------------------------------
(***************************************************************************)
(* The two lists stay what the client can go on from: every id made before *)
(* it is used, every parent a collection, nothing saved lost from either.  *)
(***************************************************************************)
THEOREM NotesInductive == NotesSpec => []NotesInv
<1> QED  BY InitInv, NotesStep, PTL DEF NotesSpec

(***************************************************************************)
(* No two notes of the list have one id, whatever the client made, deleted *)
(* and loaded: the ids that createNote gives are not those of notes that   *)
(* another load brings back.                                               *)
(***************************************************************************)
THEOREM NotesTypesHold == NotesSpec => []NotesTypeOK
<1>1. NotesInv => NotesTypeOK
  <2> SUFFICES ASSUME NotesInv PROVE NotesTypeOK
    OBVIOUS
  <2>1. IsInjective([i \in DOMAIN list |-> list[i].id])
    BY DEF NotesInv, NotesTypes, Distinct, IsInjective
  <2> QED  BY <2>1 DEF NotesInv, NotesTypes, MadeInv, NotesTypeOK
<1> QED  BY <1>1, NotesInductive, PTL

(***************************************************************************)
(* Whatever was saved once is in the storage until it is deleted, whenever *)
(* the client is closed.                                                   *)
(***************************************************************************)
THEOREM SavedNotesStayHolds == NotesSpec => []SavedNotesStay
<1>1. NotesInv => SavedNotesStay
  BY DEF NotesInv, SavedInv, SavedNotesStay, Disk
<1> QED  BY <1>1, NotesInductive, PTL

(***************************************************************************)
(* The chapters of a collection stay in the order in which they were made, *)
(* but for those the user has moved.                                       *)
(***************************************************************************)
THEOREM ChaptersKeepTheirOrderHolds == NotesSpec => []ChaptersKeepTheirOrder
<1>1. NotesInv => ChaptersKeepTheirOrder
  BY DEF NotesInv, PlacesInv, Ordered, ChaptersKeepTheirOrder
<1> QED  BY <1>1, NotesInductive, PTL

(***************************************************************************)
(* Whenever the effect has run after the last change, closing the client   *)
(* loses nothing of what is shown, not only nothing of what was saved.     *)
(***************************************************************************)
THEOREM SettledIsSaved == NotesSpec => []RestIsSaved
<1>1. NotesInit => RestIsSaved
  BY DEF NotesInit, RestIsSaved, Loaded
<1>2. RestIsSaved /\ [NotesNext]_clientVars => RestIsSaved'
  <2> SUFFICES ASSUME RestIsSaved, [NotesNext]_clientVars PROVE RestIsSaved'
    OBVIOUS
  <2> USE DEF RestIsSaved, Loaded
  <2>1. CASE Open \/ Close
    BY <2>1 DEF Open, Close
  <2>2. CASE Load \/ Answer \/ DeleteNote \/ DeleteCollection
    BY <2>2 DEF Load, Answer, DeleteNote, DeleteCollection, Delete, SetNotes
  <2>3. CASE MoveUpOrDown \/ MoveInto \/ MoveOut
    BY <2>3 DEF MoveUpOrDown, MoveInto, MoveOut, Moved, SetNotes
  <2>4. CASE Save
    BY <2>4 DEF Save
  <2>5. CASE AskNote \/ AskIn \/ AskTemplate
    BY <2>5 DEF AskNote, AskIn, AskTemplate, Ask, noteHistory
  <2>6. CASE UNCHANGED clientVars
    BY <2>6 DEF clientVars, memory, noteHistory
  <2> QED  BY <2>1, <2>2, <2>3, <2>4, <2>5, <2>6 DEF NotesNext
<1> QED  BY <1>1, <1>2, PTL DEF NotesSpec

(***************************************************************************)
(* A deleted collection leaves nothing behind but what is made later or is *)
(* in a collection of it.                                                  *)
(***************************************************************************)
THEOREM LeftBehindHolds == NotesSpec => []LeftBehindAreInnerOrLate
<1>1. NotesInv => LeftBehindAreInnerOrLate
  BY DEF NotesInv, PlacesInv, Attached, InPlace, LeftBehindAreInnerOrLate
<1> QED  BY <1>1, NotesInductive, PTL
=============================================================================
