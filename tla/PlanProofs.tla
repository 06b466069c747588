------------------------------ MODULE PlanProofs ------------------------------
(***************************************************************************)
(* What binding plans are, for any sources and targets: sorting loses      *)
(* nothing and forgets the order that was given, what is bound resolved    *)
(* without a diagnostic, and shared sources are tied.                      *)
(***************************************************************************)
EXTENDS Plan, FiniteSetTheorems, WellFoundedInduction, TLAPS

-----------------------------------------------------------------------------
(* Numbers and counting *)

\* A set of natural numbers has a least element, which is what an induction
\* over positions takes.
LEMMA LeastNumber ==
    ASSUME NEW T, T \subseteq Nat, T # {}
    PROVE  \E n \in T : \A m \in T : n <= m
<1> DEFINE R == OpToRel(<, Nat)
<1>1. IsWellFoundedOn(R, Nat)
  BY NatLessThanWellFounded, Zenon
<1> HIDE DEF R
<1>2. PICK n \in T : \A m \in T : ~(<<m, n>> \in R)
  BY <1>1, WFMin
<1>3. \A m \in T : ~(m < n)
  BY <1>2 DEF R, OpToRel
<1> QED
  BY <1>3

LEMMA UpTo ==
    ASSUME NEW n \in Nat
    PROVE  IsFiniteSet(1 .. n) /\ Cardinality(1 .. n) = n
<1>1. 1 \in Int /\ n \in Int
  OBVIOUS
<1>2. /\ IsFiniteSet(1 .. n)
      /\ Cardinality(1 .. n) = IF 1 > n THEN 0 ELSE n - 1 + 1
  BY <1>1, FS_Interval
<1> QED
  BY <1>2

\* Two elements are more than one.
LEMMA Several ==
    ASSUME NEW S, IsFiniteSet(S)
    PROVE  Cardinality(S) > 1 <=> \E x, y \in S : x # y
<1>1. Cardinality(S) \in Nat
  BY FS_CardinalityType
<1>2. Cardinality(S) = 0 <=> S = {}
  BY FS_EmptySet
<1>3. Cardinality(S) = 1 <=> \E x : S = {x}
  BY FS_Singleton
<1> QED
  BY <1>1, <1>2, <1>3

\* A one-to-one map onto a set keeps the number of elements.
LEMMA SameNumber ==
    ASSUME NEW S, NEW T, IsFiniteSet(S), NEW f \in [S -> T],
           \A x, y \in S : f[x] = f[y] => x = y,
           \A y \in T : \E x \in S : f[x] = y
    PROVE  IsFiniteSet(T) /\ Cardinality(T) = Cardinality(S)
<1>1. f \in Surjection(S, T) /\ f \in Injection(S, T)
  BY DEF Surjection, Injection, IsInjective
<1> QED
  BY <1>1, FS_Surjection

\* Where of any two elements one has the other and all that is before the
\* other before it, the number of elements before one is its position.
LEMMA Positions ==
    ASSUME NEW S, IsFiniteSet(S), NEW B \in [S -> SUBSET S],
           \A x \in S : x \notin B[x],
           \A x, y \in S : x # y => \/ x \in B[y] /\ B[x] \subseteq B[y]
                                    \/ y \in B[x] /\ B[y] \subseteq B[x]
    PROVE  /\ \A x, y \in S : Cardinality(B[x]) = Cardinality(B[y]) => x = y
           /\ \A k \in 1 .. Cardinality(S) : \E x \in S : Cardinality(B[x]) = k - 1
           /\ \A x \in S : Cardinality(B[x]) + 1 \in 1 .. Cardinality(S)
<1> DEFINE n == Cardinality(S)
<1>1. n \in Nat
  BY FS_CardinalityType
<1>2. ASSUME NEW x \in S
      PROVE  IsFiniteSet(B[x]) /\ Cardinality(B[x]) \in Nat /\ Cardinality(B[x]) < n
  <2>1. B[x] \in SUBSET S /\ B[x] # S
    OBVIOUS
  <2>2. /\ IsFiniteSet(B[x]) /\ Cardinality(B[x]) <= n
        /\ (n = Cardinality(B[x]) => S = B[x])
    BY <2>1, FS_Subset
  <2>3. Cardinality(B[x]) \in Nat
    BY <2>2, FS_CardinalityType
  <2> QED
    BY <1>1, <2>1, <2>2, <2>3
<1>3. ASSUME NEW x \in S, NEW y \in S, x \in B[y], B[x] \subseteq B[y]
      PROVE  Cardinality(B[x]) # Cardinality(B[y])
  <2>1. B[x] \in SUBSET B[y] /\ B[x] # B[y]
    BY <1>3
  <2> QED
    BY <1>2, <2>1, FS_Subset
<1>4. \A x, y \in S : Cardinality(B[x]) = Cardinality(B[y]) => x = y
  BY <1>3
<1> DEFINE f == [x \in S |-> Cardinality(B[x]) + 1]
<1>5. f \in [S -> 1 .. n]
  BY <1>1, <1>2
<1>6. \A x, y \in S : f[x] = f[y] => x = y
  BY <1>2, <1>4
<1>7. IsFiniteSet(1 .. n) /\ Cardinality(1 .. n) = n
  BY <1>1, FS_Interval
<1> HIDE DEF n
<1>8. f \in Injection(S, 1 .. n)
  BY <1>5, <1>6 DEF Injection, IsInjective
<1>9. f \in Surjection(S, 1 .. n)
  BY <1>7, <1>8, FS_Injection DEF n
<1>10. ASSUME NEW k \in 1 .. n
       PROVE  \E x \in S : Cardinality(B[x]) = k - 1
  <2>1. PICK x \in S : f[x] = k
    BY <1>9 DEF Surjection
  <2> QED
    BY <1>2, <2>1
<1> QED
  BY <1>4, <1>5, <1>10 DEF n

-----------------------------------------------------------------------------
(* Sorting *)

\* A list of entries with names.
Entries(entries) ==
    /\ entries \in Seq(Range(entries))
    /\ \A k \in DOMAIN entries : entries[k].name \in Nat

\* No two entries have one name.
Distinct(entries) == \A i, j \in DOMAIN entries : entries[i].name = entries[j].name => i = j

\* f is e with its entries in the order p.
Arranged(e, f, p) ==
    /\ p \in [DOMAIN e -> DOMAIN e] /\ DOMAIN f = DOMAIN e
    /\ \A i, j \in DOMAIN e : p[i] = p[j] => i = j
    /\ \A j \in DOMAIN e : \E i \in DOMAIN e : p[i] = j
    /\ \A k \in DOMAIN e : f[k] = e[p[k]]

LEMMA EntriesFinite ==
    ASSUME NEW e, Entries(e)
    PROVE  /\ Len(e) \in Nat /\ DOMAIN e = 1 .. Len(e)
           /\ IsFiniteSet(DOMAIN e) /\ Cardinality(DOMAIN e) = Len(e)
<1>1. Len(e) \in Nat /\ DOMAIN e = 1 .. Len(e)
  BY DEF Entries
<1>2. IsFiniteSet(1 .. Len(e)) /\ Cardinality(1 .. Len(e)) = Len(e)
  BY <1>1, UpTo
<1> QED
  BY <1>1, <1>2

\* The entry at position k of the sorted list.
Nth(e, k) == CHOOSE i \in DOMAIN e : Cardinality(Before(e, i)) = k - 1

\* Every position is taken, by one entry.
LEMMA SortPositions ==
    ASSUME NEW e, Entries(e)
    PROVE  /\ \A i, j \in DOMAIN e : Cardinality(Before(e, i)) = Cardinality(Before(e, j)) => i = j
           /\ \A k \in DOMAIN e : \E i \in DOMAIN e : Cardinality(Before(e, i)) = k - 1
           /\ \A i \in DOMAIN e : Cardinality(Before(e, i)) + 1 \in DOMAIN e
<1> DEFINE S == DOMAIN e
           B == [i \in S |-> Before(e, i)]
<1>1. IsFiniteSet(S) /\ S = 1 .. Cardinality(S) /\ S \subseteq Nat
  BY EntriesFinite
<1>2. B \in [S -> SUBSET S]
  BY DEF Before
<1>3. \A i \in S : e[i].name \in Nat
  BY DEF Entries
<1>4. \A i \in S : i \notin B[i]
  BY <1>1, <1>3 DEF Before
<1>5. ASSUME NEW i \in S, NEW j \in S, i # j
      PROVE  \/ i \in B[j] /\ B[i] \subseteq B[j]
             \/ j \in B[i] /\ B[j] \subseteq B[i]
  <2>1. ASSUME NEW x \in S, NEW y \in S, e[x].name < e[y].name \/ (e[x].name = e[y].name /\ x < y)
        PROVE  x \in B[y] /\ B[x] \subseteq B[y]
    BY <1>1, <1>3, <2>1 DEF Before
  <2>2. \/ e[i].name < e[j].name \/ (e[i].name = e[j].name /\ i < j)
        \/ e[j].name < e[i].name \/ (e[j].name = e[i].name /\ j < i)
    BY <1>1, <1>3, <1>5
  <2> QED
    BY <2>1, <2>2
<1> HIDE DEF B
<1>6. /\ \A x, y \in S : Cardinality(B[x]) = Cardinality(B[y]) => x = y
      /\ \A k \in 1 .. Cardinality(S) : \E x \in S : Cardinality(B[x]) = k - 1
      /\ \A x \in S : Cardinality(B[x]) + 1 \in 1 .. Cardinality(S)
  BY <1>1, <1>2, <1>4, <1>5, Positions
<1> QED
  BY <1>1, <1>6 DEF B

\* Sorting loses no entry and makes none.
LEMMA SortArranges ==
    ASSUME NEW e, Entries(e)
    PROVE  Arranged(e, ByName(e), [k \in DOMAIN e |-> Nth(e, k)])
<1> DEFINE p == [k \in DOMAIN e |-> Nth(e, k)]
<1>1. ASSUME NEW k \in DOMAIN e
      PROVE  Nth(e, k) \in DOMAIN e /\ Cardinality(Before(e, Nth(e, k))) = k - 1
  <2>1. \E i \in DOMAIN e : Cardinality(Before(e, i)) = k - 1
    BY SortPositions
  <2> QED
    BY <2>1 DEF Nth
<1>2. DOMAIN e \subseteq Nat
  BY EntriesFinite
<1>3. p \in [DOMAIN e -> DOMAIN e]
  BY <1>1
<1>4. ASSUME NEW i \in DOMAIN e, NEW j \in DOMAIN e, p[i] = p[j]
      PROVE  i = j
  <2>1. i - 1 = j - 1
    BY <1>1, <1>4
  <2> QED
    BY <1>2, <2>1
<1>5. ASSUME NEW j \in DOMAIN e
      PROVE  \E i \in DOMAIN e : p[i] = j
  <2> DEFINE i == Cardinality(Before(e, j)) + 1
  <2>1. i \in DOMAIN e
    BY SortPositions
  <2>2. Cardinality(Before(e, Nth(e, i))) = i - 1 /\ Nth(e, i) \in DOMAIN e
    BY <1>1, <2>1
  <2>3. IsFiniteSet(Before(e, j))
    BY EntriesFinite, FS_Subset DEF Before
  <2>4. Cardinality(Before(e, j)) \in Nat
    BY <2>3, FS_CardinalityType
  <2>5. Cardinality(Before(e, Nth(e, i))) = Cardinality(Before(e, j))
    BY <2>2, <2>4
  <2>6. Nth(e, i) = j
    BY <2>2, <2>5, SortPositions
  <2> QED
    BY <2>1, <2>6
<1>6. DOMAIN ByName(e) = DOMAIN e /\ \A k \in DOMAIN e : ByName(e)[k] = e[p[k]]
  BY DEF ByName, Nth
<1> QED
  BY <1>3, <1>4, <1>5, <1>6 DEF Arranged

\* Another order of the entries of a list is a list.
LEMMA ArrangedEntries ==
    ASSUME NEW e, NEW f, NEW p, Entries(e), Arranged(e, f, p), f = [k \in DOMAIN f |-> f[k]]
    PROVE  Entries(f) /\ Len(f) = Len(e) /\ Range(f) = Range(e) /\ (Distinct(e) => Distinct(f))
<1>1. Len(e) \in Nat /\ DOMAIN e = 1 .. Len(e) /\ DOMAIN f = 1 .. Len(e)
  BY EntriesFinite DEF Arranged
<1>2. \A k \in DOMAIN f : f[k] \in Range(f)
  BY DEF Range
<1>3. f \in [1 .. Len(e) -> Range(f)]
  BY <1>1, <1>2
<1>4. f \in Seq(Range(f)) /\ Len(f) = Len(e)
  BY <1>1, <1>3
<1>5. \A k \in DOMAIN f : p[k] \in DOMAIN e /\ f[k] = e[p[k]]
  BY DEF Arranged
<1>6. Range(f) = Range(e)
  <2>1. ASSUME NEW j \in DOMAIN e PROVE e[j] \in Range(f)
    BY DEF Arranged, Range
  <2> QED
    BY <1>5, <2>1 DEF Range
<1>7. ASSUME Distinct(e) PROVE Distinct(f)
  BY <1>5, <1>7 DEF Distinct, Arranged
<1> QED
  BY <1>4, <1>5, <1>6, <1>7 DEF Entries

\* Where names are distinct, the sorted list does not depend on the order.
LEMMA SortForgets ==
    ASSUME NEW e, NEW f, NEW p, Entries(e), Entries(f), Distinct(e), Arranged(e, f, p)
    PROVE  ByName(f) = ByName(e)
<1>1. /\ DOMAIN f = DOMAIN e
      /\ \A k \in DOMAIN e : p[k] \in DOMAIN e /\ f[k] = e[p[k]]
      /\ \A i, j \in DOMAIN e : p[i] = p[j] => i = j
      /\ \A j \in DOMAIN e : \E i \in DOMAIN e : p[i] = j
  BY DEF Arranged
<1>2. \A i \in DOMAIN e : e[i].name \in Nat
  BY DEF Entries
<1>3. ASSUME NEW k \in DOMAIN e
      PROVE  Cardinality(Before(f, k)) = Cardinality(Before(e, p[k]))
  <2>0. DOMAIN e \subseteq Nat
    BY EntriesFinite
  <2>1. ASSUME NEW j \in DOMAIN e
        PROVE  j \in Before(f, k) <=> e[p[j]].name < e[p[k]].name
    <3>1. e[p[j]].name = e[p[k]].name => j = k
      BY <1>1 DEF Distinct
    <3>2. j \in Nat /\ k \in Nat /\ e[p[j]].name \in Nat /\ e[p[k]].name \in Nat
      BY <1>1, <1>2, <2>0
    <3>3. j \in Before(f, k) <=> \/ e[p[j]].name < e[p[k]].name
                                 \/ e[p[j]].name = e[p[k]].name /\ j < k
      BY <1>1 DEF Before
    <3> QED
      BY <3>1, <3>2, <3>3
  <2>2. ASSUME NEW j \in DOMAIN e
        PROVE  j \in Before(e, p[k]) <=> e[j].name < e[p[k]].name
    <3>1. e[j].name = e[p[k]].name => j = p[k]
      BY <1>1 DEF Distinct
    <3>2. j \in Nat /\ p[k] \in Nat /\ e[j].name \in Nat /\ e[p[k]].name \in Nat
      BY <1>1, <1>2, <2>0
    <3>3. j \in Before(e, p[k]) <=> \/ e[j].name < e[p[k]].name
                                    \/ e[j].name = e[p[k]].name /\ j < p[k]
      BY DEF Before
    <3> QED
      BY <3>1, <3>2, <3>3
  <2>3. Before(f, k) \subseteq DOMAIN e /\ Before(e, p[k]) \subseteq DOMAIN e
    BY <1>1 DEF Before
  <2> DEFINE g == [j \in Before(f, k) |-> p[j]]
  <2>4. g \in [Before(f, k) -> Before(e, p[k])]
    BY <1>1, <2>1, <2>2, <2>3
  <2>5. \A i, j \in Before(f, k) : g[i] = g[j] => i = j
    BY <1>1, <2>3
  <2>6. \A j \in Before(e, p[k]) : \E i \in Before(f, k) : g[i] = j
    BY <1>1, <2>1, <2>2, <2>3
  <2>7. IsFiniteSet(Before(f, k))
    BY <2>3, EntriesFinite, FS_Subset
  <2> QED
    BY <2>4, <2>5, <2>6, <2>7, SameNumber
<1>4. ASSUME NEW k \in DOMAIN e
      PROVE  f[Nth(f, k)] = e[Nth(e, k)]
  <2>1. \E i \in DOMAIN e : Cardinality(Before(e, i)) = k - 1
    BY SortPositions
  <2>2. Nth(e, k) \in DOMAIN e /\ Cardinality(Before(e, Nth(e, k))) = k - 1
    BY <2>1 DEF Nth
  <2>3. \E i \in DOMAIN f : Cardinality(Before(f, i)) = k - 1
    BY <1>1, SortPositions
  <2>4. Nth(f, k) \in DOMAIN f /\ Cardinality(Before(f, Nth(f, k))) = k - 1
    BY <2>3 DEF Nth
  <2>5. Cardinality(Before(e, p[Nth(f, k)])) = k - 1
    BY <1>1, <1>3, <2>4
  <2>6. \A i, j \in DOMAIN e : Cardinality(Before(e, i)) = Cardinality(Before(e, j)) => i = j
    BY SortPositions
  <2>7. p[Nth(f, k)] = Nth(e, k)
    <3>1. p[Nth(f, k)] \in DOMAIN e
      BY <1>1, <2>4
    <3>2. Cardinality(Before(e, p[Nth(f, k)])) = Cardinality(Before(e, Nth(e, k)))
      BY <2>2, <2>5
    <3> QED
      BY <2>2, <2>6, <3>1, <3>2
  <2> QED
    BY <1>1, <2>4, <2>7
<1>5. ByName(f) = [k \in DOMAIN f |-> f[Nth(f, k)]] /\ ByName(e) = [k \in DOMAIN e |-> e[Nth(e, k)]]
  BY DEF ByName, Nth
<1> QED
  BY <1>1, <1>4, <1>5

\* In a list whose neighbours ascend, all names do.
LEMMA Ascends ==
    ASSUME NEW e, Entries(e), SortedUnique(EntryNames(e))
    PROVE  \A i, j \in DOMAIN e : i < j => e[i].name < e[j].name
<1>1. Len(e) \in Nat /\ DOMAIN e = 1 .. Len(e) /\ \A k \in DOMAIN e : e[k].name \in Nat
  BY EntriesFinite DEF Entries
<1>2. /\ DOMAIN EntryNames(e) = 1 .. Len(e)
      /\ \A k \in DOMAIN e : EntryNames(e)[k] = e[k].name
  BY <1>1 DEF EntryNames
<1>3. Len(EntryNames(e)) = Len(e)
  <2>1. EntryNames(e) \in [1 .. Len(e) -> Nat]
    BY <1>1 DEF EntryNames
  <2> QED
    BY <1>1, <2>1
<1>4. \A k \in 2 .. Len(e) : e[k - 1].name < e[k].name
  <2>1. ASSUME NEW k \in 2 .. Len(e)
        PROVE  EntryNames(e)[k - 1] < EntryNames(e)[k] /\ k \in DOMAIN e /\ k - 1 \in DOMAIN e
    BY <1>1, <1>3 DEF SortedUnique
  <2> QED
    BY <1>2, <2>1
<1>5. SUFFICES ASSUME NEW i \in DOMAIN e
      PROVE  \A j \in DOMAIN e : i < j => e[i].name < e[j].name
  OBVIOUS
<1> DEFINE T == {j \in DOMAIN e : i < j /\ ~(e[i].name < e[j].name)}
<1>6. SUFFICES ASSUME T # {} PROVE FALSE
  OBVIOUS
<1>7. PICK j \in T : \A l \in T : j <= l
  <2>1. T \subseteq Nat
    BY <1>1
  <2> QED
    BY <1>6, <2>1, LeastNumber
<1>8. j \in 2 .. Len(e) /\ j - 1 \in DOMAIN e /\ j - 1 \notin T
  BY <1>1, <1>7
<1>9. e[j - 1].name < e[j].name
  BY <1>4, <1>8
<1>10. CASE j - 1 = i
  BY <1>7, <1>9, <1>10
<1>11. CASE j - 1 # i
  BY <1>1, <1>7, <1>8, <1>9, <1>11
<1> QED
  BY <1>10, <1>11

\* A list in strictly ascending order is its own sorted list.
LEMMA SortedStays ==
    ASSUME NEW e, Entries(e), SortedUnique(EntryNames(e))
    PROVE  ByName(e) = e /\ Distinct(e)
<1>1. Len(e) \in Nat /\ DOMAIN e = 1 .. Len(e) /\ \A k \in DOMAIN e : e[k].name \in Nat
  BY EntriesFinite DEF Entries
<1>2. \A i, j \in DOMAIN e : i < j => e[i].name < e[j].name
  BY Ascends
<1>3. Distinct(e)
  BY <1>1, <1>2 DEF Distinct
<1>4. ASSUME NEW k \in DOMAIN e
      PROVE  Cardinality(Before(e, k)) = k - 1
  <2>1. Before(e, k) = 1 .. k - 1
    BY <1>1, <1>2 DEF Before
  <2> QED
    BY <1>1, <2>1, FS_Interval
<1>5. ASSUME NEW k \in DOMAIN e
      PROVE  Nth(e, k) = k
  <2>1. Nth(e, k) \in DOMAIN e /\ Cardinality(Before(e, Nth(e, k))) = k - 1
    BY <1>4 DEF Nth
  <2> QED
    BY <1>4, <2>1, SortPositions
<1>6. e = [k \in DOMAIN e |-> e[k]]
  BY DEF Entries
<1> QED
  BY <1>3, <1>5, <1>6 DEF ByName, Nth

\* Ascending lists the members of a set.
LEMMA AscendingMembers ==
    ASSUME NEW S, S \subseteq Nat, IsFiniteSet(S)
    PROVE  /\ DOMAIN Ascending(S) = 1 .. Cardinality(S)
           /\ \A k \in DOMAIN Ascending(S) : Ascending(S)[k] \in S
<1> DEFINE B == [n \in S |-> {m \in S : m < n}]
<1>1. B \in [S -> SUBSET S]
  OBVIOUS
<1>2. \A n \in S : n \notin B[n]
  OBVIOUS
<1>3. ASSUME NEW x \in S, NEW y \in S, x # y
      PROVE  \/ x \in B[y] /\ B[x] \subseteq B[y]
             \/ y \in B[x] /\ B[y] \subseteq B[x]
  <2>1. ASSUME NEW v \in S, NEW w \in S, v < w
        PROVE  v \in B[w] /\ B[v] \subseteq B[w]
    <3>1. B[v] = {m \in S : m < v} /\ B[w] = {m \in S : m < w}
      OBVIOUS
    <3>2. \A m \in S : m < v => m < w
      BY <2>1
    <3> QED
      BY <2>1, <3>1, <3>2
  <2>2. x < y \/ y < x
    BY <1>3
  <2> QED
    BY <2>1, <2>2
<1> HIDE DEF B
<1>4. \A k \in 1 .. Cardinality(S) : \E n \in S : Cardinality(B[n]) = k - 1
  BY <1>1, <1>2, <1>3, Positions
<1>5. ASSUME NEW k \in 1 .. Cardinality(S)
      PROVE  (CHOOSE n \in S : Cardinality({m \in S : m < n}) = k - 1) \in S
  <2>1. PICK n \in S : Cardinality(B[n]) = k - 1
    BY <1>4
  <2>2. Cardinality({m \in S : m < n}) = k - 1
    BY <2>1 DEF B
  <2> QED
    BY <2>2
<1> QED
  BY <1>5 DEF Ascending

-----------------------------------------------------------------------------
(* What is bound *)

\* The lists of a request.
Asked(r) == Entries(r.sources) /\ Entries(r.targets)

\* Only targets that resolved are bound.
LEMMA BoundResolved ==
    ASSUME NEW r, Asked(r), NEW k \in DOMAIN Bound(r)
    PROVE  \E i \in Resolved(r) : Bound(r)[k] = r.targets[i]
<1> DEFINE targets == ByName(r.targets)
           kept == {m \in DOMAIN targets : Named(r.targets, targets[m].name) \subseteq Resolved(r)}
           p == [m \in DOMAIN r.targets |-> Nth(r.targets, m)]
<1>1. Arranged(r.targets, targets, p)
  BY SortArranges DEF Asked
<1>2. DOMAIN targets = DOMAIN r.targets /\ DOMAIN r.targets \subseteq Nat /\ IsFiniteSet(DOMAIN r.targets)
  BY <1>1, EntriesFinite DEF Asked, Arranged
<1>3. kept \subseteq Nat /\ IsFiniteSet(kept)
  BY <1>2, FS_Subset
<1>4. Bound(r) = [m \in DOMAIN Ascending(kept) |-> targets[Ascending(kept)[m]]]
  BY DEF Bound
<1> HIDE DEF kept, targets, p
<1>5. PICK m \in kept : Bound(r)[k] = targets[m]
  BY <1>3, <1>4, AscendingMembers
<1>6. m \in DOMAIN r.targets /\ Named(r.targets, targets[m].name) \subseteq Resolved(r)
  BY <1>2, <1>5 DEF kept
<1>7. p[m] \in DOMAIN r.targets /\ targets[m] = r.targets[p[m]]
  BY <1>1, <1>6 DEF Arranged
<1>8. p[m] \in Named(r.targets, targets[m].name)
  BY <1>7 DEF Named
<1> QED
  BY <1>5, <1>6, <1>7, <1>8

LEMMA BindingResolved ==
    ASSUME NEW r, Asked(r), NEW b \in Range(BuiltPlan(r).bindings)
    PROVE  \E i \in Resolved(r) : b = [sources |-> Selected(r, r.targets[i]), target |-> r.targets[i]]
<1>1. BuiltPlan(r).bindings =
        [k \in DOMAIN Bound(r) |-> [sources |-> Selected(r, Bound(r)[k]), target |-> Bound(r)[k]]]
  BY DEF BuiltPlan
<1>2. PICK k \in DOMAIN Bound(r) : b = [sources |-> Selected(r, Bound(r)[k]), target |-> Bound(r)[k]]
  BY <1>1 DEF Range
<1>3. PICK i \in Resolved(r) : Bound(r)[k] = r.targets[i]
  BY BoundResolved
<1> QED
  BY <1>2, <1>3

\* A set of entries of one name is finite.
LEMMA NamedFinite ==
    ASSUME NEW e, Entries(e), NEW name
    PROVE  IsFiniteSet(Named(e, name))
  BY EntriesFinite, FS_Subset DEF Named

LEMMA RepeatedNames ==
    ASSUME NEW e, Entries(e), NEW name
    PROVE  name \in Repeated(e) <=> \E i, j \in DOMAIN e : i # j /\ e[i].name = name /\ e[j].name = name
<1>1. \A n : Cardinality(Named(e, n)) > 1 <=> \E i, j \in Named(e, n) : i # j
  BY NamedFinite, Several
<1>2. name \in Repeated(e) <=> \E k \in DOMAIN e : e[k].name = name /\ Cardinality(Named(e, name)) > 1
  BY DEF Repeated
<1>3. \A i : i \in Named(e, name) <=> i \in DOMAIN e /\ e[i].name = name
  BY DEF Named
<1> QED
  BY <1>1, <1>2, <1>3

\* Accepted lists have distinct names.
LEMMA ValidDistinct ==
    ASSUME NEW r, Asked(r), PlanValid(r)
    PROVE  Distinct(r.sources) /\ Distinct(r.targets)
<1>1. NameDiagnostics(r) \subseteq Diagnostics(r)
  BY DEF Diagnostics
<1>2. ASSUME NEW name, name \in Repeated(r.sources) \cup Repeated(r.targets)
      PROVE  FALSE
  <2>1. \E d \in NameDiagnostics(r) : d.severity = "error"
    <3>1. /\ Diagnostic("error", "duplicateSource", name, {}).severity = "error"
          /\ Diagnostic("error", "duplicateTarget", name, {}).severity = "error"
      BY DEF Diagnostic
    <3>2. \/ Diagnostic("error", "duplicateSource", name, {}) \in NameDiagnostics(r)
          \/ Diagnostic("error", "duplicateTarget", name, {}) \in NameDiagnostics(r)
      BY <1>2 DEF NameDiagnostics
    <3> QED
      BY <3>1, <3>2
  <2> QED
    BY <1>1, <2>1 DEF PlanValid
<1> QED
  BY <1>2, RepeatedNames DEF Distinct, Asked

\* The sources of a target that resolved.
LEMMA SelectedSources ==
    ASSUME NEW r, NEW i \in Resolved(r)
    PROVE  LET t == r.targets[i]
           IN  /\ DOMAIN SourceIndices(r, t) = IF t.graph = Absent THEN {1} ELSE DOMAIN t.graph.inputs
               /\ \A k \in DOMAIN SourceIndices(r, t) : SourceIndices(r, t)[k] \in DOMAIN r.sources
<1> DEFINE t == r.targets[i]
<1>1. ~Missing(r, t)
  BY DEF Resolved
<1>2. CASE t.graph = Absent
  <2>1. Candidates(r, t) # {} /\ Candidates(r, t) \subseteq DOMAIN r.sources
    BY <1>1, <1>2 DEF Missing, Candidates, Named
  <2>2. (CHOOSE j \in Candidates(r, t) : TRUE) \in DOMAIN r.sources
    BY <2>1
  <2>3. SourceIndices(r, t) = <<CHOOSE j \in Candidates(r, t) : TRUE>>
    BY <1>2 DEF SourceIndices
  <2>4. \A x : DOMAIN <<x>> = {1} /\ <<x>>[1] = x
    OBVIOUS
  <2> QED
    BY <1>2, <2>2, <2>3, <2>4
<1>3. CASE t.graph # Absent
  <2>1. ASSUME NEW k \in DOMAIN t.graph.inputs
        PROVE  (CHOOSE j \in GraphCandidates(r, t, k) : TRUE) \in DOMAIN r.sources
    <3>1. GraphCandidates(r, t, k) # {} /\ GraphCandidates(r, t, k) \subseteq DOMAIN r.sources
      BY <1>1, <1>3 DEF Missing, GraphCandidates, Named
    <3> QED
      BY <3>1
  <2>2. SourceIndices(r, t) = [k \in DOMAIN t.graph.inputs |-> CHOOSE j \in GraphCandidates(r, t, k) : TRUE]
    BY <1>3 DEF SourceIndices
  <2> QED
    BY <1>3, <2>1, <2>2
<1> QED
  BY <1>2, <1>3

\* What is bound passed the checks of its binding.
LEMMA ValidBinding ==
    ASSUME NEW r, PlanValid(r), NEW i \in Resolved(r)
    PROVE  LET t == r.targets[i]
           IN  IF t.graph = Absent THEN ValidateBinding(r.inputs, Selected(r, t)[1], t)
               ELSE ValidateOperationBinding(r.inputs, Selected(r, t), t)
<1> DEFINE t == r.targets[i]
<1>1. BindingDiagnostics(r, t) \subseteq Diagnostics(r)
  BY DEF Diagnostics, TargetDiagnostics
<1>2. \A d \in BindingDiagnostics(r, t) : d.severity # "error"
  BY <1>1 DEF PlanValid
<1>3. CASE t.graph = Absent
  <2>1. ASSUME ~ValidateBinding(r.inputs, Selected(r, t)[1], t)
        PROVE  FALSE
    <3> DEFINE code == IF Selected(r, t)[1].storage.kind = "plain" THEN "unsupportedTransform"
                       ELSE "unsupportedQuantizedRoute"
               d == Diagnostic("error", code, t.name, {Selected(r, t)[k].name : k \in DOMAIN Selected(r, t)})
    <3>1. d.severity = "error"
      BY DEF Diagnostic
    <3>2. d \in BindingDiagnostics(r, t)
      BY <1>3, <2>1 DEF BindingDiagnostics, When
    <3> HIDE DEF d
    <3> QED
      BY <1>2, <3>1, <3>2
  <2> QED
    BY <1>3, <2>1
<1>4. CASE t.graph # Absent
  <2>1. ASSUME ~ValidateOperationBinding(r.inputs, Selected(r, t), t)
        PROVE  FALSE
    <3>1. \E d \in BindingDiagnostics(r, t) : d.severity = "error"
      BY <1>4, <2>1 DEF BindingDiagnostics, When, Diagnostic
    <3> QED
      BY <1>2, <3>1
  <2> QED
    BY <1>4, <2>1
<1> QED
  BY <1>3, <1>4

\* Two targets of an accepted request read one source only in one group.
LEMMA SharersTied ==
    ASSUME NEW r, Asked(r), PlanValid(r), NEW i \in DOMAIN r.sources,
           NEW k \in Users(r, i), NEW l \in Users(r, i), k # l
    PROVE  r.targets[k].group = r.targets[l].group /\ r.targets[k].group # Absent
<1>1. Users(r, i) \subseteq DOMAIN r.targets
  BY DEF Users, Resolved, Unique
<1>2. IsFiniteSet(Users(r, i))
  BY <1>1, EntriesFinite, FS_Subset DEF Asked
<1>3. Cardinality(Users(r, i)) > 1
  BY <1>2, Several
<1>4. Tied(r, Users(r, i))
  <2>1. SUFFICES ASSUME ~Tied(r, Users(r, i)) PROVE FALSE
    OBVIOUS
  <2> DEFINE d == Diagnostic("error", "conflictingSourceReuse", r.targets[k].name, NamesOf(r.targets, Users(r, i)))
  <2>2. d \in ReuseDiagnostics(r)
    BY <1>3, <2>1 DEF ReuseDiagnostics
  <2>3. ReuseDiagnostics(r) \subseteq Diagnostics(r)
    BY DEF Diagnostics
  <2>4. d.severity = "error"
    BY DEF Diagnostic
  <2> QED
    BY <2>2, <2>3, <2>4 DEF PlanValid
<1> QED
  BY <1>4 DEF Tied

\* The same of the bindings of its plan, which hold descriptors.
LEMMA BindingsTied ==
    ASSUME NEW r, Asked(r), PlanValid(r),
           NEW b \in Range(BuiltPlan(r).bindings), NEW c \in Range(BuiltPlan(r).bindings),
           b # c, Range(b.sources) \cap Range(c.sources) # {}
    PROVE  b.target.group = c.target.group /\ b.target.group # Absent
<1>1. PICK k \in Resolved(r) : b = [sources |-> Selected(r, r.targets[k]), target |-> r.targets[k]]
  BY BindingResolved
<1>2. PICK l \in Resolved(r) : c = [sources |-> Selected(r, r.targets[l]), target |-> r.targets[l]]
  BY BindingResolved
<1>3. /\ b.sources = Selected(r, r.targets[k]) /\ b.target = r.targets[k]
      /\ c.sources = Selected(r, r.targets[l]) /\ c.target = r.targets[l]
  BY <1>1, <1>2
<1>4. k # l
  BY <1>1, <1>2
<1> DEFINE I == SourceIndices(r, r.targets[k])
           J == SourceIndices(r, r.targets[l])
<1>5. PICK x \in Range(b.sources) : x \in Range(c.sources)
  OBVIOUS
<1>6. PICK m \in DOMAIN I : x = r.sources[I[m]]
  BY <1>3, <1>5 DEF Selected, Range
<1>7. PICK n \in DOMAIN J : x = r.sources[J[n]]
  BY <1>3, <1>5 DEF Selected, Range
<1>8. I[m] \in DOMAIN r.sources /\ J[n] \in DOMAIN r.sources
  BY SelectedSources
<1>9. I[m] = J[n]
  BY <1>6, <1>7, <1>8, ValidDistinct DEF Distinct
<1>10. k \in Users(r, I[m]) /\ l \in Users(r, I[m])
  BY <1>9 DEF Users, Range
<1> QED
  BY <1>3, <1>4, <1>8, <1>10, SharersTied

-----------------------------------------------------------------------------
(* The order of sources and targets *)

\* p is an order of the numbers in D, and a set of new positions holds the
\* entries of a set of old ones.
IsOrder(p, D) ==
    /\ IsFiniteSet(D) /\ p \in [D -> D]
    /\ \A i, j \in D : p[i] = p[j] => i = j
    /\ \A j \in D : \E i \in D : p[i] = j
Moved(B, A, p, D) == A \subseteq D /\ B = {i \in D : p[i] \in A}

LEMMA MovedSet ==
    ASSUME NEW A, NEW B, NEW p, NEW D, IsOrder(p, D), Moved(B, A, p, D)
    PROVE  /\ Cardinality(B) = Cardinality(A) /\ (B = {} <=> A = {})
           /\ A \subseteq D /\ B \subseteq D
           /\ \A i \in B : p[i] \in A
           /\ \A j \in A : \E i \in B : p[i] = j
<1>1. A \subseteq D /\ B \subseteq D /\ \A i \in B : p[i] \in A
  BY DEF Moved
<1>2. \A j \in A : \E i \in B : p[i] = j
  BY DEF Moved, IsOrder
<1> DEFINE f == [i \in B |-> p[i]]
<1>3. f \in [B -> A] /\ (\A i, j \in B : f[i] = f[j] => i = j)
  BY <1>1 DEF IsOrder
<1>4. \A j \in A : \E i \in B : f[i] = j
  BY <1>2
<1>5. IsFiniteSet(B)
  BY <1>1, FS_Subset DEF IsOrder
<1>6. Cardinality(A) = Cardinality(B)
  BY <1>3, <1>4, <1>5, SameNumber
<1> QED
  BY <1>1, <1>2, <1>6

\* x asks what r asks, with its sources and targets in other orders.
Reordering(r, x, p, q) ==
    /\ Asked(r) /\ Asked(x)
    /\ x.inputs = r.inputs /\ x.policy = r.policy
    /\ Arranged(r.sources, x.sources, p) /\ Arranged(r.targets, x.targets, q)

LEMMA ArrangedOrder ==
    ASSUME NEW e, NEW f, NEW p, Entries(e), Arranged(e, f, p)
    PROVE  IsOrder(p, DOMAIN e) /\ DOMAIN f = DOMAIN e /\ \A k \in DOMAIN e : f[k] = e[p[k]]
  BY EntriesFinite DEF Arranged, IsOrder

LEMMA NamedMoves ==
    ASSUME NEW e, NEW f, NEW p, Entries(e), Arranged(e, f, p), NEW name
    PROVE  Moved(Named(f, name), Named(e, name), p, DOMAIN e)
  BY DEF Arranged, Named, Moved

LEMMA RepeatedMoves ==
    ASSUME NEW e, NEW f, NEW p, Entries(e), Entries(f), Arranged(e, f, p)
    PROVE  Repeated(f) = Repeated(e)
<1>1. \A name : Cardinality(Named(f, name)) = Cardinality(Named(e, name))
  BY NamedMoves, ArrangedOrder, MovedSet
<1>2. \A name : Named(f, name) = {} <=> Named(e, name) = {}
  BY NamedMoves, ArrangedOrder, MovedSet
<1>3. ASSUME NEW g, NEW name
      PROVE  name \in Repeated(g) <=> Named(g, name) # {} /\ Cardinality(Named(g, name)) > 1
  BY DEF Repeated, Named
<1> QED
  BY <1>1, <1>2, <1>3

\* Names are looked up alike.
LEMMA CandidatesMove ==
    ASSUME NEW r, NEW x, NEW p, NEW q, Reordering(r, x, p, q), NEW t
    PROVE  /\ Moved(Candidates(x, t), Candidates(r, t), p, DOMAIN r.sources)
           /\ \A k : Moved(GraphCandidates(x, t, k), GraphCandidates(r, t, k), p, DOMAIN r.sources)
<1>1. \A name : Moved(Named(x.sources, name), Named(r.sources, name), p, DOMAIN r.sources)
  BY NamedMoves DEF Reordering, Asked
<1>2. \A k : Moved(GraphCandidates(x, t, k), GraphCandidates(r, t, k), p, DOMAIN r.sources)
  BY <1>1 DEF GraphCandidates
<1> DEFINE N == {t.name} \cup Range(t.aliases)
<1>3. /\ Candidates(x, t) = UNION {Named(x.sources, name) : name \in N}
      /\ Candidates(r, t) = UNION {Named(r.sources, name) : name \in N}
  BY DEF Candidates
<1> HIDE DEF N
<1>4. Moved(Candidates(x, t), Candidates(r, t), p, DOMAIN r.sources)
  BY <1>1, <1>3 DEF Moved
<1> QED
  BY <1>2, <1>4

LEMMA ResolutionMoves ==
    ASSUME NEW r, NEW x, NEW p, NEW q, Reordering(r, x, p, q)
    PROVE  /\ \A t : (Ambiguous(x, t) <=> Ambiguous(r, t)) /\ (Missing(x, t) <=> Missing(r, t))
           /\ Moved(Unique(x), Unique(r), q, DOMAIN r.targets)
           /\ Moved(Resolved(x), Resolved(r), q, DOMAIN r.targets)
<1>1. IsOrder(p, DOMAIN r.sources)
  BY ArrangedOrder DEF Reordering, Asked
<1>2. ASSUME NEW t
      PROVE  /\ Cardinality(Candidates(x, t)) = Cardinality(Candidates(r, t))
             /\ Candidates(x, t) = {} <=> Candidates(r, t) = {}
             /\ \A k : /\ Cardinality(GraphCandidates(x, t, k)) = Cardinality(GraphCandidates(r, t, k))
                       /\ GraphCandidates(x, t, k) = {} <=> GraphCandidates(r, t, k) = {}
  BY <1>1, CandidatesMove, MovedSet
<1>3. \A t : (Ambiguous(x, t) <=> Ambiguous(r, t)) /\ (Missing(x, t) <=> Missing(r, t))
  BY <1>2 DEF Ambiguous, Missing
<1>4. /\ DOMAIN x.targets = DOMAIN r.targets /\ q \in [DOMAIN r.targets -> DOMAIN r.targets]
      /\ \A k \in DOMAIN r.targets : x.targets[k] = r.targets[q[k]]
  BY DEF Reordering, Arranged
<1>5. Repeated(x.targets) = Repeated(r.targets)
  BY RepeatedMoves DEF Reordering, Asked
<1>6. Moved(Unique(x), Unique(r), q, DOMAIN r.targets)
  BY <1>4, <1>5 DEF Unique, Moved
<1>7. Moved(Resolved(x), Resolved(r), q, DOMAIN r.targets)
  BY <1>3, <1>4, <1>6 DEF Resolved, Moved
<1> QED
  BY <1>3, <1>6, <1>7

\* A target that resolves has the same sources.
LEMMA SelectionMoves ==
    ASSUME NEW r, NEW x, NEW p, NEW q, Reordering(r, x, p, q), NEW i \in Resolved(r)
    PROVE  LET t == r.targets[i]
           IN  /\ DOMAIN SourceIndices(x, t) = DOMAIN SourceIndices(r, t)
               /\ \A k \in DOMAIN SourceIndices(r, t) :
                     /\ SourceIndices(x, t)[k] \in DOMAIN r.sources
                     /\ p[SourceIndices(x, t)[k]] = SourceIndices(r, t)[k]
               /\ Selected(x, t) = Selected(r, t)
<1> DEFINE t == r.targets[i]
           D == DOMAIN r.sources
<1>1. IsOrder(p, D)
  BY ArrangedOrder DEF Reordering, Asked
<1>2. ~Ambiguous(r, t) /\ ~Missing(r, t)
  BY DEF Resolved
<1>3. ASSUME NEW A, NEW B, Moved(B, A, p, D), A # {}, ~(Cardinality(A) > 1)
      PROVE  (CHOOSE j \in B : TRUE) \in D /\ p[CHOOSE j \in B : TRUE] = (CHOOSE j \in A : TRUE)
  <2>1. B # {} /\ \A j \in B : p[j] \in A
    BY <1>1, <1>3, MovedSet
  <2>2. (CHOOSE j \in B : TRUE) \in B /\ (CHOOSE j \in A : TRUE) \in A
    BY <1>3, <2>1
  <2>3. IsFiniteSet(A)
    BY <1>1, <1>3, FS_Subset DEF Moved, IsOrder
  <2>4. \A j, k \in A : j = k
    BY <1>3, <2>3, Several
  <2> QED
    BY <1>3, <2>1, <2>2, <2>4 DEF Moved
<1>4. /\ DOMAIN SourceIndices(x, t) = DOMAIN SourceIndices(r, t)
      /\ \A k \in DOMAIN SourceIndices(r, t) :
            /\ SourceIndices(x, t)[k] \in D
            /\ p[SourceIndices(x, t)[k]] = SourceIndices(r, t)[k]
  <2>1. CASE t.graph = Absent
    <3>1. Moved(Candidates(x, t), Candidates(r, t), p, D)
      BY CandidatesMove
    <3>2. Candidates(r, t) # {} /\ ~(Cardinality(Candidates(r, t)) > 1)
      BY <1>2, <2>1 DEF Ambiguous, Missing
    <3>3. /\ (CHOOSE j \in Candidates(x, t) : TRUE) \in D
          /\ p[CHOOSE j \in Candidates(x, t) : TRUE] = (CHOOSE j \in Candidates(r, t) : TRUE)
      BY <1>3, <3>1, <3>2
    <3>4. /\ SourceIndices(x, t) = <<CHOOSE j \in Candidates(x, t) : TRUE>>
          /\ SourceIndices(r, t) = <<CHOOSE j \in Candidates(r, t) : TRUE>>
      BY <2>1 DEF SourceIndices
    <3>5. \A y : DOMAIN <<y>> = {1} /\ <<y>>[1] = y
      OBVIOUS
    <3> QED
      BY <3>3, <3>4, <3>5
  <2>2. CASE t.graph # Absent
    <3>1. ASSUME NEW k \in DOMAIN t.graph.inputs
          PROVE  /\ (CHOOSE j \in GraphCandidates(x, t, k) : TRUE) \in D
                 /\ p[CHOOSE j \in GraphCandidates(x, t, k) : TRUE] = (CHOOSE j \in GraphCandidates(r, t, k) : TRUE)
      <4>1. Moved(GraphCandidates(x, t, k), GraphCandidates(r, t, k), p, D)
        BY CandidatesMove
      <4>2. GraphCandidates(r, t, k) # {} /\ ~(Cardinality(GraphCandidates(r, t, k)) > 1)
        BY <1>2, <2>2 DEF Ambiguous, Missing
      <4> QED
        BY <1>3, <4>1, <4>2
    <3>2. /\ SourceIndices(x, t) = [k \in DOMAIN t.graph.inputs |-> CHOOSE j \in GraphCandidates(x, t, k) : TRUE]
          /\ SourceIndices(r, t) = [k \in DOMAIN t.graph.inputs |-> CHOOSE j \in GraphCandidates(r, t, k) : TRUE]
      BY <2>2 DEF SourceIndices
    <3> QED
      BY <3>1, <3>2
  <2> QED
    BY <2>1, <2>2
<1>5. \A k \in D : x.sources[k] = r.sources[p[k]]
  BY DEF Reordering, Arranged
<1>6. Selected(x, t) = Selected(r, t)
  BY <1>4, <1>5 DEF Selected
<1> QED
  BY <1>4, <1>6

\* Names of entries at new positions are names at the old ones.
LEMMA NamesMove ==
    ASSUME NEW e, NEW f, NEW p, Entries(e), Arranged(e, f, p), NEW A, NEW B, Moved(B, A, p, DOMAIN e)
    PROVE  NamesOf(f, B) = NamesOf(e, A)
<1>1. IsOrder(p, DOMAIN e) /\ \A k \in DOMAIN e : f[k] = e[p[k]]
  BY ArrangedOrder
<1>2. (\A i \in B : p[i] \in A) /\ (\A j \in A : \E i \in B : p[i] = j) /\ B \subseteq DOMAIN e
  BY <1>1, MovedSet
<1> QED
  BY <1>1, <1>2 DEF NamesOf

LEMMA UsersMove ==
    ASSUME NEW r, NEW x, NEW p, NEW q, Reordering(r, x, p, q), NEW i \in DOMAIN r.sources
    PROVE  /\ p[i] \in DOMAIN r.sources
           /\ Moved(Users(x, i), Users(r, p[i]), q, DOMAIN r.targets)
<1>1. /\ DOMAIN x.targets = DOMAIN r.targets /\ q \in [DOMAIN r.targets -> DOMAIN r.targets]
      /\ \A k \in DOMAIN r.targets : x.targets[k] = r.targets[q[k]]
  BY DEF Reordering, Arranged
<1>2. p[i] \in DOMAIN r.sources /\ \A j, k \in DOMAIN r.sources : p[j] = p[k] => j = k
  BY DEF Reordering, Arranged
<1>3. Moved(Resolved(x), Resolved(r), q, DOMAIN r.targets)
  BY ResolutionMoves
<1>4. ASSUME NEW k \in DOMAIN r.targets, q[k] \in Resolved(r)
      PROVE  i \in Range(SourceIndices(x, x.targets[k])) <=> p[i] \in Range(SourceIndices(r, r.targets[q[k]]))
  <2> DEFINE X == SourceIndices(x, r.targets[q[k]])
             R == SourceIndices(r, r.targets[q[k]])
  <2>1. DOMAIN X = DOMAIN R /\ \A m \in DOMAIN R : X[m] \in DOMAIN r.sources /\ p[X[m]] = R[m]
    BY <1>4, SelectionMoves
  <2>2. x.targets[k] = r.targets[q[k]]
    BY <1>1
  <2>3. i \in Range(X) <=> p[i] \in Range(R)
    BY <1>2, <2>1 DEF Range
  <2> QED
    BY <2>2, <2>3
<1>5. Users(r, p[i]) \subseteq DOMAIN r.targets
  BY <1>3 DEF Users, Moved
<1>6. ASSUME NEW k
      PROVE  k \in Users(x, i) <=> k \in DOMAIN r.targets /\ q[k] \in Users(r, p[i])
  <2>1. k \in Resolved(x) <=> k \in DOMAIN r.targets /\ q[k] \in Resolved(r)
    BY <1>3 DEF Moved
  <2>2. k \in Users(x, i) <=> k \in Resolved(x) /\ i \in Range(SourceIndices(x, x.targets[k]))
    BY DEF Users
  <2>3. q[k] \in Users(r, p[i]) <=> q[k] \in Resolved(r) /\ p[i] \in Range(SourceIndices(r, r.targets[q[k]]))
    BY DEF Users
  <2> QED
    BY <1>4, <2>1, <2>2, <2>3
<1> QED
  BY <1>2, <1>5, <1>6 DEF Moved

\* Source i is reused where p[i] was, by targets of the same names and groups.
LEMMA ReuseMoves ==
    ASSUME NEW r, NEW x, NEW p, NEW q, Reordering(r, x, p, q), NEW i \in DOMAIN r.sources
    PROVE  /\ NamesOf(x.targets, Users(x, i)) = NamesOf(r.targets, Users(r, p[i]))
           /\ Cardinality(Users(x, i)) = Cardinality(Users(r, p[i]))
           /\ Users(x, i) = {} <=> Users(r, p[i]) = {}
           /\ Tied(x, Users(x, i)) <=> Tied(r, Users(r, p[i]))
<1> DEFINE D == DOMAIN r.targets
           B == Users(x, i)
           A == Users(r, p[i])
<1>1. Moved(B, A, q, D)
  BY UsersMove
<1>2. IsOrder(q, D) /\ \A k \in D : x.targets[k] = r.targets[q[k]]
  BY ArrangedOrder DEF Reordering, Asked
<1>3. NamesOf(x.targets, B) = NamesOf(r.targets, A)
  BY <1>1, NamesMove DEF Reordering, Asked
<1> HIDE DEF B, A
<1>4. /\ Cardinality(B) = Cardinality(A) /\ (B = {} <=> A = {})
      /\ \A k \in B : q[k] \in A
      /\ \A l \in A : \E k \in B : q[k] = l
  BY <1>1, <1>2, MovedSet
<1>5. B \subseteq D
  BY <1>1 DEF Moved
<1>6. {x.targets[k].group : k \in B} = {r.targets[l].group : l \in A}
  BY <1>2, <1>4, <1>5
<1>7. ASSUME NEW group
      PROVE  (\A k \in B : x.targets[k].group = group) <=> (\A l \in A : r.targets[l].group = group)
  BY <1>2, <1>4, <1>5
<1>8. Tied(x, B) <=> Tied(r, A)
  BY <1>6, <1>7 DEF Tied
<1> QED
  BY <1>3, <1>4, <1>8 DEF A, B

\* The diagnostics of one target, in any order of the request.
LEMMA TargetDiagnosticsMove ==
    ASSUME NEW r, NEW x, NEW p, NEW q, Reordering(r, x, p, q)
    PROVE  TargetDiagnostics(x) = TargetDiagnostics(r)
<1> DEFINE D == DOMAIN r.targets
<1>1. /\ IsOrder(q, D) /\ \A k \in D : x.targets[k] = r.targets[q[k]]
      /\ x.inputs = r.inputs
  BY ArrangedOrder DEF Reordering, Asked
<1>2. \A t : (Ambiguous(x, t) <=> Ambiguous(r, t)) /\ (Missing(x, t) <=> Missing(r, t))
  BY ResolutionMoves
<1>3. Moved(Unique(x), Unique(r), q, D) /\ Moved(Resolved(x), Resolved(r), q, D)
  BY ResolutionMoves
<1>4. /\ \A k \in Unique(x) : k \in D /\ q[k] \in Unique(r)
      /\ \A l \in Unique(r) : l \in D /\ \E k \in Unique(x) : q[k] = l
  <2>1. /\ Unique(x) \subseteq D /\ Unique(r) \subseteq D
        /\ \A k \in Unique(x) : q[k] \in Unique(r)
        /\ \A l \in Unique(r) : \E k \in Unique(x) : q[k] = l
    BY <1>1, <1>3, MovedSet
  <2> QED
    BY <2>1
<1>5. /\ \A k \in Resolved(x) : k \in D /\ q[k] \in Resolved(r)
      /\ \A l \in Resolved(r) : l \in D /\ \E k \in Resolved(x) : q[k] = l
  <2>1. /\ Resolved(x) \subseteq D /\ Resolved(r) \subseteq D
        /\ \A k \in Resolved(x) : q[k] \in Resolved(r)
        /\ \A l \in Resolved(r) : \E k \in Resolved(x) : q[k] = l
    BY <1>1, <1>3, MovedSet
  <2> QED
    BY <2>1
<1>6. ASSUME NEW t PROVE AmbiguousDiagnostic(x, t) = AmbiguousDiagnostic(r, t)
  <2>1. NamesOf(x.sources, Candidates(x, t)) = NamesOf(r.sources, Candidates(r, t))
    <3>1. Moved(Candidates(x, t), Candidates(r, t), p, DOMAIN r.sources)
      BY CandidatesMove
    <3>2. Entries(r.sources) /\ Arranged(r.sources, x.sources, p)
      BY DEF Reordering, Asked
    <3> QED
      BY <3>1, <3>2, NamesMove
  <2>2. Repeated(x.sources) = Repeated(r.sources)
    BY RepeatedMoves DEF Reordering, Asked
  <2> QED
    BY <2>1, <2>2 DEF AmbiguousDiagnostic
<1>7. ASSUME NEW t PROVE MissingDiagnostic(x, t) = MissingDiagnostic(r, t)
  <2>1. IsOrder(p, DOMAIN r.sources)
    BY ArrangedOrder DEF Reordering, Asked
  <2>2. \A k : GraphCandidates(x, t, k) = {} <=> GraphCandidates(r, t, k) = {}
    BY <2>1, CandidatesMove, MovedSet
  <2>3. {j \in DOMAIN t.graph.inputs : GraphCandidates(x, t, j) = {}}
        = {j \in DOMAIN t.graph.inputs : GraphCandidates(r, t, j) = {}}
    BY <2>2
  <2> QED
    BY <2>3 DEF MissingDiagnostic
<1>8. ASSUME NEW l \in Resolved(r)
      PROVE  BindingDiagnostics(x, r.targets[l]) = BindingDiagnostics(r, r.targets[l])
  <2>1. Selected(x, r.targets[l]) = Selected(r, r.targets[l])
    BY SelectionMoves
  <2> QED
    BY <1>1, <2>1 DEF BindingDiagnostics
<1> DEFINE Doubt(y) == {AmbiguousDiagnostic(y, y.targets[i]) : i \in {j \in Unique(y) : Ambiguous(y, y.targets[j])}}
           Lack(y) == {MissingDiagnostic(y, y.targets[i]) :
                         i \in {j \in Unique(y) : ~Ambiguous(y, y.targets[j]) /\ Missing(y, y.targets[j])}}
           Wrong(y) == UNION {BindingDiagnostics(y, y.targets[i]) : i \in Resolved(y)}
<1>9. Doubt(x) = Doubt(r)
  <2>1. ASSUME NEW k \in Unique(x)
        PROVE  /\ AmbiguousDiagnostic(x, x.targets[k]) = AmbiguousDiagnostic(r, r.targets[q[k]])
               /\ Ambiguous(x, x.targets[k]) <=> Ambiguous(r, r.targets[q[k]])
    BY <1>1, <1>2, <1>4, <1>6
  <2>2. ASSUME NEW d PROVE d \in Doubt(x) <=> d \in Doubt(r)
    <3>1. d \in Doubt(x) <=> \E k \in Unique(x) : Ambiguous(x, x.targets[k]) /\ d = AmbiguousDiagnostic(x, x.targets[k])
      OBVIOUS
    <3>2. d \in Doubt(r) <=> \E l \in Unique(r) : Ambiguous(r, r.targets[l]) /\ d = AmbiguousDiagnostic(r, r.targets[l])
      OBVIOUS
    <3> HIDE DEF Doubt
    <3> QED
      BY <1>4, <2>1, <3>1, <3>2
  <2> HIDE DEF Doubt
  <2> QED
    BY <2>2
<1>10. Lack(x) = Lack(r)
  <2> DEFINE Lacks(y, j) == ~Ambiguous(y, y.targets[j]) /\ Missing(y, y.targets[j])
  <2>1. ASSUME NEW k \in Unique(x)
        PROVE  /\ MissingDiagnostic(x, x.targets[k]) = MissingDiagnostic(r, r.targets[q[k]])
               /\ Lacks(x, k) <=> Lacks(r, q[k])
    BY <1>1, <1>2, <1>4, <1>7
  <2>2. ASSUME NEW d PROVE d \in Lack(x) <=> d \in Lack(r)
    <3>1. d \in Lack(x) <=> \E k \in Unique(x) : Lacks(x, k) /\ d = MissingDiagnostic(x, x.targets[k])
      OBVIOUS
    <3>2. d \in Lack(r) <=> \E l \in Unique(r) : Lacks(r, l) /\ d = MissingDiagnostic(r, r.targets[l])
      OBVIOUS
    <3> HIDE DEF Lack, Lacks
    <3> QED
      BY <1>4, <2>1, <3>1, <3>2
  <2> HIDE DEF Lack
  <2> QED
    BY <2>2
<1>11. Wrong(x) = Wrong(r)
  <2>1. ASSUME NEW k \in Resolved(x)
        PROVE  BindingDiagnostics(x, x.targets[k]) = BindingDiagnostics(r, r.targets[q[k]])
    BY <1>1, <1>5, <1>8
  <2>2. ASSUME NEW d PROVE d \in Wrong(x) <=> d \in Wrong(r)
    <3>1. d \in Wrong(x) <=> \E k \in Resolved(x) : d \in BindingDiagnostics(x, x.targets[k])
      OBVIOUS
    <3>2. d \in Wrong(r) <=> \E l \in Resolved(r) : d \in BindingDiagnostics(r, r.targets[l])
      OBVIOUS
    <3> HIDE DEF Wrong
    <3> QED
      BY <1>5, <2>1, <3>1, <3>2
  <2> HIDE DEF Wrong
  <2> QED
    BY <2>2
<1>12. \A y : TargetDiagnostics(y) = Doubt(y) \cup Lack(y) \cup Wrong(y)
  BY DEF TargetDiagnostics
<1> QED
  BY <1>9, <1>10, <1>11, <1>12

LEMMA ReuseDiagnosticsMove ==
    ASSUME NEW r, NEW x, NEW p, NEW q, Reordering(r, x, p, q)
    PROVE  ReuseDiagnostics(x) = ReuseDiagnostics(r)
<1> DEFINE D == DOMAIN r.sources
           Conflict(y, i) == Cardinality(Users(y, i)) > 1 /\ ~Tied(y, Users(y, i))
           Said(y, i, name) == Diagnostic("error", "conflictingSourceReuse", name, NamesOf(y.targets, Users(y, i)))
<1>1. IsOrder(p, D) /\ DOMAIN x.sources = D
  BY ArrangedOrder DEF Reordering, Asked
<1>2. ASSUME NEW y, NEW d
      PROVE  d \in ReuseDiagnostics(y) <=>
                \E i \in DOMAIN y.sources : Conflict(y, i) /\ \E name \in NamesOf(y.targets, Users(y, i)) : d = Said(y, i, name)
  <2>1. ReuseDiagnostics(y) =
          UNION {{Said(y, i, y.targets[k].name) : k \in Users(y, i)} : i \in {j \in DOMAIN y.sources : Conflict(y, j)}}
    BY DEF ReuseDiagnostics
  <2>2. ASSUME NEW i
        PROVE  d \in {Said(y, i, y.targets[k].name) : k \in Users(y, i)}
               <=> \E name \in NamesOf(y.targets, Users(y, i)) : d = Said(y, i, name)
    <3> HIDE DEF Said
    <3> QED
      BY DEF NamesOf
  <2> HIDE DEF Said, Conflict
  <2> QED
    BY <2>1, <2>2
<1>3. ASSUME NEW i \in D
      PROVE  /\ NamesOf(x.targets, Users(x, i)) = NamesOf(r.targets, Users(r, p[i]))
             /\ Conflict(x, i) <=> Conflict(r, p[i])
             /\ \A name : Said(x, i, name) = Said(r, p[i], name)
  BY ReuseMoves
<1> HIDE DEF Said, Conflict
<1>4. (\A i \in D : p[i] \in D) /\ \A j \in D : \E i \in D : p[i] = j
  BY <1>1 DEF IsOrder
<1>5. ASSUME NEW d PROVE d \in ReuseDiagnostics(x) <=> d \in ReuseDiagnostics(r)
  <2> DEFINE Is(y, i) == Conflict(y, i) /\ \E name \in NamesOf(y.targets, Users(y, i)) : d = Said(y, i, name)
  <2>1. /\ d \in ReuseDiagnostics(x) <=> \E i \in D : Is(x, i)
        /\ d \in ReuseDiagnostics(r) <=> \E i \in D : Is(r, i)
    BY <1>1, <1>2
  <2>2. \A i \in D : Is(x, i) <=> Is(r, p[i])
    BY <1>3
  <2> HIDE DEF Is
  <2> QED
    BY <1>4, <2>1, <2>2
<1> QED
  BY <1>5

LEMMA UnusedMoves ==
    ASSUME NEW r, NEW x, NEW p, NEW q, Reordering(r, x, p, q)
    PROVE  NamesOf(x.sources, Unused(x)) = NamesOf(r.sources, Unused(r))
<1>1. IsOrder(p, DOMAIN r.sources) /\ DOMAIN x.sources = DOMAIN r.sources
  BY ArrangedOrder DEF Reordering, Asked
<1>2. \A i \in DOMAIN r.sources : p[i] \in DOMAIN r.sources /\ (Users(x, i) = {} <=> Users(r, p[i]) = {})
  BY <1>1, ReuseMoves DEF IsOrder
<1>3. Moved(Unused(x), Unused(r), p, DOMAIN r.sources)
  BY <1>1, <1>2 DEF Unused, Moved
<1> QED
  BY <1>3, NamesMove DEF Reordering, Asked

\* What is wrong with a request does not depend on its order.
LEMMA DiagnosticsMove ==
    ASSUME NEW r, NEW x, NEW p, NEW q, Reordering(r, x, p, q)
    PROVE  Diagnostics(x) = Diagnostics(r)
<1>1. NameDiagnostics(x) = NameDiagnostics(r)
  BY RepeatedMoves DEF NameDiagnostics, Reordering, Asked
<1>2. ExtraDiagnostics(x) = ExtraDiagnostics(r)
  <2> DEFINE Said(y, name) == Diagnostic(IF y.policy = "reject" THEN "error" ELSE "warning", "extraSource", name, {})
  <2>1. \A name : Said(x, name) = Said(r, name)
    BY DEF Reordering
  <2>2. ASSUME NEW y PROVE ExtraDiagnostics(y) = {Said(y, name) : name \in NamesOf(y.sources, Unused(y))}
    <3>1. ExtraDiagnostics(y) = {Said(y, y.sources[i].name) : i \in Unused(y)}
      BY DEF ExtraDiagnostics
    <3> HIDE DEF Said
    <3> QED
      BY <3>1 DEF NamesOf
  <2> HIDE DEF Said
  <2> QED
    BY <2>1, <2>2, UnusedMoves
<1> QED
  BY <1>1, <1>2, TargetDiagnosticsMove, ReuseDiagnosticsMove DEF Diagnostics

-----------------------------------------------------------------------------
(* One plan *)

\* An accepted request has one plan, in whichever order it is given.
LEMMA BuiltPlanMoves ==
    ASSUME NEW r, NEW x, NEW p, NEW q, Reordering(r, x, p, q), PlanValid(r)
    PROVE  BuiltPlan(x) = BuiltPlan(r)
<1>1. Asked(r) /\ Asked(x) /\ x.inputs = r.inputs /\ x.policy = r.policy
  BY DEF Reordering
<1>2. Distinct(r.sources) /\ Distinct(r.targets)
  BY <1>1, ValidDistinct
<1>3. ByName(x.sources) = ByName(r.sources) /\ ByName(x.targets) = ByName(r.targets)
  BY <1>2, SortForgets DEF Reordering, Asked
<1> DEFINE D == DOMAIN r.targets
           targets == ByName(r.targets)
           Kept(y) == {k \in DOMAIN targets : Named(y.targets, targets[k].name) \subseteq Resolved(y)}
<1>4. Kept(x) = Kept(r)
  <2>1. IsOrder(q, D)
    BY ArrangedOrder DEF Reordering, Asked
  <2>2. Moved(Resolved(x), Resolved(r), q, D)
    BY ResolutionMoves
  <2>3. ASSUME NEW name
        PROVE  Named(x.targets, name) \subseteq Resolved(x) <=> Named(r.targets, name) \subseteq Resolved(r)
    <3>1. Moved(Named(x.targets, name), Named(r.targets, name), q, D)
      BY NamedMoves DEF Reordering, Asked
    <3>2. ASSUME NEW A, NEW B, NEW C, NEW E, Moved(B, A, q, D), Moved(E, C, q, D)
          PROVE  B \subseteq E <=> A \subseteq C
      BY <2>1, <3>2 DEF Moved, IsOrder
    <3> QED
      BY <2>2, <3>1, <3>2
  <2> QED
    BY <2>3
<1>5. Bound(x) = Bound(r)
  BY <1>3, <1>4 DEF Bound
<1>6. ASSUME NEW k \in DOMAIN Bound(r)
      PROVE  Selected(x, Bound(r)[k]) = Selected(r, Bound(r)[k])
  <2>1. PICK i \in Resolved(r) : Bound(r)[k] = r.targets[i]
    BY <1>1, BoundResolved
  <2> QED
    BY <2>1, SelectionMoves
<1>7. NamesOf(x.sources, Unused(x)) = NamesOf(r.sources, Unused(r))
  BY UnusedMoves
<1> DEFINE Binds(y) == [k \in DOMAIN Bound(y) |-> [sources |-> Selected(y, Bound(y)[k]), target |-> Bound(y)[k]]]
<1>8. Binds(x) = Binds(r)
  BY <1>5, <1>6
<1>9. ASSUME NEW y
      PROVE  BuiltPlan(y) =
               [inputs |-> y.inputs, policy |-> y.policy, sources |-> ByName(y.sources), targets |-> ByName(y.targets),
                bindings |-> Binds(y),
                missing |-> Ascending({t.name : t \in Range(ByName(y.targets)) \ Range(Bound(y))}),
                unused |-> Ascending(NamesOf(y.sources, Unused(y)))]
  BY DEF BuiltPlan
<1> HIDE DEF Binds
<1> QED
  BY <1>1, <1>3, <1>5, <1>7, <1>8, <1>9

\* Orders compose.
LEMMA ArrangedTwice ==
    ASSUME NEW e, NEW f, NEW g, NEW p, NEW q, Arranged(e, f, p), Arranged(f, g, q)
    PROVE  Arranged(e, g, [k \in DOMAIN e |-> p[q[k]]])
<1> DEFINE D == DOMAIN e
           c == [k \in D |-> p[q[k]]]
<1>1. /\ p \in [D -> D] /\ q \in [D -> D] /\ DOMAIN f = D /\ DOMAIN g = D
      /\ \A i, j \in D : p[i] = p[j] => i = j
      /\ \A i, j \in D : q[i] = q[j] => i = j
      /\ \A j \in D : \E i \in D : p[i] = j
      /\ \A j \in D : \E i \in D : q[i] = j
      /\ \A k \in D : f[k] = e[p[k]] /\ g[k] = f[q[k]]
  BY DEF Arranged
<1> HIDE DEF D
<1>2. c \in [D -> D] /\ \A i, j \in D : c[i] = c[j] => i = j
  BY <1>1
<1>3. \A j \in D : \E i \in D : c[i] = j
  BY <1>1
<1>4. \A k \in D : g[k] = e[c[k]]
  BY <1>1
<1> QED
  BY <1>1, <1>2, <1>3, <1>4 DEF Arranged, D

\* The request that a plan answers is the one that was asked, sorted.
LEMMA PlanAnswers ==
    ASSUME NEW r, Asked(r)
    PROVE  \E p, q : Reordering(r, RequestOf(BuiltPlan(r)), p, q)
<1> DEFINE x == RequestOf(BuiltPlan(r))
<1>1. /\ x.inputs = r.inputs /\ x.policy = r.policy
      /\ x.sources = ByName(r.sources) /\ x.targets = ByName(r.targets)
  BY DEF RequestOf, BuiltPlan
<1>2. ASSUME NEW e, Entries(e)
      PROVE  \E p : Arranged(e, ByName(e), p) /\ Entries(ByName(e))
  <2>1. Arranged(e, ByName(e), [k \in DOMAIN e |-> Nth(e, k)])
    BY <1>2, SortArranges
  <2>2. ByName(e) = [k \in DOMAIN ByName(e) |-> ByName(e)[k]]
    BY DEF ByName
  <2>3. Entries(ByName(e))
    BY <1>2, <2>1, <2>2, ArrangedEntries
  <2> QED
    BY <2>1, <2>3
<1> QED
  BY <1>1, <1>2 DEF Reordering, Asked

\* A plan is the plan of its own sources and targets in every order.
LEMMA PlanCanonical ==
    ASSUME NEW r, Asked(r), PlanValid(r),
           NEW x, NEW p, NEW q, Reordering(RequestOf(BuiltPlan(r)), x, p, q)
    PROVE  /\ Diagnostics(x) = Diagnostics(RequestOf(BuiltPlan(r)))
           /\ PlanValid(x) /\ BuiltPlan(x) = BuiltPlan(r)
<1> DEFINE y == RequestOf(BuiltPlan(r))
<1>1. Diagnostics(x) = Diagnostics(y)
  BY DiagnosticsMove
<1>2. PICK v, w : Reordering(r, y, v, w)
  BY PlanAnswers
<1> HIDE DEF y
<1>3. Reordering(r, x, [k \in DOMAIN r.sources |-> v[p[k]]], [k \in DOMAIN r.targets |-> w[q[k]]])
  BY <1>2, ArrangedTwice DEF Reordering, y
<1>4. Diagnostics(x) = Diagnostics(r) /\ BuiltPlan(x) = BuiltPlan(r)
  BY <1>3, DiagnosticsMove, BuiltPlanMoves
<1> QED
  BY <1>1, <1>4 DEF PlanValid, y

\* A serialized plan that parses is the plan of its own request.
LEMMA ParsedPlan ==
    ASSUME NEW wire, Parses(wire), Asked(RequestOf(wire.plan)),
           wire.plan = [inputs |-> wire.plan.inputs, policy |-> wire.plan.policy, sources |-> wire.plan.sources,
                        targets |-> wire.plan.targets, bindings |-> wire.plan.bindings,
                        missing |-> wire.plan.missing, unused |-> wire.plan.unused]
    PROVE  PlanValid(RequestOf(wire.plan)) /\ BuiltPlan(RequestOf(wire.plan)) = wire.plan
<1> DEFINE plan == wire.plan
           r == RequestOf(plan)
           built == BuiltPlan(r)
<1>1. r.inputs = plan.inputs /\ r.policy = plan.policy /\ r.sources = plan.sources /\ r.targets = plan.targets
  BY DEF RequestOf
<1>2. /\ SortedUnique(EntryNames(plan.sources)) /\ SortedUnique(EntryNames(plan.targets))
      /\ PlanValid(r)
      /\ built.bindings = plan.bindings /\ built.missing = plan.missing /\ built.unused = plan.unused
  BY DEF Parses
<1>3. ByName(plan.sources) = plan.sources /\ ByName(plan.targets) = plan.targets
  BY <1>1, <1>2, SortedStays DEF Asked
<1> HIDE DEF r
<1>4. /\ built.inputs = r.inputs /\ built.policy = r.policy
      /\ built.sources = ByName(r.sources) /\ built.targets = ByName(r.targets)
      /\ built = [inputs |-> built.inputs, policy |-> built.policy, sources |-> built.sources,
                  targets |-> built.targets, bindings |-> built.bindings,
                  missing |-> built.missing, unused |-> built.unused]
  BY DEF BuiltPlan
<1> HIDE DEF built
<1> QED
  BY <1>1, <1>2, <1>3, <1>4 DEF r, built
=============================================================================
