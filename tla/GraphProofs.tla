----------------------------- MODULE GraphProofs -----------------------------
(***************************************************************************)
(* The memory an execution of an operation graph accounts for, and what    *)
(* the estimate and the static alias promise about it, for any inputs,     *)
(* operations and size of the graph.                                       *)
(***************************************************************************)
EXTENDS GraphExecution, FiniteSetTheorems, SequenceTheorems, TLAPS

-----------------------------------------------------------------------------
(* Numbers *)

\* A set of natural numbers has a least element, which is what an induction
\* over the calls, the nodes and the dimensions takes.
LEMMA LeastNumber ==
    ASSUME NEW T, T \subseteq Nat, T # {}
    PROVE  \E n \in T : \A m \in T : n <= m
<1> DEFINE R == OpToRel(<, Nat)
<1>1. IsWellFoundedOn(R, Nat)
  BY NatLessThanWellFounded, Zenon
<1> HIDE DEF R
<1>2. PICK n \in T : \A m \in T : ~(<<m, n>> \in R)
  BY <1>1, WFMin
<1>3. \A m \in T : ~(m < n)
  BY <1>2 DEF R, OpToRel
<1> QED
  BY <1>3

-----------------------------------------------------------------------------
(* The schedule *)

SchedFields == {"uses", "values", "allocs", "next", "live", "peak", "err"}

\* The shape of a schedule.
IsSched(s) == s = [f \in SchedFields |-> s[f]]
SchedType(s) ==
    /\ IsSched(s)
    /\ s.uses \in [DOMAIN s.uses -> Nat]
    /\ s.allocs \in Seq([bytes : 0 .. MaxWord, refs : Nat])
    /\ s.next = Len(s.allocs) + 1
    /\ s.values \in [DOMAIN s.values -> 0 .. Len(s.allocs)]
    /\ IsFiniteSet(DOMAIN s.values)
    /\ s.live \in Nat
    /\ s.peak \in Nat

\* A schedule whose counters are those of its values.
Exact(s) ==
    /\ SchedType(s)
    /\ \A a \in DOMAIN s.allocs : s.allocs[a].refs = Cardinality(Sharing(s, a))
    /\ s.live = Cardinality(LiveBytes(s))
    /\ s.peak >= s.live

\* What a schedule says of one allocation.
LEMMA AllocFacts ==
    ASSUME NEW s, SchedType(s)
    PROVE  /\ Len(s.allocs) \in Nat
           /\ DOMAIN s.allocs = 1 .. Len(s.allocs)
           /\ \A a \in DOMAIN s.allocs : /\ s.allocs[a] \in [bytes : 0 .. MaxWord, refs : Nat]
                                         /\ s.allocs[a].bytes \in Nat
                                         /\ s.allocs[a].bytes <= MaxWord
                                         /\ s.allocs[a].refs \in Nat
<1> DEFINE A == [bytes : 0 .. MaxWord, refs : Nat]
<1>1. s.allocs \in Seq(A)
  BY DEF SchedType
<1> HIDE DEF A
<1>2. Len(s.allocs) \in Nat /\ DOMAIN s.allocs = 1 .. Len(s.allocs)
  BY <1>1, LenProperties
<1>3. ASSUME NEW a \in DOMAIN s.allocs PROVE s.allocs[a] \in A
  BY <1>1, <1>2, ElementOfSeq
<1>4. \A r \in A : r.bytes \in Nat /\ r.bytes <= MaxWord /\ r.refs \in Nat
  BY MaxWordAssumption DEF A
<1> QED
  BY <1>2, <1>3, <1>4 DEF A

\* The bytes of the allocations in use are finitely many.
LEMMA LiveBytesFinite ==
    ASSUME NEW s, SchedType(s)
    PROVE  /\ IsFiniteSet(LiveBytes(s))
           /\ \A a \in DOMAIN s.allocs : IsFiniteSet({a} \X (1 .. s.allocs[a].bytes))
           /\ \A a \in DOMAIN s.allocs :
                 Cardinality({a} \X (1 .. s.allocs[a].bytes)) = s.allocs[a].bytes
<1>1. DOMAIN s.allocs = 1 .. Len(s.allocs) /\ Len(s.allocs) \in Nat
  BY AllocFacts
<1>2. ASSUME NEW a \in DOMAIN s.allocs
      PROVE  s.allocs[a].bytes \in Nat /\ s.allocs[a].bytes <= MaxWord
  BY AllocFacts
<1>3. ASSUME NEW a \in DOMAIN s.allocs
      PROVE  /\ IsFiniteSet({a} \X (1 .. s.allocs[a].bytes))
             /\ Cardinality({a} \X (1 .. s.allocs[a].bytes)) = s.allocs[a].bytes
  <2>1. IsFiniteSet(1 .. s.allocs[a].bytes) /\ Cardinality(1 .. s.allocs[a].bytes) = s.allocs[a].bytes
    BY <1>2, FS_Interval
  <2>2. IsFiniteSet({a}) /\ Cardinality({a}) = 1
    BY FS_Singleton
  <2>3. IsFiniteSet({a} \X (1 .. s.allocs[a].bytes))
        /\ Cardinality({a} \X (1 .. s.allocs[a].bytes)) = 1 * s.allocs[a].bytes
    BY <2>1, <2>2, FS_Product
  <2> QED
    BY <1>2, <2>3
<1> DEFINE Whole == (1 .. Len(s.allocs)) \X (1 .. MaxWord)
<1>4. IsFiniteSet(Whole)
  <2>1. IsFiniteSet(1 .. Len(s.allocs)) /\ IsFiniteSet(1 .. MaxWord)
    BY <1>1, FS_Interval, MaxWordAssumption
  <2> QED
    BY <2>1, FS_Product
<1>5. LiveBytes(s) \subseteq Whole
  <2>1. ASSUME NEW p \in LiveBytes(s) PROVE p \in Whole
    <3>1. PICK a \in DOMAIN s.allocs : p \in {a} \X (1 .. s.allocs[a].bytes)
      BY DEF LiveBytes
    <3>2. PICK b \in 1 .. s.allocs[a].bytes : p = <<a, b>>
      BY <3>1
    <3>3. a \in 1 .. Len(s.allocs) /\ b \in 1 .. MaxWord
      BY <1>1, <1>2, <3>1, MaxWordAssumption
    <3> QED
      BY <3>2, <3>3
  <2> QED
    BY <2>1
<1>6. IsFiniteSet(LiveBytes(s))
  BY <1>4, <1>5, FS_Subset
<1> QED
  BY <1>3, <1>6

Alloc == [bytes : 0 .. MaxWord, refs : Nat]

\* Appending an allocation to a sequence of them, and changing the
\* reference count of one.
LEMMA AppendAlloc ==
    ASSUME NEW q \in Seq(Alloc), NEW bytes \in 0 .. MaxWord
    PROVE  LET r == Append(q, [bytes |-> bytes, refs |-> 0])
           IN  /\ r \in Seq(Alloc)
               /\ Len(r) = Len(q) + 1
               /\ r[Len(q) + 1] = [bytes |-> bytes, refs |-> 0]
               /\ \A a \in 1 .. Len(q) : r[a] = q[a]
<1> DEFINE made == [bytes |-> bytes, refs |-> 0]
<1>1. made \in Alloc
  BY DEF Alloc
<1> HIDE DEF made
<1> QED
  BY <1>1, AppendProperties DEF made

LEMMA ChangeRefs ==
    ASSUME NEW q \in Seq(Alloc), NEW a \in 1 .. Len(q), NEW r, NEW m \in Nat,
           r = [q EXCEPT ![a].refs = m]
    PROVE  /\ r \in Seq(Alloc)
           /\ Len(r) = Len(q)
           /\ r[a].refs = m /\ r[a].bytes = q[a].bytes
           /\ \A b \in 1 .. Len(q) : b # a => r[b] = q[b]
<1> DEFINE e == [q[a] EXCEPT !.refs = m]
<1>1. q[a] \in Alloc
  BY ElementOfSeq
<1>2. e \in Alloc /\ e.refs = m /\ e.bytes = q[a].bytes
  BY <1>1 DEF Alloc
<1>3. r = [q EXCEPT ![a] = e]
  OBVIOUS
<1> HIDE DEF e
<1> QED
  BY <1>2, <1>3, ExceptSeq

\* Adding a value with an allocation of its own.
LEMMA AddedExact ==
    ASSUME NEW s, Exact(s), NEW v, v \notin DOMAIN s.values, NEW bytes \in 0 .. MaxWord,
           NEW n, n = Len(s.allocs) + 1, NEW t, IsSched(t),
           t.values = Extended(s.values, v, n),
           t.allocs \in Seq(Alloc), Len(t.allocs) = n, t.next = n + 1,
           t.allocs[n].bytes = bytes, t.allocs[n].refs = 1,
           \A a \in 1 .. Len(s.allocs) : t.allocs[a] = s.allocs[a],
           t.live = s.live + bytes, t.peak \in Nat, t.peak >= t.live,
           t.uses \in [DOMAIN t.uses -> Nat]
    PROVE  Exact(t)
<1>1. /\ Len(s.allocs) \in Nat /\ DOMAIN s.allocs = 1 .. Len(s.allocs)
      /\ DOMAIN t.allocs = 1 .. n /\ n \in Nat /\ n # 0
      /\ s.live \in Nat /\ n \notin DOMAIN s.allocs
  BY AllocFacts, LenProperties DEF Exact, SchedType
<1>2. s.values \in [DOMAIN s.values -> 0 .. Len(s.allocs)] /\ IsFiniteSet(DOMAIN s.values)
  BY DEF Exact, SchedType
<1>3. SchedType(t)
  <2>1. IsFiniteSet(DOMAIN t.values)
    BY <1>2, FS_AddElement DEF Extended
  <2>2. t.values \in [DOMAIN t.values -> 0 .. Len(t.allocs)]
    BY <1>1, <1>2 DEF Extended
  <2> QED
    BY <1>1, <2>1, <2>2 DEF SchedType, Alloc
<1>4. Sharing(t, n) = {v} /\ \A a \in DOMAIN s.allocs : Sharing(t, a) = Sharing(s, a)
  BY <1>1, <1>2 DEF Sharing, Extended
<1>41. DOMAIN t.allocs = DOMAIN s.allocs \cup {n}
  BY <1>1
<1>5. \A a \in DOMAIN t.allocs : t.allocs[a].refs = Cardinality(Sharing(t, a))
  <2>1. Cardinality(Sharing(t, n)) = 1
    BY <1>4, FS_Singleton
  <2>2. ASSUME NEW a \in DOMAIN s.allocs PROVE t.allocs[a].refs = Cardinality(Sharing(t, a))
    BY <1>1, <1>4 DEF Exact
  <2> QED
    BY <1>41, <2>1, <2>2
<1> DEFINE own == {n} \X (1 .. bytes)
           Used(r) == {b \in DOMAIN r.allocs : Sharing(r, b) # {}}
           Bytes(r, a) == {a} \X (1 .. r.allocs[a].bytes)
<1>6. Used(t) = Used(s) \cup {n} /\ n \notin Used(s)
  <2>1. Sharing(t, n) # {}
    BY <1>4
  <2> QED
    BY <1>1, <1>4, <1>41, <2>1
<1>7. Bytes(t, n) = own /\ \A a \in Used(s) : Bytes(t, a) = Bytes(s, a)
  BY <1>1
<1>8. \A a \in Used(s) : Bytes(s, a) \cap own = {}
  BY <1>6
<1>9. LiveBytes(t) = UNION {Bytes(t, a) : a \in Used(t)} /\ LiveBytes(s) = UNION {Bytes(s, a) : a \in Used(s)}
  BY DEF LiveBytes
<1>10. IsFiniteSet(own) /\ Cardinality(own) = bytes
  <2>1. n \in DOMAIN t.allocs
    BY <1>1
  <2> QED
    BY <1>3, <2>1, LiveBytesFinite
<1> HIDE DEF own, Used, Bytes
<1>11. LiveBytes(t) = LiveBytes(s) \cup own /\ LiveBytes(s) \cap own = {}
  BY <1>6, <1>7, <1>8, <1>9
<1>12. t.live = Cardinality(LiveBytes(t))
  <2>1. IsFiniteSet(LiveBytes(s))
    BY LiveBytesFinite DEF Exact
  <2>2. Cardinality(LiveBytes(t)) = Cardinality(LiveBytes(s)) + bytes - Cardinality({})
    BY <1>10, <1>11, <2>1, FS_Union
  <2>3. s.live = Cardinality(LiveBytes(s))
    BY DEF Exact
  <2> QED
    BY <1>1, <2>2, <2>3, FS_EmptySet
<1> QED
  BY <1>3, <1>5, <1>12 DEF Exact

\* Adding a value that shares an allocation in use, or an input's memory.
LEMMA SharedExact ==
    ASSUME NEW s, Exact(s), NEW v, v \notin DOMAIN s.values,
           NEW a \in 0 .. Len(s.allocs), a # 0 => Sharing(s, a) # {},
           NEW t, IsSched(t),
           t.values = Extended(s.values, v, a),
           t.allocs \in Seq(Alloc), Len(t.allocs) = Len(s.allocs), t.next = s.next,
           \A b \in 1 .. Len(s.allocs) :
              /\ t.allocs[b].bytes = s.allocs[b].bytes
              /\ t.allocs[b].refs = IF b = a THEN s.allocs[b].refs + 1 ELSE s.allocs[b].refs,
           t.live = s.live, t.peak = s.peak, t.uses \in [DOMAIN t.uses -> Nat]
    PROVE  Exact(t)
<1>1. /\ Len(s.allocs) \in Nat /\ DOMAIN s.allocs = 1 .. Len(s.allocs)
      /\ DOMAIN t.allocs = 1 .. Len(s.allocs)
  BY AllocFacts, LenProperties DEF Exact, SchedType
<1>2. s.values \in [DOMAIN s.values -> 0 .. Len(s.allocs)] /\ IsFiniteSet(DOMAIN s.values)
  BY DEF Exact, SchedType
<1>3. SchedType(t)
  <2>1. IsFiniteSet(DOMAIN t.values)
    BY <1>2, FS_AddElement DEF Extended
  <2>2. t.values \in [DOMAIN t.values -> 0 .. Len(t.allocs)]
    BY <1>1, <1>2 DEF Extended
  <2>3. s.next = Len(s.allocs) + 1 /\ s.live \in Nat /\ s.peak \in Nat
    BY DEF Exact, SchedType
  <2> QED
    BY <1>1, <2>1, <2>2, <2>3 DEF SchedType, Alloc
<1>4. ASSUME NEW b \in DOMAIN s.allocs
      PROVE  /\ Sharing(t, b) = IF b = a THEN Sharing(s, b) \cup {v} ELSE Sharing(s, b)
             /\ v \notin Sharing(s, b) /\ IsFiniteSet(Sharing(s, b))
  <2>1. Sharing(t, b) = IF b = a THEN Sharing(s, b) \cup {v} ELSE Sharing(s, b)
    BY <1>2 DEF Sharing, Extended
  <2>2. IsFiniteSet(Sharing(s, b))
    BY <1>2, FS_Subset DEF Sharing
  <2> QED
    BY <2>1, <2>2 DEF Sharing
<1>5. \A b \in DOMAIN t.allocs : t.allocs[b].refs = Cardinality(Sharing(t, b))
  <2>1. ASSUME NEW b \in DOMAIN s.allocs PROVE t.allocs[b].refs = Cardinality(Sharing(t, b))
    <3>1. s.allocs[b].refs = Cardinality(Sharing(s, b))
      BY DEF Exact
    <3>2. Cardinality(Sharing(s, b) \cup {v}) = Cardinality(Sharing(s, b)) + 1
      BY <1>4, FS_AddElement
    <3> QED
      BY <1>1, <1>4, <3>1, <3>2
  <2> QED
    BY <1>1, <2>1
<1>6. ASSUME NEW b \in DOMAIN s.allocs PROVE Sharing(t, b) # {} <=> Sharing(s, b) # {}
  BY <1>1, <1>4
<1> DEFINE Used(r) == {b \in DOMAIN r.allocs : Sharing(r, b) # {}}
           Bytes(r, b) == {b} \X (1 .. r.allocs[b].bytes)
<1>7. Used(t) = Used(s)
  BY <1>1, <1>6
<1>8. \A b \in Used(s) : Bytes(t, b) = Bytes(s, b)
  BY <1>1
<1>9. LiveBytes(t) = UNION {Bytes(t, b) : b \in Used(t)} /\ LiveBytes(s) = UNION {Bytes(s, b) : b \in Used(s)}
  BY DEF LiveBytes
<1> HIDE DEF Used, Bytes
<1>10. LiveBytes(t) = LiveBytes(s)
  BY <1>7, <1>8, <1>9
<1>11. t.live = Cardinality(LiveBytes(t)) /\ t.peak >= t.live
  BY <1>10 DEF Exact
<1> QED
  BY <1>3, <1>5, <1>11 DEF Exact

\* Removing a value; the last of an allocation returns its bytes.
LEMMA RemovedExact ==
    ASSUME NEW s, Exact(s), NEW v \in DOMAIN s.values, NEW a, a = s.values[v],
           NEW t, IsSched(t),
           t.values = Without(s.values, v),
           t.allocs \in Seq(Alloc), Len(t.allocs) = Len(s.allocs), t.next = s.next,
           \A b \in 1 .. Len(s.allocs) :
              /\ t.allocs[b].bytes = s.allocs[b].bytes
              /\ t.allocs[b].refs = IF b = a THEN s.allocs[b].refs - 1 ELSE s.allocs[b].refs,
           a # 0 /\ s.allocs[a].refs = 1 => t.live = s.live - s.allocs[a].bytes,
           ~(a # 0 /\ s.allocs[a].refs = 1) => t.live = s.live,
           t.peak = s.peak, t.uses \in [DOMAIN t.uses -> Nat]
    PROVE  Exact(t) /\ t.live <= s.live
<1>1. /\ Len(s.allocs) \in Nat /\ DOMAIN s.allocs = 1 .. Len(s.allocs)
      /\ DOMAIN t.allocs = 1 .. Len(s.allocs)
  BY AllocFacts, LenProperties DEF Exact, SchedType
<1>2. s.values \in [DOMAIN s.values -> 0 .. Len(s.allocs)] /\ IsFiniteSet(DOMAIN s.values)
  BY DEF Exact, SchedType
<1>3. a \in 0 .. Len(s.allocs) /\ (a # 0 => a \in DOMAIN s.allocs)
  BY <1>1, <1>2
<1>4. ASSUME NEW b \in DOMAIN s.allocs
      PROVE  /\ Sharing(t, b) = IF b = a THEN Sharing(s, b) \ {v} ELSE Sharing(s, b)
             /\ IsFiniteSet(Sharing(s, b))
             /\ b = a => v \in Sharing(s, b)
  <2>1. Sharing(t, b) = IF b = a THEN Sharing(s, b) \ {v} ELSE Sharing(s, b)
    BY <1>2 DEF Sharing, Without, Restrict
  <2>2. IsFiniteSet(Sharing(s, b))
    BY <1>2, FS_Subset DEF Sharing
  <2> QED
    BY <2>1, <2>2 DEF Sharing
<1>5. ASSUME NEW b \in DOMAIN s.allocs PROVE t.allocs[b].refs = Cardinality(Sharing(t, b))
  <2>1. s.allocs[b].refs = Cardinality(Sharing(s, b))
    BY DEF Exact
  <2>2. b = a => Cardinality(Sharing(s, b) \ {v}) = Cardinality(Sharing(s, b)) - 1
    BY <1>4, FS_RemoveElement
  <2> QED
    BY <1>1, <1>4, <2>1, <2>2
<1>6. ASSUME NEW b \in DOMAIN s.allocs
      PROVE  /\ b # a => (Sharing(t, b) # {} <=> Sharing(s, b) # {})
             /\ b = a => Sharing(s, b) # {}
             /\ b = a => (Sharing(t, b) = {} <=> s.allocs[b].refs = 1)
  <2>1. s.allocs[b].refs = Cardinality(Sharing(s, b)) /\ Cardinality(Sharing(s, b)) \in Nat
    BY <1>4, FS_CardinalityType DEF Exact
  <2>2. CASE b = a
    <3>1. /\ IsFiniteSet(Sharing(s, b) \ {v})
          /\ Cardinality(Sharing(s, b) \ {v}) = Cardinality(Sharing(s, b)) - 1
      BY <1>4, <2>2, FS_RemoveElement
    <3>2. Cardinality(Sharing(s, b) \ {v}) = 0 <=> Sharing(s, b) \ {v} = {}
      BY <3>1, FS_EmptySet
    <3> QED
      BY <1>4, <2>1, <2>2, <3>1, <3>2
  <2> QED
    BY <1>4, <2>2
<1> DEFINE Used(r) == {b \in DOMAIN r.allocs : Sharing(r, b) # {}}
           Bytes(r, b) == {b} \X (1 .. r.allocs[b].bytes)
<1>7. \A b \in DOMAIN s.allocs : Bytes(t, b) = Bytes(s, b)
  BY <1>1
<1>8. LiveBytes(t) = UNION {Bytes(t, b) : b \in Used(t)} /\ LiveBytes(s) = UNION {Bytes(s, b) : b \in Used(s)}
  BY DEF LiveBytes
<1>9. \A b \in DOMAIN s.allocs : b # a => Bytes(s, b) \cap Bytes(s, a) = {}
  OBVIOUS
<1>10. IsFiniteSet(LiveBytes(s)) /\ s.live = Cardinality(LiveBytes(s)) /\ s.live \in Nat
  BY LiveBytesFinite DEF Exact, SchedType
<1>11. a \in DOMAIN s.allocs => /\ IsFiniteSet(Bytes(s, a))
                                /\ Cardinality(Bytes(s, a)) = s.allocs[a].bytes
                                /\ s.allocs[a].bytes \in Nat
  <2>1. SchedType(s)
    BY DEF Exact
  <2> QED
    BY <2>1, LiveBytesFinite, AllocFacts
<1>12. Used(s) \subseteq DOMAIN s.allocs /\ Used(t) \subseteq DOMAIN s.allocs
  BY <1>1
<1>13. t.live = Cardinality(LiveBytes(t)) /\ t.live <= s.live /\ t.live \in Nat
  <2>1. CASE a # 0 /\ s.allocs[a].refs = 1
    <3>1. a \in DOMAIN s.allocs /\ Used(t) = Used(s) \ {a} /\ a \in Used(s)
      BY <1>1, <1>3, <1>6, <2>1
    <3> HIDE DEF Used, Bytes
    <3>2. LiveBytes(t) = LiveBytes(s) \ Bytes(s, a) /\ Bytes(s, a) \subseteq LiveBytes(s)
      BY <1>7, <1>8, <1>9, <1>12, <3>1
    <3> DEFINE freed == Bytes(s, a)
    <3>31. LiveBytes(s) \cap freed = freed
      BY <3>2
    <3> HIDE DEF freed
    <3>32. /\ IsFiniteSet(LiveBytes(s) \ freed)
           /\ Cardinality(LiveBytes(s) \ freed) = Cardinality(LiveBytes(s)) - Cardinality(LiveBytes(s) \cap freed)
      BY <1>10, FS_Difference
    <3>3. /\ Cardinality(LiveBytes(t)) = Cardinality(LiveBytes(s)) - Cardinality(Bytes(s, a))
          /\ IsFiniteSet(LiveBytes(t))
      BY <3>2, <3>31, <3>32 DEF freed
    <3>4. Cardinality(LiveBytes(t)) \in Nat
      BY <3>3, FS_CardinalityType
    <3> QED
      BY <1>10, <1>11, <2>1, <3>1, <3>3, <3>4
  <2>2. CASE ~(a # 0 /\ s.allocs[a].refs = 1)
    <3>1. Used(t) = Used(s)
      BY <1>1, <1>3, <1>6, <2>2
    <3> HIDE DEF Used, Bytes
    <3>2. LiveBytes(t) = LiveBytes(s)
      BY <1>7, <1>8, <1>12, <3>1
    <3> QED
      BY <1>10, <2>2, <3>2
  <2> QED
    BY <2>1, <2>2
<1>14. SchedType(t)
  <2>1. IsFiniteSet(DOMAIN t.values)
    BY <1>2, FS_RemoveElement DEF Without, Restrict
  <2>2. t.values \in [DOMAIN t.values -> 0 .. Len(t.allocs)]
    BY <1>1, <1>2 DEF Without, Restrict
  <2>3. s.next = Len(s.allocs) + 1 /\ s.peak \in Nat
    BY DEF Exact, SchedType
  <2> QED
    BY <1>1, <1>13, <2>1, <2>2, <2>3 DEF SchedType, Alloc
<1>15. t.peak >= t.live
  <2>1. s.peak \in Nat /\ s.live \in Nat /\ s.peak >= s.live
    BY DEF Exact, SchedType
  <2> QED
    BY <1>13, <2>1
<1> QED
  BY <1>1, <1>5, <1>13, <1>14, <1>15 DEF Exact

-----------------------------------------------------------------------------
(* What each call does, when it does not fail *)

\* A new value v with an allocation of its own.
IsFresh(s, t, v, bytes) ==
    /\ v \notin DOMAIN s.values
    /\ t.values = Extended(s.values, v, Len(s.allocs) + 1)
    /\ Len(t.allocs) = Len(s.allocs) + 1
    /\ t.allocs[Len(s.allocs) + 1].bytes = bytes
    /\ \A a \in 1 .. Len(s.allocs) : t.allocs[a].bytes = s.allocs[a].bytes
    /\ t.live = s.live + bytes
    /\ t.peak = Raise(s.peak, s.live + bytes)
    /\ t.uses = s.uses

\* A new value v in the allocation a.
IsShared(s, t, v, a) ==
    /\ v \notin DOMAIN s.values
    /\ t.values = Extended(s.values, v, a)
    /\ Len(t.allocs) = Len(s.allocs)
    /\ \A b \in 1 .. Len(s.allocs) : t.allocs[b].bytes = s.allocs[b].bytes
    /\ t.live = s.live /\ t.peak = s.peak
    /\ t.uses = s.uses

\* The value v is gone.
IsRemoved(s, t, v) ==
    /\ v \in DOMAIN s.values
    /\ t.values = Without(s.values, v)
    /\ Len(t.allocs) = Len(s.allocs)
    /\ \A b \in 1 .. Len(s.allocs) : t.allocs[b].bytes = s.allocs[b].bytes
    /\ t.live <= s.live /\ t.peak = s.peak

\* The values and allocations are what they were.
SameValues(s, t) == t.values = s.values /\ t.allocs = s.allocs /\ t.live = s.live

\* An error stays.
LEMMA FailFails ==
    ASSUME NEW s, IsSched(s), NEW e, e # "none"
    PROVE  Fail(s, e).err # "none"
<1>1. s.err = "none" => Fail(s, e) = [s EXCEPT !.err = e]
  BY DEF Fail
<1>2. s.err # "none" => Fail(s, e) = [s EXCEPT !.err = s.err]
  BY DEF Fail
<1> QED
  BY <1>1, <1>2 DEF IsSched, SchedFields

LEMMA CreateEffect ==
    ASSUME NEW s, Exact(s), s.err = "none", NEW bytes \in 0 .. MaxWord,
           NEW c, c = CreateAllocation(s, bytes), c.err = "none"
    PROVE  /\ IsSched(c)
           /\ c.next = s.next + 1 /\ c.live = s.live + bytes /\ c.peak = Raise(s.peak, s.live + bytes)
           /\ c.values = s.values /\ c.uses = s.uses
           /\ c.allocs \in Seq(Alloc) /\ Len(c.allocs) = s.next
           /\ c.allocs[s.next] = [bytes |-> bytes, refs |-> 0]
           /\ \A a \in 1 .. Len(s.allocs) : c.allocs[a] = s.allocs[a]
<1>1. IsSched(s) /\ s.allocs \in Seq(Alloc) /\ s.next = Len(s.allocs) + 1
  BY DEF Exact, SchedType, Alloc
<1> DEFINE q == Append(s.allocs, [bytes |-> bytes, refs |-> 0])
           p == Raise(s.peak, s.live + bytes)
<1>2. c = [s EXCEPT !.next = s.next + 1, !.live = s.live + bytes, !.peak = p, !.allocs = q]
  <2>1. CASE s.live + bytes > MaxWord
    <3>1. c = Fail(s, "limit")
      BY <2>1 DEF CreateAllocation
    <3> QED
      BY <1>1, <3>1, FailFails
  <2>2. CASE ~(s.live + bytes > MaxWord)
    BY <2>2 DEF CreateAllocation
  <2> QED
    BY <2>1, <2>2
<1>3. /\ q \in Seq(Alloc) /\ Len(q) = Len(s.allocs) + 1
      /\ q[Len(s.allocs) + 1] = [bytes |-> bytes, refs |-> 0]
      /\ \A a \in 1 .. Len(s.allocs) : q[a] = s.allocs[a]
  BY <1>1, AppendAlloc
<1> HIDE DEF p, q
<1>4. /\ IsSched(c) /\ c.next = s.next + 1 /\ c.live = s.live + bytes /\ c.peak = p
      /\ c.values = s.values /\ c.uses = s.uses /\ c.allocs = q
  BY <1>1, <1>2 DEF IsSched, SchedFields
<1> QED
  BY <1>1, <1>3, <1>4 DEF p

LEMMA InsertEffect ==
    ASSUME NEW s, IsSched(s), s.err = "none", s.allocs \in Seq(Alloc), NEW v,
           NEW a \in 0 .. Len(s.allocs), NEW t, t = InsertValue(s, v, a), t.err = "none"
    PROVE  /\ IsSched(t)
           /\ v \notin DOMAIN s.values
           /\ t.values = Extended(s.values, v, a)
           /\ t.allocs \in Seq(Alloc) /\ Len(t.allocs) = Len(s.allocs)
           /\ \A b \in 1 .. Len(s.allocs) :
                 /\ t.allocs[b].bytes = s.allocs[b].bytes
                 /\ t.allocs[b].refs = IF b = a THEN s.allocs[b].refs + 1 ELSE s.allocs[b].refs
                 /\ b # a => t.allocs[b] = s.allocs[b]
           /\ t.next = s.next /\ t.live = s.live /\ t.peak = s.peak /\ t.uses = s.uses
<1> DEFINE V == Extended(s.values, v, a)
           B == Referenced(s.allocs, a)
<1>1. v \notin DOMAIN s.values /\ t = [s EXCEPT !.values = V, !.allocs = B]
  <2>1. CASE v \in DOMAIN s.values
    <3>1. t = Fail(s, "integrity")
      BY <2>1 DEF InsertValue
    <3> QED
      BY <3>1, FailFails
  <2>2. CASE v \notin DOMAIN s.values
    BY <2>2 DEF InsertValue
  <2> QED
    BY <2>1, <2>2
<1>2. Len(s.allocs) \in Nat /\ \A b \in 1 .. Len(s.allocs) : s.allocs[b].refs \in Nat
  <2>1. Len(s.allocs) \in Nat
    BY LenProperties
  <2>2. ASSUME NEW b \in 1 .. Len(s.allocs) PROVE s.allocs[b].refs \in Nat
    <3>1. s.allocs[b] \in Alloc
      BY ElementOfSeq
    <3> QED
      BY <3>1 DEF Alloc
  <2> QED
    BY <2>1, <2>2
<1>3. /\ B \in Seq(Alloc) /\ Len(B) = Len(s.allocs)
      /\ \A b \in 1 .. Len(s.allocs) :
            /\ B[b].bytes = s.allocs[b].bytes
            /\ B[b].refs = IF b = a THEN s.allocs[b].refs + 1 ELSE s.allocs[b].refs
            /\ b # a => B[b] = s.allocs[b]
  <2>1. CASE a = 0
    <3>1. B = s.allocs
      BY <2>1 DEF Referenced
    <3> QED
      BY <1>2, <2>1, <3>1
  <2>2. CASE a # 0
    <3>1. a \in 1 .. Len(s.allocs) /\ s.allocs[a].refs + 1 \in Nat
      BY <1>2, <2>2
    <3>2. a \in DOMAIN s.allocs
      BY <3>1, LenProperties
    <3>3. B = [s.allocs EXCEPT ![a].refs = s.allocs[a].refs + 1]
      BY <2>2, <3>2 DEF Referenced
    <3> HIDE DEF B
    <3>4. /\ B \in Seq(Alloc) /\ Len(B) = Len(s.allocs)
          /\ B[a].refs = s.allocs[a].refs + 1 /\ B[a].bytes = s.allocs[a].bytes
          /\ \A b \in 1 .. Len(s.allocs) : b # a => B[b] = s.allocs[b]
      BY <3>1, <3>3, ChangeRefs
    <3> QED
      BY <3>4
  <2> QED
    BY <2>1, <2>2
<1> HIDE DEF V, B
<1>4. /\ IsSched(t) /\ t.values = V /\ t.allocs = B
      /\ t.next = s.next /\ t.live = s.live /\ t.peak = s.peak /\ t.uses = s.uses
  BY <1>1 DEF IsSched, SchedFields
<1> QED
  BY <1>1, <1>3, <1>4 DEF V

\* A new allocation with its first value.
LEMMA FreshEffect ==
    ASSUME NEW s, Exact(s), s.err = "none", NEW bytes \in 0 .. MaxWord, NEW v,
           CreateAllocation(s, bytes).err = "none",
           NEW t, t = InsertValue(CreateAllocation(s, bytes), v, s.next), t.err = "none"
    PROVE  Exact(t) /\ IsFresh(s, t, v, bytes)
<1> DEFINE c == CreateAllocation(s, bytes)
           n == Len(s.allocs) + 1
<1>1. /\ IsSched(c)
      /\ c.next = s.next + 1 /\ c.live = s.live + bytes /\ c.peak = Raise(s.peak, s.live + bytes)
      /\ c.values = s.values /\ c.uses = s.uses
      /\ c.allocs \in Seq(Alloc) /\ Len(c.allocs) = s.next
      /\ c.allocs[s.next] = [bytes |-> bytes, refs |-> 0]
      /\ \A a \in 1 .. Len(s.allocs) : c.allocs[a] = s.allocs[a]
  BY CreateEffect
<1>2. c.err = "none" /\ t = InsertValue(c, v, s.next)
  OBVIOUS
<1> HIDE DEF c
<1>3. /\ s.next = Len(s.allocs) + 1 /\ Len(s.allocs) \in Nat /\ s.live \in Nat /\ s.peak \in Nat
      /\ s.uses \in [DOMAIN s.uses -> Nat]
  BY AllocFacts DEF Exact, SchedType
<1>4. s.next \in 0 .. Len(c.allocs) /\ s.next \in 1 .. Len(c.allocs)
  BY <1>1, <1>3
<1>5. /\ IsSched(t) /\ v \notin DOMAIN c.values
      /\ t.values = Extended(c.values, v, s.next)
      /\ t.allocs \in Seq(Alloc) /\ Len(t.allocs) = Len(c.allocs)
      /\ \A b \in 1 .. Len(c.allocs) :
            /\ t.allocs[b].bytes = c.allocs[b].bytes
            /\ t.allocs[b].refs = IF b = s.next THEN c.allocs[b].refs + 1 ELSE c.allocs[b].refs
            /\ b # s.next => t.allocs[b] = c.allocs[b]
      /\ t.next = c.next /\ t.live = c.live /\ t.peak = c.peak /\ t.uses = c.uses
  BY <1>1, <1>2, <1>4, InsertEffect
<1>6. t.allocs[n].bytes = bytes /\ t.allocs[n].refs = 1
  BY <1>1, <1>3, <1>4, <1>5
<1>7. ASSUME NEW a \in 1 .. Len(s.allocs) PROVE t.allocs[a] = s.allocs[a]
  <2>1. a \in 1 .. Len(c.allocs) /\ a # s.next
    BY <1>1, <1>3
  <2> QED
    BY <1>1, <1>5, <2>1
<1>8. t.peak \in Nat /\ t.peak >= t.live
  BY <1>1, <1>3, <1>5 DEF Raise
<1>9. /\ v \notin DOMAIN s.values
      /\ t.values = Extended(s.values, v, n)
      /\ Len(t.allocs) = n /\ t.next = n + 1 /\ t.live = s.live + bytes
      /\ t.peak = Raise(s.peak, s.live + bytes)
      /\ t.uses = s.uses /\ t.uses \in [DOMAIN t.uses -> Nat]
  BY <1>1, <1>3, <1>5
<1>10. Exact(t)
  BY <1>5, <1>6, <1>7, <1>8, <1>9, AddedExact
<1> QED
  BY <1>6, <1>7, <1>9, <1>10 DEF IsFresh

\* A value in an allocation in use.
LEMMA SharedEffect ==
    ASSUME NEW s, Exact(s), s.err = "none", NEW v, NEW w \in DOMAIN s.values,
           NEW t, t = InsertValue(s, v, s.values[w]), t.err = "none"
    PROVE  Exact(t) /\ IsShared(s, t, v, s.values[w])
<1> DEFINE a == s.values[w]
<1>1. /\ IsSched(s) /\ s.allocs \in Seq(Alloc) /\ a \in 0 .. Len(s.allocs)
      /\ s.uses \in [DOMAIN s.uses -> Nat]
  BY DEF Exact, SchedType, Alloc
<1>2. a # 0 => Sharing(s, a) # {}
  BY DEF Sharing
<1>3. /\ IsSched(t)
      /\ v \notin DOMAIN s.values
      /\ t.values = Extended(s.values, v, a)
      /\ t.allocs \in Seq(Alloc) /\ Len(t.allocs) = Len(s.allocs)
      /\ \A b \in 1 .. Len(s.allocs) :
            /\ t.allocs[b].bytes = s.allocs[b].bytes
            /\ t.allocs[b].refs = IF b = a THEN s.allocs[b].refs + 1 ELSE s.allocs[b].refs
      /\ t.next = s.next /\ t.live = s.live /\ t.peak = s.peak /\ t.uses = s.uses
  BY <1>1, InsertEffect
<1> HIDE DEF a
<1>4. Exact(t)
  BY <1>1, <1>2, <1>3, SharedExact
<1>5. IsShared(s, t, v, a)
  BY <1>3 DEF IsShared
<1> QED
  BY <1>4, <1>5 DEF a

LEMMA RemoveEffect ==
    ASSUME NEW s, Exact(s), s.err = "none", NEW v,
           NEW t, t = RemoveValue(s, v), t.err = "none"
    PROVE  Exact(t) /\ IsRemoved(s, t, v) /\ t.uses = s.uses
<1>1. IsSched(s) /\ s.allocs \in Seq(Alloc) /\ s.uses \in [DOMAIN s.uses -> Nat]
  BY DEF Exact, SchedType, Alloc
<1>2. v \in DOMAIN s.values
  <2>1. SUFFICES ASSUME v \notin DOMAIN s.values PROVE FALSE
    OBVIOUS
  <2>2. t = Fail(s, "integrity")
    BY <2>1 DEF RemoveValue
  <2> QED
    BY <1>1, <2>2, FailFails
<1> DEFINE a == s.values[v]
           V == Without(s.values, v)
           left == [s EXCEPT !.values = V]
           l == IF s.allocs[a].refs = 1 THEN s.live - s.allocs[a].bytes ELSE s.live
           B == [s.allocs EXCEPT ![a].refs = @ - 1]
<1>3. a \in 0 .. Len(s.allocs) /\ Len(s.allocs) \in Nat /\ (a # 0 => a \in 1 .. Len(s.allocs))
  BY <1>2, AllocFacts DEF Exact, SchedType
<1>4. t = IF a = 0 THEN left ELSE [left EXCEPT !.allocs[a].refs = @ - 1,
                                   !.live = IF s.allocs[a].refs = 1 THEN @ - s.allocs[a].bytes ELSE @]
  BY <1>2 DEF RemoveValue, Without, Restrict
<1>5. IsSched(left) /\ left.values = V /\ left.allocs = s.allocs /\ left.live = s.live /\ left.next = s.next
      /\ left.peak = s.peak /\ left.uses = s.uses
  <2> HIDE DEF V
  <2> QED
    BY <1>1 DEF IsSched, SchedFields
<1>6. a # 0 => t = [left EXCEPT !.allocs = B, !.live = l]
  <2> HIDE DEF left, V
  <2>1. SUFFICES ASSUME a # 0 PROVE t = [left EXCEPT !.allocs = B, !.live = l]
    OBVIOUS
  <2>2. [left EXCEPT !.allocs[a].refs = @ - 1].live = s.live
    BY <1>5 DEF IsSched, SchedFields
  <2> QED
    BY <1>4, <1>5, <2>1, <2>2 DEF IsSched, SchedFields
<1>7. a # 0 => /\ B \in Seq(Alloc) /\ Len(B) = Len(s.allocs)
               /\ \A b \in 1 .. Len(s.allocs) :
                     /\ B[b].bytes = s.allocs[b].bytes
                     /\ B[b].refs = IF b = a THEN s.allocs[b].refs - 1 ELSE s.allocs[b].refs
  <2>1. SUFFICES ASSUME a # 0
                 PROVE  /\ B \in Seq(Alloc) /\ Len(B) = Len(s.allocs)
                        /\ \A b \in 1 .. Len(s.allocs) :
                              /\ B[b].bytes = s.allocs[b].bytes
                              /\ B[b].refs = IF b = a THEN s.allocs[b].refs - 1 ELSE s.allocs[b].refs
    OBVIOUS
  <2>2. a \in 1 .. Len(s.allocs) /\ a \in DOMAIN s.allocs
    BY <1>3, <2>1, AllocFacts DEF Exact
  <2>3. s.allocs[a].refs - 1 \in Nat
    <3>1. v \in Sharing(s, a) /\ s.allocs[a].refs = Cardinality(Sharing(s, a))
      BY <1>2, <2>2 DEF Sharing, Exact
    <3>2. IsFiniteSet(Sharing(s, a))
      BY FS_Subset DEF Sharing, Exact, SchedType
    <3> QED
      BY <3>1, <3>2, FS_EmptySet, FS_CardinalityType
  <2> DEFINE m == s.allocs[a].refs - 1
  <2>4. B = [s.allocs EXCEPT ![a].refs = m]
    BY <2>2
  <2> HIDE DEF B, m, a
  <2>5. /\ B \in Seq(Alloc) /\ Len(B) = Len(s.allocs)
        /\ B[a].refs = m /\ B[a].bytes = s.allocs[a].bytes
        /\ \A b \in 1 .. Len(s.allocs) : b # a => B[b] = s.allocs[b]
    BY <1>1, <2>2, <2>3, <2>4, ChangeRefs DEF m
  <2> QED
    BY <2>5 DEF m
<1>8. /\ IsSched(t) /\ t.values = V /\ t.next = s.next /\ t.peak = s.peak /\ t.uses = s.uses
      /\ t.allocs = IF a = 0 THEN s.allocs ELSE B
      /\ t.live = IF a = 0 THEN s.live ELSE l
  <2>1. CASE a = 0
    BY <1>4, <1>5, <2>1
  <2>2. CASE a # 0
    <3> HIDE DEF B, l, V, a, left
    <3> QED
      BY <1>5, <1>6, <2>2 DEF IsSched, SchedFields
  <2> QED
    BY <2>1, <2>2
<1>9. /\ t.allocs \in Seq(Alloc) /\ Len(t.allocs) = Len(s.allocs)
      /\ \A b \in 1 .. Len(s.allocs) :
            /\ t.allocs[b].bytes = s.allocs[b].bytes
            /\ t.allocs[b].refs = IF b = a THEN s.allocs[b].refs - 1 ELSE s.allocs[b].refs
      /\ a # 0 /\ s.allocs[a].refs = 1 => t.live = s.live - s.allocs[a].bytes
      /\ ~(a # 0 /\ s.allocs[a].refs = 1) => t.live = s.live
  <2>1. CASE a = 0
    BY <1>1, <1>3, <1>8, <2>1
  <2>2. CASE a # 0
    <3>1. t.live = l /\ t.allocs = B
      BY <1>8, <2>2
    <3> HIDE DEF B
    <3> QED
      BY <1>7, <2>2, <3>1
  <2> QED
    BY <2>1, <2>2
<1>10. t.values = Without(s.values, v)
  BY <1>8
<1> HIDE DEF a, V, left, l, B
<1>11. a = s.values[v]
  BY DEF a
<1>12. Exact(t) /\ t.live <= s.live
  BY <1>1, <1>2, <1>8, <1>9, <1>10, <1>11, RemovedExact
<1>13. IsRemoved(s, t, v)
  BY <1>2, <1>8, <1>9, <1>10, <1>12 DEF IsRemoved
<1> QED
  BY <1>8, <1>12, <1>13

LEMMA ObserveEffect ==
    ASSUME NEW s, Exact(s), s.err = "none", NEW x \in Nat,
           NEW t, t = ObserveTransient(s, x), t.err = "none"
    PROVE  /\ Exact(t) /\ SameValues(s, t) /\ t.uses = s.uses
           /\ t.peak = Raise(s.peak, s.live + x)
<1>1. IsSched(s) /\ s.live \in Nat /\ s.peak \in Nat /\ s.peak >= s.live
  BY DEF Exact, SchedType
<1> DEFINE p == Raise(s.peak, s.live + x)
<1>2. t = [s EXCEPT !.peak = p]
  <2>1. CASE s.live + x > MaxWord
    <3>1. t = Fail(s, "limit")
      BY <2>1 DEF ObserveTransient
    <3> QED
      BY <1>1, <3>1, FailFails
  <2>2. CASE ~(s.live + x > MaxWord)
    BY <2>2 DEF ObserveTransient
  <2> QED
    BY <2>1, <2>2
<1>3. p \in Nat /\ p >= s.live
  BY <1>1 DEF Raise
<1> HIDE DEF p
<1>4. /\ IsSched(t) /\ t.peak = p /\ t.uses = s.uses /\ t.values = s.values /\ t.allocs = s.allocs
      /\ t.live = s.live /\ t.next = s.next
  BY <1>1, <1>2 DEF IsSched, SchedFields
<1>5. \A a : Sharing(t, a) = Sharing(s, a)
  BY <1>4 DEF Sharing
<1>6. LiveBytes(t) = LiveBytes(s)
  BY <1>4, <1>5 DEF LiveBytes
<1>7. SchedType(t)
  BY <1>3, <1>4 DEF Exact, SchedType
<1> QED
  BY <1>3, <1>4, <1>5, <1>6, <1>7 DEF Exact, SameValues, p

LEMMA ConsumeEffect ==
    ASSUME NEW s, Exact(s), s.err = "none", NEW v,
           NEW t, t = ConsumeValue(s, v), t.err = "none"
    PROVE  /\ Exact(t)
           /\ v \in DOMAIN s.uses /\ s.uses[v] # 0
           /\ t.uses = [s.uses EXCEPT ![v] = s.uses[v] - 1]
           /\ s.uses[v] = 1 => IsRemoved(s, t, v)
           /\ s.uses[v] # 1 => SameValues(s, t) /\ t.peak = s.peak
<1>1. IsSched(s) /\ s.uses \in [DOMAIN s.uses -> Nat]
  BY DEF Exact, SchedType
<1>2. v \in DOMAIN s.uses /\ s.uses[v] # 0
  <2>1. SUFFICES ASSUME ~(v \in DOMAIN s.uses /\ s.uses[v] # 0) PROVE FALSE
    OBVIOUS
  <2>2. t = Fail(s, "integrity")
    BY <2>1 DEF ConsumeValue
  <2> QED
    BY <1>1, <2>2, FailFails
<1> DEFINE U == [s.uses EXCEPT ![v] = s.uses[v] - 1]
           used == [s EXCEPT !.uses[v] = @ - 1]
<1>3. U \in [DOMAIN s.uses -> Nat] /\ U[v] = s.uses[v] - 1
  BY <1>1, <1>2
<1>4. t = IF used.uses[v] = 0 THEN RemoveValue(used, v) ELSE used
  BY <1>2 DEF ConsumeValue
<1>5. used = [s EXCEPT !.uses = U]
  OBVIOUS
<1> HIDE DEF U, used
<1>6. /\ IsSched(used) /\ used.uses = U /\ used.values = s.values /\ used.allocs = s.allocs
      /\ used.live = s.live /\ used.next = s.next /\ used.peak = s.peak /\ used.err = "none"
  BY <1>1, <1>5 DEF IsSched, SchedFields
<1>7. \A a : Sharing(used, a) = Sharing(s, a)
  BY <1>6 DEF Sharing
<1>8. LiveBytes(used) = LiveBytes(s)
  BY <1>6, <1>7 DEF LiveBytes
<1>9. SchedType(used)
  <2>1. used.uses \in [DOMAIN used.uses -> Nat]
    BY <1>3, <1>6
  <2> QED
    BY <1>6, <2>1 DEF Exact, SchedType
<1>10. Exact(used)
  BY <1>6, <1>7, <1>8, <1>9 DEF Exact
<1>11. CASE s.uses[v] = 1
  <2>1. t = RemoveValue(used, v)
    BY <1>3, <1>4, <1>6, <1>11
  <2>2. Exact(t) /\ IsRemoved(used, t, v) /\ t.uses = U
    BY <1>6, <1>10, <2>1, RemoveEffect
  <2>3. IsRemoved(s, t, v)
    BY <1>6, <2>2 DEF IsRemoved
  <2> QED
    BY <1>2, <1>11, <2>2, <2>3 DEF U
<1>12. CASE s.uses[v] # 1
  <2>1. t = used
    <3>1. s.uses[v] \in Nat
      BY <1>1, <1>2
    <3> QED
      BY <1>3, <1>4, <1>6, <1>12, <3>1
  <2> QED
    BY <1>2, <1>6, <1>10, <1>12, <2>1 DEF U, SameValues
<1> QED
  BY <1>11, <1>12

LEMMA UnusedEffect ==
    ASSUME NEW s, Exact(s), s.err = "none", NEW v,
           NEW t, t = RemoveUnused(s, v), t.err = "none"
    PROVE  /\ Exact(t) /\ t.uses = s.uses
           /\ v \in DOMAIN s.uses /\ s.uses[v] > 0 => t = s
           /\ ~(v \in DOMAIN s.uses /\ s.uses[v] > 0) => IsRemoved(s, t, v)
<1>1. CASE v \in DOMAIN s.uses /\ s.uses[v] > 0
  BY <1>1 DEF RemoveUnused
<1>2. CASE ~(v \in DOMAIN s.uses /\ s.uses[v] > 0)
  <2>1. t = RemoveValue(s, v)
    BY <1>2 DEF RemoveUnused
  <2> QED
    BY <1>2, <2>1, RemoveEffect
<1> QED
  BY <1>1, <1>2

LEMMA ProduceEffect ==
    ASSUME NEW s, Exact(s), s.err = "none", NEW node, NEW v, NEW facts, NEW origin,
           facts.bytes \in 0 .. MaxWord,
           NEW t, t = Produce(s, node, v, facts, origin), t.err = "none"
    PROVE  /\ Exact(t)
           /\ origin = "fresh" => IsFresh(s, t, v, facts.bytes)
           /\ origin # "fresh" => /\ node.inputs[1] \in DOMAIN s.values
                                  /\ IsShared(s, t, v, s.values[node.inputs[1]])
<1>1. IsSched(s)
  BY DEF Exact, SchedType
<1>2. CASE origin = "fresh"
  <2> DEFINE c == CreateAllocation(s, facts.bytes)
  <2>1. t = IF c.err # "none" THEN c ELSE InsertValue(c, v, s.next)
    BY <1>2 DEF Produce
  <2>2. c.err = "none" /\ t = InsertValue(c, v, s.next)
    BY <2>1
  <2> QED
    BY <1>2, <2>2, FreshEffect
<1>3. CASE origin # "fresh"
  <2>1. node.inputs[1] \in DOMAIN s.values
    <3>1. SUFFICES ASSUME node.inputs[1] \notin DOMAIN s.values PROVE FALSE
      OBVIOUS
    <3>2. t = Fail(s, "integrity")
      BY <1>3, <3>1 DEF Produce
    <3> QED
      BY <1>1, <3>2, FailFails
  <2>2. t = InsertValue(s, v, s.values[node.inputs[1]])
    BY <1>3, <2>1 DEF Produce
  <2> QED
    BY <1>3, <2>1, <2>2, SharedEffect
<1> QED
  BY <1>2, <1>3

-----------------------------------------------------------------------------
(* How each call fails *)

LEMMA FailKind ==
    ASSUME NEW s, IsSched(s), s.err = "none", NEW e
    PROVE  Fail(s, e).err = e
<1>1. Fail(s, e) = [s EXCEPT !.err = e]
  BY DEF Fail
<1> QED
  BY <1>1 DEF IsSched, SchedFields

LEMMA CreateErr ==
    ASSUME NEW s, IsSched(s), s.err = "none", NEW bytes
    PROVE  /\ CreateAllocation(s, bytes).err \in {"none", "limit"}
           /\ CreateAllocation(s, bytes).err = "none" =>
                  IsSched(CreateAllocation(s, bytes)) /\ CreateAllocation(s, bytes).values = s.values
<1> DEFINE q == Append(s.allocs, [bytes |-> bytes, refs |-> 0])
           p == Raise(s.peak, s.live + bytes)
           c == CreateAllocation(s, bytes)
<1>1. CASE s.live + bytes > MaxWord
  <2>1. c = Fail(s, "limit")
    BY <1>1 DEF CreateAllocation
  <2> QED
    BY <2>1, FailKind
<1>2. CASE ~(s.live + bytes > MaxWord)
  <2>1. c = [s EXCEPT !.next = s.next + 1, !.live = s.live + bytes, !.peak = p, !.allocs = q]
    BY <1>2 DEF CreateAllocation
  <2> HIDE DEF p, q, c
  <2>2. IsSched(c) /\ c.err = "none" /\ c.values = s.values
    BY <2>1 DEF IsSched, SchedFields
  <2> QED
    BY <2>2 DEF c
<1> QED
  BY <1>1, <1>2

LEMMA InsertErr ==
    ASSUME NEW s, IsSched(s), s.err = "none", NEW v, NEW a
    PROVE  InsertValue(s, v, a).err = IF v \in DOMAIN s.values THEN "integrity" ELSE "none"
<1>1. CASE v \in DOMAIN s.values
  BY <1>1, FailKind DEF InsertValue
<1>2. CASE v \notin DOMAIN s.values
  <2> DEFINE V == Extended(s.values, v, a)
             B == Referenced(s.allocs, a)
  <2>1. InsertValue(s, v, a) = [s EXCEPT !.values = V, !.allocs = B]
    BY <1>2 DEF InsertValue
  <2> HIDE DEF V, B
  <2> QED
    BY <1>2, <2>1 DEF IsSched, SchedFields
<1> QED
  BY <1>1, <1>2

LEMMA ObserveErr ==
    ASSUME NEW s, IsSched(s), s.err = "none", NEW x
    PROVE  ObserveTransient(s, x).err \in {"none", "limit"}
<1>1. CASE s.live + x > MaxWord
  BY <1>1, FailKind DEF ObserveTransient
<1>2. CASE ~(s.live + x > MaxWord)
  <2> DEFINE p == Raise(s.peak, s.live + x)
  <2>1. ObserveTransient(s, x) = [s EXCEPT !.peak = p]
    BY <1>2 DEF ObserveTransient
  <2> HIDE DEF p
  <2> QED
    BY <2>1 DEF IsSched, SchedFields
<1> QED
  BY <1>1, <1>2

LEMMA RemoveErr ==
    ASSUME NEW s, IsSched(s), s.err = "none", NEW v
    PROVE  RemoveValue(s, v).err = IF v \in DOMAIN s.values THEN "none" ELSE "integrity"
<1>1. CASE v \notin DOMAIN s.values
  BY <1>1, FailKind DEF RemoveValue
<1>2. CASE v \in DOMAIN s.values
  <2> DEFINE a == s.values[v]
             V == Without(s.values, v)
             left == [s EXCEPT !.values = V]
             B == [left.allocs EXCEPT ![a].refs = @ - 1]
             l == IF s.allocs[a].refs = 1 THEN left.live - s.allocs[a].bytes ELSE left.live
  <2>1. RemoveValue(s, v) = IF a = 0 THEN left ELSE [left EXCEPT !.allocs = B, !.live = l]
    <3>1. RemoveValue(s, v) = IF a = 0 THEN left
                              ELSE [left EXCEPT !.allocs[a].refs = @ - 1,
                                                !.live = IF s.allocs[a].refs = 1 THEN @ - s.allocs[a].bytes ELSE @]
      BY <1>2 DEF RemoveValue
    <3>2. IsSched(left)
      <4> HIDE DEF V
      <4> QED
        BY DEF IsSched, SchedFields
    <3> HIDE DEF left, V, a
    <3>3. [left EXCEPT !.allocs[a].refs = @ - 1].live = left.live
      BY <3>2 DEF IsSched, SchedFields
    <3> QED
      BY <3>1, <3>2, <3>3 DEF IsSched, SchedFields
  <2>2. IsSched(left) /\ left.err = "none"
    <3> HIDE DEF V
    <3> QED
      BY DEF IsSched, SchedFields
  <2> HIDE DEF left, V, a, B, l
  <2>3. [left EXCEPT !.allocs = B, !.live = l].err = "none"
    BY <2>2 DEF IsSched, SchedFields
  <2> QED
    BY <1>2, <2>1, <2>2, <2>3
<1> QED
  BY <1>1, <1>2

LEMMA ConsumeErr ==
    ASSUME NEW s, Exact(s), s.err = "none", NEW v
    PROVE  /\ ConsumeValue(s, v).err \in {"none", "integrity"}
           /\ v \in DOMAIN s.uses /\ s.uses[v] # 0 /\ v \in DOMAIN s.values
                 => ConsumeValue(s, v).err = "none"
<1>1. IsSched(s)
  BY DEF Exact, SchedType
<1>2. CASE ~(v \in DOMAIN s.uses /\ s.uses[v] # 0)
  <2>1. ConsumeValue(s, v) = Fail(s, "integrity")
    BY <1>2 DEF ConsumeValue
  <2> QED
    BY <1>1, <1>2, <2>1, FailKind
<1>3. CASE v \in DOMAIN s.uses /\ s.uses[v] # 0
  <2> DEFINE U == [s.uses EXCEPT ![v] = @ - 1]
             used == [s EXCEPT !.uses = U]
  <2>1. ConsumeValue(s, v) = IF used.uses[v] = 0 THEN RemoveValue(used, v) ELSE used
    BY <1>3 DEF ConsumeValue
  <2> HIDE DEF U
  <2>2. IsSched(used) /\ used.err = "none" /\ used.values = s.values
    BY <1>1 DEF IsSched, SchedFields
  <2> HIDE DEF used
  <2>3. RemoveValue(used, v).err = IF v \in DOMAIN s.values THEN "none" ELSE "integrity"
    BY <2>2, RemoveErr
  <2> QED
    BY <1>3, <2>1, <2>2, <2>3
<1> QED
  BY <1>2, <1>3

LEMMA UnusedErr ==
    ASSUME NEW s, IsSched(s), s.err = "none", NEW v
    PROVE  /\ RemoveUnused(s, v).err \in {"none", "integrity"}
           /\ v \in DOMAIN s.values => RemoveUnused(s, v).err = "none"
<1>1. RemoveValue(s, v).err = IF v \in DOMAIN s.values THEN "none" ELSE "integrity"
  BY RemoveErr
<1> QED
  BY <1>1 DEF RemoveUnused

LEMMA ProduceErr ==
    ASSUME NEW s, IsSched(s), s.err = "none", NEW node, NEW v, NEW facts, NEW origin
    PROVE  /\ Produce(s, node, v, facts, origin).err \in {"none", "limit", "integrity"}
           /\ v \notin DOMAIN s.values /\ (origin # "fresh" => node.inputs[1] \in DOMAIN s.values)
                 => Produce(s, node, v, facts, origin).err \in {"none", "limit"}
<1>1. CASE origin = "fresh"
  <2> DEFINE c == CreateAllocation(s, facts.bytes)
  <2>1. Produce(s, node, v, facts, origin) = IF c.err # "none" THEN c ELSE InsertValue(c, v, s.next)
    BY <1>1 DEF Produce
  <2>2. c.err \in {"none", "limit"} /\ (c.err = "none" => IsSched(c) /\ c.values = s.values)
    BY CreateErr
  <2> HIDE DEF c
  <2>3. c.err = "none" => InsertValue(c, v, s.next).err = IF v \in DOMAIN s.values THEN "integrity" ELSE "none"
    BY <2>2, InsertErr
  <2> QED
    BY <2>1, <2>2, <2>3
<1>2. CASE origin # "fresh"
  <2>1. CASE node.inputs[1] \notin DOMAIN s.values
    <3>1. Produce(s, node, v, facts, origin) = Fail(s, "integrity")
      BY <1>2, <2>1 DEF Produce
    <3> QED
      BY <1>2, <2>1, <3>1, FailKind
  <2>2. CASE node.inputs[1] \in DOMAIN s.values
    <3>1. Produce(s, node, v, facts, origin) = InsertValue(s, v, s.values[node.inputs[1]])
      BY <1>2, <2>2 DEF Produce
    <3>2. InsertValue(s, v, s.values[node.inputs[1]]).err = IF v \in DOMAIN s.values THEN "integrity" ELSE "none"
      BY InsertErr
    <3> QED
      BY <3>1, <3>2
  <2> QED
    BY <2>1, <2>2
<1> QED
  BY <1>1, <1>2

-----------------------------------------------------------------------------
(* The calls for one node *)

\* What infer_outputs checks of a node, as far as the schedule goes.
SizesFit(n) ==
    /\ Len(nodes[n].outputs) \in Nat
    /\ Len(nodes[n].inputs) \in Nat
    /\ DOMAIN nodes[n].outputs = 1 .. Len(nodes[n].outputs)
    /\ \A k \in DOMAIN nodes[n].outputs : nodes[n].outputs[k].bytes \in 0 .. MaxWord

\* The values node n makes.
Made(n) == {NodeRef(n, k) : k \in DOMAIN nodes[n].outputs}

LEMMA CallsCounted ==
    ASSUME NEW n, SizesFit(n)
    PROVE  ScheduleCalls(nodes[n]) \in Nat
<1>1. Len(nodes[n].outputs) \in Nat /\ Len(nodes[n].inputs) \in Nat
  BY DEF SizesFit
<1>2. ASSUME NEW o \in Nat, NEW i \in Nat PROVE 2 * o + i + 1 \in Nat
  OBVIOUS
<1> QED
  BY <1>1, <1>2 DEF ScheduleCalls

\* Each call keeps the schedule exact, and adds no value but the node's.
LEMMA CallExact ==
    ASSUME NEW n, SizesFit(n), NEW s, Exact(s), s.err = "none", NEW origins, NEW x \in Nat,
           NEW c \in 1 .. ScheduleCalls(nodes[n]),
           NEW t, t = ScheduleCall(s, n, origins, x, c), t.err = "none"
    PROVE  Exact(t) /\ DOMAIN t.values \subseteq DOMAIN s.values \cup Made(n)
<1> DEFINE outs == Len(nodes[n].outputs)
           ins == Len(nodes[n].inputs)
<1>1. outs \in Nat /\ ins \in Nat /\ c \in 1 .. 2 * outs + ins + 1
  BY DEF SizesFit, ScheduleCalls
<1> HIDE DEF outs, ins
<1>2. CASE c <= outs
  <2>1. c \in DOMAIN nodes[n].outputs /\ nodes[n].outputs[c].bytes \in 0 .. MaxWord
    BY <1>1, <1>2 DEF SizesFit, outs
  <2>2. t = Produce(s, nodes[n], NodeRef(n, c), nodes[n].outputs[c], origins[c])
    BY <1>2 DEF ScheduleCall, outs
  <2>3. NodeRef(n, c) \in Made(n)
    BY <2>1 DEF Made
  <2> DEFINE origin == origins[c]
             v == NodeRef(n, c)
  <2>4. /\ Exact(t)
        /\ origin = "fresh" => IsFresh(s, t, v, nodes[n].outputs[c].bytes)
        /\ origin # "fresh" => IsShared(s, t, v, s.values[nodes[n].inputs[1]])
    BY <2>1, <2>2, ProduceEffect
  <2> HIDE DEF v, origin
  <2>5. DOMAIN t.values = DOMAIN s.values \cup {v}
    BY <2>4 DEF IsFresh, IsShared, Extended
  <2> QED
    BY <2>3, <2>4, <2>5 DEF v
<1>3. CASE c = outs + 1
  <2>1. t = ObserveTransient(s, x)
    BY <1>1, <1>3 DEF ScheduleCall, outs
  <2> QED
    BY <2>1, ObserveEffect DEF SameValues
<1>4. CASE c > outs + 1 /\ c <= outs + 1 + ins
  <2>1. PICK v : t = ConsumeValue(s, v)
    BY <1>1, <1>4 DEF ScheduleCall, outs, ins
  <2>2. Exact(t) /\ (IsRemoved(s, t, v) \/ SameValues(s, t))
    BY <2>1, ConsumeEffect
  <2> QED
    BY <2>2 DEF IsRemoved, SameValues, Without, Restrict
<1>5. CASE c > outs + 1 + ins
  <2> DEFINE v == NodeRef(n, c - outs - 1 - ins)
  <2>0. ~(c <= outs) /\ ~(c = outs + 1) /\ ~(c <= outs + 1 + ins)
    BY <1>1, <1>5
  <2>1. t = RemoveUnused(s, v)
    BY <2>0 DEF ScheduleCall, outs, ins
  <2> HIDE DEF v
  <2>2. Exact(t) /\ (IsRemoved(s, t, v) \/ t = s)
    BY <2>1, UnusedEffect
  <2>3. CASE IsRemoved(s, t, v)
    BY <2>2, <2>3 DEF IsRemoved, Without, Restrict
  <2>4. CASE t = s
    BY <2>4
  <2> QED
    BY <2>2, <2>3, <2>4
<1> QED
  BY <1>1, <1>2, <1>3, <1>4, <1>5

\* The schedules after the first m calls.
IsRun(f, m, s, n, origins, x) ==
    f = [c \in 0 .. m |-> IF c = 0 THEN s
                          ELSE OrElse(f[c - 1], ScheduleCall(f[c - 1], n, origins, x, c))]

LEMMA RunExists ==
    ASSUME NEW s, NEW n, NEW origins, NEW x, NEW m \in Nat
    PROVE  \E f : IsRun(f, m, s, n, origins, x)
<1> DEFINE T == {l \in Nat : ~\E f : IsRun(f, l, s, n, origins, x)}
<1>1. SUFFICES ASSUME T # {} PROVE FALSE
  OBVIOUS
<1>2. PICK l \in T : \A j \in T : l <= j
  BY <1>1, LeastNumber
<1>3. CASE l = 0
  <2> DEFINE f == [c \in 0 .. 0 |-> s]
  <2>1. IsRun(f, 0, s, n, origins, x)
    BY DEF IsRun
  <2> QED
    BY <1>2, <1>3, <2>1
<1>4. CASE l # 0
  <2>1. l \in Nat /\ l - 1 \in Nat /\ l - 1 \notin T
    BY <1>2, <1>4
  <2>2. PICK f : IsRun(f, l - 1, s, n, origins, x)
    BY <2>1
  <2> DEFINE g == [c \in 0 .. l |-> IF c = l THEN OrElse(f[l - 1], ScheduleCall(f[l - 1], n, origins, x, l))
                                    ELSE f[c]]
  <2>3. ASSUME NEW c \in 0 .. l
        PROVE  g[c] = IF c = 0 THEN s ELSE OrElse(g[c - 1], ScheduleCall(g[c - 1], n, origins, x, c))
    <3>1. CASE c = l
      <4>1. g[c - 1] = f[l - 1]
        BY <1>4, <2>1, <3>1
      <4> QED
        BY <1>4, <3>1, <4>1
    <3>2. CASE c # l
      <4>1. c \in 0 .. l - 1 /\ g[c] = f[c]
        BY <2>1, <3>2
      <4>2. c # 0 => c - 1 \in 0 .. l /\ c - 1 # l /\ g[c - 1] = f[c - 1]
        BY <2>1, <4>1
      <4> QED
        BY <2>2, <4>1, <4>2 DEF IsRun
    <3> QED
      BY <3>1, <3>2
  <2>4. IsRun(g, l, s, n, origins, x)
    BY <2>3 DEF IsRun
  <2> QED
    BY <1>2, <2>4
<1> QED
  BY <1>3, <1>4

\* The schedule after each call is what the call makes of the one before it.
LEMMA RunSteps ==
    ASSUME NEW s, NEW n, NEW origins, NEW x, ScheduleCalls(nodes[n]) \in Nat,
           NEW f, f = NodeSchedule(s, n, origins, x)
    PROVE  /\ f[0] = s
           /\ \A c \in 1 .. ScheduleCalls(nodes[n]) :
                 f[c] = OrElse(f[c - 1], ScheduleCall(f[c - 1], n, origins, x, c))
<1>1. PICK g : IsRun(g, ScheduleCalls(nodes[n]), s, n, origins, x)
  BY RunExists
<1>2. f = CHOOSE h : IsRun(h, ScheduleCalls(nodes[n]), s, n, origins, x)
  BY DEF NodeSchedule, IsRun
<1>3. IsRun(f, ScheduleCalls(nodes[n]), s, n, origins, x)
  BY <1>1, <1>2
<1>4. f[0] = s
  BY <1>3 DEF IsRun
<1>5. ASSUME NEW c \in 1 .. ScheduleCalls(nodes[n])
      PROVE  f[c] = OrElse(f[c - 1], ScheduleCall(f[c - 1], n, origins, x, c))
  BY <1>3 DEF IsRun
<1> QED
  BY <1>4, <1>5

\* When no call of a node failed, no call before it did, and each one was made.
LEMMA RunHolds ==
    ASSUME NEW s, NEW n, NEW origins, NEW x, SizesFit(n),
           NEW f, f = NodeSchedule(s, n, origins, x),
           ScheduleNode(s, n, origins, x).err = "none"
    PROVE  /\ ScheduleCalls(nodes[n]) \in Nat
           /\ f[0] = s
           /\ f[ScheduleCalls(nodes[n])] = ScheduleNode(s, n, origins, x)
           /\ \A c \in 0 .. ScheduleCalls(nodes[n]) : f[c].err = "none"
           /\ \A c \in 1 .. ScheduleCalls(nodes[n]) : f[c] = ScheduleCall(f[c - 1], n, origins, x, c)
<1> DEFINE last == ScheduleCalls(nodes[n])
<1>1. last \in Nat
  BY CallsCounted
<1>2. /\ f[0] = s
      /\ \A c \in 1 .. last : f[c] = OrElse(f[c - 1], ScheduleCall(f[c - 1], n, origins, x, c))
  BY <1>1, RunSteps
<1>3. f[last] = ScheduleNode(s, n, origins, x) /\ f[last].err = "none"
  BY DEF ScheduleNode
<1> HIDE DEF last
<1>4. ASSUME NEW c \in 1 .. last, f[c].err = "none" PROVE f[c - 1].err = "none"
  BY <1>2, <1>4 DEF OrElse
<1> DEFINE T == {d \in Nat : d <= last /\ f[last - d].err # "none"}
<1>5. \A c \in 0 .. last : f[c].err = "none"
  <2>1. SUFFICES ASSUME NEW c \in 0 .. last, f[c].err # "none" PROVE FALSE
    OBVIOUS
  <2>2. last - c \in T
    BY <1>1, <2>1
  <2>3. PICK d \in T : \A e \in T : d <= e
    BY <2>2, LeastNumber
  <2>4. d # 0 /\ d \in Nat /\ d <= last /\ f[last - d].err # "none"
    BY <1>1, <1>3, <2>3
  <2>5. d - 1 \notin T /\ d - 1 \in Nat
    BY <2>3, <2>4
  <2>6. f[last - (d - 1)].err = "none"
    BY <1>1, <2>4, <2>5
  <2>7. last - (d - 1) \in 1 .. last /\ (last - (d - 1)) - 1 = last - d
    BY <1>1, <2>4
  <2> QED
    BY <1>4, <2>4, <2>6, <2>7
<1>6. ASSUME NEW c \in 1 .. last PROVE f[c] = ScheduleCall(f[c - 1], n, origins, x, c)
  <2>1. f[c - 1].err = "none"
    BY <1>1, <1>5
  <2> QED
    BY <1>2, <2>1 DEF OrElse
<1> QED
  BY <1>1, <1>2, <1>3, <1>5, <1>6 DEF last

\* The calls for a node keep the schedule exact.
LEMMA NodeExact ==
    ASSUME NEW n, SizesFit(n), NEW s, Exact(s), s.err = "none", NEW origins, NEW x \in Nat,
           NEW t, t = ScheduleNode(s, n, origins, x), t.err = "none"
    PROVE  Exact(t) /\ DOMAIN t.values \subseteq DOMAIN s.values \cup Made(n)
<1> DEFINE f == NodeSchedule(s, n, origins, x)
           last == ScheduleCalls(nodes[n])
           Good(c) == Exact(f[c]) /\ DOMAIN f[c].values \subseteq DOMAIN s.values \cup Made(n)
           T == {c \in Nat : c <= last /\ ~Good(c)}
<1>1. /\ last \in Nat /\ f[0] = s /\ f[last] = t
      /\ \A c \in 0 .. last : f[c].err = "none"
      /\ \A c \in 1 .. last : f[c] = ScheduleCall(f[c - 1], n, origins, x, c)
  BY RunHolds
<1> HIDE DEF f
<1>2. ASSUME NEW c \in 1 .. last, Good(c - 1) PROVE Good(c)
  <2>1. f[c - 1].err = "none" /\ f[c].err = "none"
    BY <1>1
  <2>2. f[c] = ScheduleCall(f[c - 1], n, origins, x, c) /\ Exact(f[c - 1])
    BY <1>1, <1>2
  <2>3. Exact(f[c]) /\ DOMAIN f[c].values \subseteq DOMAIN f[c - 1].values \cup Made(n)
    BY <2>1, <2>2, CallExact
  <2> QED
    BY <1>2, <2>3
<1>3. T = {}
  <2>1. SUFFICES ASSUME T # {} PROVE FALSE
    OBVIOUS
  <2>2. PICK c \in T : \A d \in T : c <= d
    BY <2>1, LeastNumber
  <2>3. Good(0)
    BY <1>1
  <2> HIDE DEF Good
  <2>4. c # 0 /\ c \in 1 .. last /\ c - 1 \in Nat /\ c - 1 \notin T
    BY <1>1, <2>2, <2>3
  <2>5. Good(c - 1)
    BY <1>1, <2>4
  <2> QED
    BY <1>2, <2>2, <2>4, <2>5
<1>4. Good(last)
  BY <1>1, <1>3
<1> QED
  BY <1>1, <1>4

\* The errors the schedule knows.
LEMMA CallErr ==
    ASSUME NEW n, NEW s, Exact(s), s.err = "none", NEW origins, NEW x, NEW c
    PROVE  ScheduleCall(s, n, origins, x, c).err \in {"none", "limit", "integrity"}
<1>1. IsSched(s)
  BY DEF Exact, SchedType
<1> DEFINE node == nodes[n]
           outs == Len(nodes[n].outputs)
           ins == Len(nodes[n].inputs)
<1>2. CASE c <= outs
  BY <1>1, <1>2, ProduceErr DEF ScheduleCall
<1>3. CASE ~(c <= outs) /\ c = outs + 1
  BY <1>1, <1>3, ObserveErr DEF ScheduleCall
<1>4. CASE ~(c <= outs) /\ ~(c = outs + 1) /\ c <= outs + 1 + ins
  BY <1>1, <1>4, ConsumeErr DEF ScheduleCall
<1>5. CASE ~(c <= outs) /\ ~(c = outs + 1) /\ ~(c <= outs + 1 + ins)
  BY <1>1, <1>5, UnusedErr DEF ScheduleCall
<1> QED
  BY <1>2, <1>3, <1>4, <1>5

LEMMA NodeErrs ==
    ASSUME NEW n, SizesFit(n), NEW s, Exact(s), s.err = "none", NEW origins, NEW x \in Nat
    PROVE  ScheduleNode(s, n, origins, x).err \in {"none", "limit", "integrity"}
<1> DEFINE f == NodeSchedule(s, n, origins, x)
           last == ScheduleCalls(nodes[n])
           Good(c) == /\ f[c].err \in {"none", "limit", "integrity"}
                      /\ f[c].err = "none" => Exact(f[c])
           T == {c \in Nat : c <= last /\ ~Good(c)}
<1>1. last \in Nat
  BY CallsCounted
<1>2. /\ f[0] = s
      /\ \A c \in 1 .. last : f[c] = OrElse(f[c - 1], ScheduleCall(f[c - 1], n, origins, x, c))
  BY <1>1, RunSteps
<1> HIDE DEF f
<1>3. ASSUME NEW c \in 1 .. last, Good(c - 1) PROVE Good(c)
  <2>1. CASE f[c - 1].err = "none"
    <3>1. Exact(f[c - 1]) /\ f[c] = ScheduleCall(f[c - 1], n, origins, x, c)
      BY <1>2, <1>3, <2>1 DEF OrElse
    <3>2. f[c].err \in {"none", "limit", "integrity"}
      BY <2>1, <3>1, CallErr
    <3>3. f[c].err = "none" => Exact(f[c])
      BY <2>1, <3>1, CallExact
    <3> QED
      BY <3>2, <3>3
  <2>2. CASE f[c - 1].err # "none"
    BY <1>2, <1>3, <2>2 DEF OrElse
  <2> QED
    BY <2>1, <2>2
<1>4. T = {}
  <2>1. SUFFICES ASSUME T # {} PROVE FALSE
    OBVIOUS
  <2>2. PICK c \in T : \A d \in T : c <= d
    BY <2>1, LeastNumber
  <2>3. Good(0)
    BY <1>2
  <2> HIDE DEF Good
  <2>4. c # 0 /\ c \in 1 .. last /\ c - 1 \in Nat /\ c - 1 \notin T
    BY <1>1, <2>2, <2>3
  <2>5. Good(c - 1)
    BY <1>1, <2>4
  <2> QED
    BY <1>3, <2>2, <2>4, <2>5
<1>5. Good(last)
  BY <1>1, <1>4
<1> QED
  BY <1>5 DEF ScheduleNode, f

-----------------------------------------------------------------------------
(* The graph *)

IsSeq(q) == q \in Seq(Range(q))

LEMMA SeqShape ==
    ASSUME NEW q, IsSeq(q)
    PROVE  Len(q) \in Nat /\ DOMAIN q = 1 .. Len(q)
  BY LenProperties DEF IsSeq

LEMMA FunctionSeq ==
    ASSUME NEW m \in Nat, NEW S, NEW q \in [1 .. m -> S]
    PROVE  IsSeq(q) /\ Len(q) = m
<1>1. q \in [1 .. m -> Range(q)]
  BY DEF Range
<1> DEFINE R == Range(q)
<1> HIDE DEF R
<1>2. q \in Seq(R) /\ Len(q) = m
  BY <1>1 DEF R
<1> QED
  BY <1>2 DEF IsSeq, R

\* One element more.
Grows(q, e, r) == r = Append(q, e)
Grown(q, e, r) ==
    /\ IsSeq(r)
    /\ Len(r) = Len(q) + 1
    /\ DOMAIN r = DOMAIN q \cup {Len(q) + 1}
    /\ r[Len(q) + 1] = e
    /\ \A k \in DOMAIN q : r[k] = q[k]

LEMMA AppendSeq ==
    ASSUME NEW q, IsSeq(q), NEW e, NEW r, Grows(q, e, r)
    PROVE  Grown(q, e, r)
<1> DEFINE S == Range(q) \cup {e}
<1>1. q \in Seq(S) /\ e \in S
  BY SeqMonotonic DEF IsSeq
<1>2. Len(q) \in Nat /\ DOMAIN q = 1 .. Len(q)
  BY SeqShape
<1> HIDE DEF S
<1>3. /\ r \in Seq(S) /\ Len(r) = Len(q) + 1 /\ r[Len(q) + 1] = e
      /\ \A k \in 1 .. Len(q) : r[k] = q[k]
  BY <1>1, AppendProperties DEF Grows
<1>4. DOMAIN r = 1 .. Len(q) + 1 /\ r \in [1 .. Len(q) + 1 -> S]
  BY <1>3, LenProperties
<1>5. Len(q) + 1 \in Nat
  BY <1>2
<1>6. IsSeq(r)
  BY <1>4, <1>5, FunctionSeq
<1> QED
  BY <1>2, <1>3, <1>4, <1>6 DEF Grown

\* A value that an external input or one of the first n nodes makes.
Within(v, n) ==
    \/ \E i \in DOMAIN inputs : v = InputRef(i)
    \/ \E m \in 1 .. n : m \in DOMAIN nodes /\ \E k \in DOMAIN nodes[m].outputs : v = NodeRef(m, k)

InputsFacts(n) == [k \in DOMAIN nodes[n].inputs |-> Facts(nodes[n].inputs[k])]

\* What add_operation checked of node n.
NodeOK(n) ==
    /\ nodes[n].op \in Operations
    /\ Len(nodes[n].inputs) \in 1 .. 2
    /\ DOMAIN nodes[n].inputs = 1 .. Len(nodes[n].inputs)
    /\ \A k \in DOMAIN nodes[n].inputs : Within(nodes[n].inputs[k], n - 1)
    /\ OperationAccepted(nodes[n].op, InputsFacts(n))
    /\ nodes[n].outputs = InferOutputs(nodes[n].op, InputsFacts(n))
    /\ IsSeq(nodes[n].outputs)
    /\ \A k \in DOMAIN nodes[n].outputs : FactsAccepted(nodes[n].outputs[k])

GraphOK ==
    /\ IsSeq(inputs)
    /\ \A i \in DOMAIN inputs : inputs[i] \in InputFacts /\ FactsAccepted(inputs[i])
    /\ IsSeq(nodes)
    /\ \A n \in DOMAIN nodes : NodeOK(n)

\* Tuples and what they hold.
LEMMA TupleSeq ==
    ASSUME NEW e
    PROVE  IsSeq(<<e>>) /\ Len(<<e>>) = 1 /\ DOMAIN <<e>> = {1} /\ <<e>>[1] = e
  BY DEF IsSeq, Range

LEMMA PairSeq ==
    ASSUME NEW e, NEW g
    PROVE  IsSeq(<<e, g>>) /\ Len(<<e, g>>) = 2 /\ DOMAIN <<e, g>> = 1 .. 2
  BY DEF IsSeq, Range

\* The outputs of an accepted operation are a vector.
LEMMA OutputsSeq ==
    ASSUME NEW op \in Operations, NEW fs
    PROVE  /\ IsSeq(InferOutputs(op, fs))
           /\ op.kind # "split" => Len(InferOutputs(op, fs)) = 1
<1>1. op.kind \in {"concat", "permute", "pad", "slice", "split", "reshape", "prepare"}
  BY OperationsAssumption
<1>2. CASE op.kind = "split"
  <2> DEFINE D == op.ranges
             q == InferOutputs(op, fs)
  <2>1. D \in Seq(Nat \X Nat)
    BY <1>2, OperationsAssumption
  <2>2. DOMAIN D = 1 .. Len(D) /\ Len(D) \in Nat
    BY <2>1, LenProperties
  <2>3. q = InferSplit(op, fs[1])
    BY <1>2 DEF InferOutputs
  <2>4. q = [k \in DOMAIN D |-> q[k]]
    BY <2>3 DEF InferSplit
  <2> HIDE DEF q, D
  <2>5. q \in [1 .. Len(D) -> Range(q)]
    BY <2>2, <2>4 DEF Range
  <2>6. q \in Seq(Range(q))
    BY <2>2, <2>5
  <2> QED
    BY <1>2, <2>6 DEF IsSeq, q
<1>3. CASE op.kind # "split"
  <2>1. \E e : InferOutputs(op, fs) = <<e>>
    BY <1>1, <1>3 DEF InferOutputs, InferConcat, InferPermute, InferPad, InferSlice, InferReshape, InferPrepare
  <2> QED
    BY <1>3, <2>1, TupleSeq
<1> QED
  BY <1>2, <1>3

\* A node that was accepted can be scheduled.
LEMMA NodeSizes ==
    ASSUME GraphOK, NEW n \in DOMAIN nodes
    PROVE  SizesFit(n)
<1>1. NodeOK(n)
  BY DEF GraphOK
<1>2. Len(nodes[n].outputs) \in Nat /\ DOMAIN nodes[n].outputs = 1 .. Len(nodes[n].outputs)
  BY <1>1, SeqShape DEF NodeOK
<1>3. ASSUME NEW k \in DOMAIN nodes[n].outputs PROVE nodes[n].outputs[k].bytes \in 0 .. MaxWord
  BY <1>1 DEF NodeOK, FactsAccepted, ByteLenFits
<1>4. Len(nodes[n].inputs) \in Nat
  BY <1>1 DEF NodeOK
<1> QED
  BY <1>2, <1>3, <1>4 DEF SizesFit

\* The facts of the values that a graph had are those it keeps.
LEMMA FactsKept ==
    ASSUME IsSeq(nodes), NEW e, Grows(nodes, e, nodes'), inputs' = inputs
    PROVE  /\ \A m \in DOMAIN nodes : nodes'[m] = nodes[m]
           /\ \A v, n : n <= Len(nodes) /\ Within(v, n) => Within(v, n)' /\ Facts(v)' = Facts(v)
<1>1. /\ DOMAIN nodes' = DOMAIN nodes \cup {Len(nodes) + 1}
      /\ \A m \in DOMAIN nodes : nodes'[m] = nodes[m]
  <2>1. Grown(nodes, e, nodes')
    BY AppendSeq
  <2> QED
    BY <2>1 DEF Grown
<1>2. ASSUME NEW v, NEW n, n <= Len(nodes), Within(v, n)
      PROVE  Within(v, n)' /\ Facts(v)' = Facts(v)
  <2>1. CASE \E i \in DOMAIN inputs : v = InputRef(i)
    BY <2>1 DEF Within, Facts, InputRef
  <2>2. CASE \E m \in 1 .. n : m \in DOMAIN nodes /\ \E k \in DOMAIN nodes[m].outputs : v = NodeRef(m, k)
    <3>1. PICK m \in 1 .. n : m \in DOMAIN nodes /\ \E k \in DOMAIN nodes[m].outputs : v = NodeRef(m, k)
      BY <2>2
    <3>2. PICK k \in DOMAIN nodes[m].outputs : v = NodeRef(m, k)
      BY <3>1
    <3>3. m \in DOMAIN nodes' /\ nodes'[m] = nodes[m]
      BY <1>1, <3>1
    <3>4. Within(v, n)'
      BY <3>1, <3>2, <3>3 DEF Within
    <3>5. Facts(v) = nodes[m].outputs[k] /\ Facts(v)' = nodes'[m].outputs[k]
      BY <3>2 DEF Facts, NodeRef
    <3> QED
      BY <3>3, <3>4, <3>5
  <2> QED
    BY <1>2, <2>1, <2>2 DEF Within
<1> QED
  BY <1>1, <1>2

\* The values a caller can name.
LEMMA AvailableWithin ==
    ASSUME GraphOK, NEW v \in Values
    PROVE  Within(v, Len(nodes))
<1>1. CASE \E i \in DOMAIN inputs : v = InputRef(i)
  BY <1>1 DEF Within
<1>2. CASE \E n \in DOMAIN nodes : \E k \in DOMAIN nodes[n].outputs : v = NodeRef(n, k)
  <2>1. DOMAIN nodes = 1 .. Len(nodes)
    BY SeqShape DEF GraphOK
  <2> QED
    BY <1>2, <2>1 DEF Within
<1> QED
  BY <1>1, <1>2 DEF Values

LEMMA AddInputKeeps ==
    ASSUME GraphOK, AddInput
    PROVE  GraphOK'
<1>1. PICK f \in InputFacts : FactsAccepted(f) /\ Grows(inputs, f, inputs')
  BY DEF AddInput, Grows
<1>2. nodes' = nodes /\ nodes = <<>>
  BY DEF AddInput
<1>3. /\ IsSeq(inputs') /\ DOMAIN inputs' = DOMAIN inputs \cup {Len(inputs) + 1}
      /\ inputs'[Len(inputs) + 1] = f /\ \A i \in DOMAIN inputs : inputs'[i] = inputs[i]
  <2>1. IsSeq(inputs)
    BY DEF GraphOK
  <2>2. Grown(inputs, f, inputs')
    BY <1>1, <2>1, AppendSeq
  <2> QED
    BY <2>2 DEF Grown
<1>4. \A i \in DOMAIN inputs' : inputs'[i] \in InputFacts /\ FactsAccepted(inputs'[i])
  BY <1>1, <1>3 DEF GraphOK
<1>5. DOMAIN nodes' = {}
  BY <1>2
<1>6. IsSeq(nodes)'
  BY <1>2 DEF GraphOK
<1> QED
  BY <1>3, <1>4, <1>5, <1>6 DEF GraphOK

LEMMA AddOperationKeeps ==
    ASSUME GraphOK, AddOperation
    PROVE  GraphOK'
<1>1. PICK op \in Operations, edges \in Edges :
          /\ \A k \in DOMAIN edges : Available(edges[k])
          /\ LET fs == [k \in DOMAIN edges |-> Facts(edges[k])]
             IN  /\ OperationAccepted(op, fs)
                 /\ \A k \in DOMAIN InferOutputs(op, fs) : FactsAccepted(InferOutputs(op, fs)[k])
                 /\ nodes' = Append(nodes,
                        [implementation |-> IF op.foreign THEN "foreign" ELSE BuiltinImplementation(op),
                         op |-> op, inputs |-> edges, outputs |-> InferOutputs(op, fs)])
  BY DEF AddOperation
<1> DEFINE fs == [k \in DOMAIN edges |-> Facts(edges[k])]
           outs == InferOutputs(op, fs)
           impl == IF op.foreign THEN "foreign" ELSE BuiltinImplementation(op)
           e == [implementation |-> impl, op |-> op, inputs |-> edges, outputs |-> outs]
<1>0. PICK N : N = Len(nodes) + 1
  OBVIOUS
<1>2. /\ OperationAccepted(op, fs)
      /\ \A k \in DOMAIN outs : FactsAccepted(outs[k])
      /\ Grows(nodes, e, nodes') /\ inputs' = inputs
  BY <1>1 DEF AddOperation, Grows
<1>3. IsSeq(outs)
  BY OutputsSeq
<1>4. e.op = op /\ e.inputs = edges /\ e.outputs = outs
  OBVIOUS
<1>5. Len(edges) \in 1 .. 2 /\ DOMAIN edges = 1 .. Len(edges) /\ \A k \in DOMAIN edges : edges[k] \in Values
  <2>1. CASE \E v \in Values : edges = <<v>>
    BY <2>1
  <2>2. CASE \E v \in Values, w \in Values : edges = <<v, w>>
    BY <2>2
  <2> QED
    BY <2>1, <2>2 DEF Edges
<1>6. Len(nodes) \in Nat /\ DOMAIN nodes = 1 .. Len(nodes) /\ IsSeq(nodes)
  BY SeqShape DEF GraphOK
<1>7. \A k \in DOMAIN edges : Within(edges[k], Len(nodes))
  BY <1>1, <1>5, AvailableWithin
<1> HIDE DEF fs, outs, impl, e
<1>8. /\ IsSeq(nodes') /\ DOMAIN nodes' = DOMAIN nodes \cup {N} /\ nodes'[N] = e
      /\ \A m \in DOMAIN nodes : nodes'[m] = nodes[m]
  <2>1. Grown(nodes, e, nodes')
    BY <1>2, <1>6, AppendSeq
  <2> QED
    BY <1>0, <2>1 DEF Grown
<1>9. \A v, n : n <= Len(nodes) /\ Within(v, n) => Within(v, n)' /\ Facts(v)' = Facts(v)
  BY <1>2, <1>6, FactsKept
<1>10. NodeOK(N)'
  <2>1. InputsFacts(N)' = fs
    <3>1. InputsFacts(N)' = [k \in DOMAIN edges |-> Facts(edges[k])']
      BY <1>4, <1>8 DEF InputsFacts
    <3>2. \A k \in DOMAIN edges : Facts(edges[k])' = Facts(edges[k])
      BY <1>6, <1>7, <1>9
    <3> QED
      BY <3>1, <3>2 DEF fs
  <2>2. \A k \in DOMAIN edges : Within(edges[k], N - 1)'
    <3>1. N - 1 = Len(nodes)
      BY <1>0, <1>6
    <3> QED
      BY <1>6, <1>7, <1>9, <3>1
  <2>3. nodes'[N].op = op /\ nodes'[N].inputs = edges /\ nodes'[N].outputs = outs
    BY <1>4, <1>8
  <2>4. outs = InferOutputs(op, fs)
    BY DEF outs
  <2> QED
    BY <1>2, <1>3, <1>5, <2>1, <2>2, <2>3, <2>4 DEF NodeOK
<1>11. ASSUME NEW n \in DOMAIN nodes PROVE NodeOK(n)'
  <2>1. NodeOK(n) /\ nodes'[n] = nodes[n] /\ n - 1 <= Len(nodes)
    BY <1>6, <1>8 DEF GraphOK
  <2>2. ASSUME NEW k \in DOMAIN nodes[n].inputs
        PROVE  /\ Within(nodes[n].inputs[k], n - 1)'
               /\ Facts(nodes[n].inputs[k])' = Facts(nodes[n].inputs[k])
    <3>1. Within(nodes[n].inputs[k], n - 1)
      BY <2>1 DEF NodeOK
    <3> DEFINE v == nodes[n].inputs[k]
    <3>2. Within(v, n - 1)' /\ Facts(v)' = Facts(v)
      <4>1. ASSUME NEW w, w = v PROVE Within(w, n - 1)' /\ Facts(w)' = Facts(w)
        BY <1>9, <2>1, <3>1, <4>1
      <4> QED
        BY <2>1, <4>1
    <3> QED
      BY <2>1, <3>2
  <2>3. InputsFacts(n)' = InputsFacts(n)
    BY <2>1, <2>2 DEF InputsFacts
  <2> QED
    BY <2>1, <2>2, <2>3 DEF NodeOK
<1>12. \A i \in DOMAIN inputs' : inputs'[i] \in InputFacts /\ FactsAccepted(inputs'[i])
  BY <1>2 DEF GraphOK
<1>13. IsSeq(inputs)'
  BY <1>2 DEF GraphOK
<1> QED
  BY <1>8, <1>10, <1>11, <1>12, <1>13 DEF GraphOK

-----------------------------------------------------------------------------
(* The beginning of an execution *)

InputRefs == {InputRef(i) : i \in DOMAIN inputs}

LEMMA UsesCounted ==
    ASSUME GraphOK, NEW v, NEW out
    PROVE  IsFiniteSet(UsePlaces(v)) /\ Uses(v, out) \in Nat
<1>1. DOMAIN nodes = 1 .. Len(nodes) /\ Len(nodes) \in Nat
  BY SeqShape DEF GraphOK
<1>2. IsFiniteSet(DOMAIN nodes) /\ IsFiniteSet(1 .. 2)
  <2>1. ASSUME NEW m \in Nat PROVE IsFiniteSet(1 .. m)
    BY FS_Interval
  <2> QED
    BY <1>1, <2>1
<1>3. IsFiniteSet((DOMAIN nodes) \X (1 .. 2))
  BY <1>2, FS_Product
<1>4. UsePlaces(v) \subseteq (DOMAIN nodes) \X (1 .. 2)
  BY DEF UsePlaces
<1>5. IsFiniteSet(UsePlaces(v))
  BY <1>3, <1>4, FS_Subset
<1>6. Cardinality(UsePlaces(v)) \in Nat
  BY <1>5, FS_CardinalityType
<1> QED
  BY <1>5, <1>6 DEF Uses

LEMMA NewExact ==
    ASSUME GraphOK, NEW out, NEW s, s = NewSchedule(out)
    PROVE  /\ Exact(s) /\ s.err = "none"
           /\ s.values = [v \in InputRefs |-> 0]
           /\ s.allocs = <<>> /\ s.live = 0 /\ s.peak = 0
           /\ s.uses = [v \in {w \in Values : Uses(w, out) > 0} |-> Uses(v, out)]
<1> DEFINE U == [v \in {w \in Values : Uses(w, out) > 0} |-> Uses(v, out)]
           V == [v \in InputRefs |-> 0]
<1>1. s = [uses |-> U, values |-> V, allocs |-> <<>>, next |-> 1, live |-> 0, peak |-> 0, err |-> "none"]
  BY DEF NewSchedule, InputRefs
<1>2. U \in [DOMAIN U -> Nat]
  BY UsesCounted
<1>3. IsFiniteSet(InputRefs)
  <2>1. DOMAIN inputs = 1 .. Len(inputs) /\ Len(inputs) \in Nat
    BY SeqShape DEF GraphOK
  <2>2. IsFiniteSet(DOMAIN inputs)
    BY <2>1, FS_Interval
  <2> DEFINE g == [i \in DOMAIN inputs |-> InputRef(i)]
  <2>3. g \in Surjection(DOMAIN inputs, InputRefs)
    BY DEF Surjection, InputRefs
  <2> QED
    BY <2>2, <2>3, FS_Surjection
<1>4. DOMAIN V = InputRefs /\ V \in [DOMAIN V -> 0 .. 0]
  OBVIOUS
<1> HIDE DEF U, V
<1>5. /\ IsSched(s) /\ s.uses = U /\ s.values = V /\ s.allocs = <<>> /\ s.next = 1
      /\ s.live = 0 /\ s.peak = 0 /\ s.err = "none"
  BY <1>1 DEF IsSched, SchedFields
<1>6. Len(s.allocs) = 0 /\ s.allocs \in Seq(Alloc) /\ DOMAIN s.allocs = {}
  BY <1>5
<1>7. SchedType(s)
  BY <1>2, <1>3, <1>4, <1>5, <1>6 DEF SchedType, Alloc
<1>8. LiveBytes(s) = {} /\ Cardinality(LiveBytes(s)) = 0
  BY <1>6, FS_EmptySet DEF LiveBytes
<1> QED
  BY <1>5, <1>6, <1>7, <1>8 DEF Exact, U, V

-----------------------------------------------------------------------------
(* What a node's kernel or provider comes back with *)

\* The views of a node's inputs.
InputViews(n) == [k \in DOMAIN nodes[n].inputs |-> runtime[nodes[n].inputs[k]]]

\* A completed node has a vector of outputs, each new or the memory of its
\* one input, and used no more scratch than the estimate counts.
LEMMA OutcomeShape ==
    ASSUME GraphOK, NEW n \in DOMAIN nodes, NEW outcome \in NodeOutcomes(n), outcome.kind = "ok"
    PROVE  /\ Range(nodes[n].inputs) \subseteq DOMAIN runtime
           /\ IsSeq(outcome.outs)
           /\ outcome.transient \in 0 .. StaticTransient(nodes[n])
           /\ StaticTransient(nodes[n]) \in Nat
<1> DEFINE node == nodes[n]
           op == nodes[n].op
           fs == InputsFacts(n)
           views == InputViews(n)
<1>1. NodeOK(n) /\ op \in Operations
  BY DEF GraphOK, NodeOK
<1>2. op.kind \in {"concat", "permute", "pad", "slice", "split", "reshape", "prepare"}
  BY <1>1, OperationsAssumption
<1>3. Range(nodes[n].inputs) \subseteq DOMAIN runtime
  <2>1. SUFFICES ASSUME ~(Range(nodes[n].inputs) \subseteq DOMAIN runtime) PROVE FALSE
    OBVIOUS
  <2>2. NodeOutcomes(n) = {[kind |-> "integrity"]}
    BY <2>1 DEF NodeOutcomes
  <2>3. outcome.kind = "integrity"
    BY <2>2
  <2> QED
    BY <2>3
<1>4. /\ op.kind = "concat" => outcome = ConcatOutcome(n, node, fs, views)
      /\ op.kind = "permute" => outcome = PermuteOutcome(n, node, fs, views)
      /\ op.kind = "pad" => outcome = PadOutcome(n, node, fs, views)
      /\ op.kind = "slice" => outcome = SliceOutcome(n, node, fs, views)
      /\ op.kind = "split" => outcome = SplitOutcome(n, node, fs, views)
      /\ op.kind = "reshape" => outcome = ReshapeOutcome(views)
      /\ op.kind = "prepare" => outcome \in PrepareNodeOutcomes(n, node, fs, views)
  BY <1>2, <1>3 DEF NodeOutcomes, InputsFacts, InputViews
<1> HIDE DEF fs, views
<1>5. StaticTransient(node) \in Nat
  BY <1>1, OperationsAssumption DEF StaticTransient
<1>6. CASE op.kind # "prepare"
  <2>1. CASE op.kind = "split"
    <3> DEFINE q == outcome.outs
               D == nodes[n].outputs
    <3>1. outcome.transient = 0 /\ q = [k \in DOMAIN D |-> q[k]]
      BY <1>4, <2>1 DEF SplitOutcome, NodeDone
    <3>2. DOMAIN D = 1 .. Len(D) /\ Len(D) \in Nat
      BY <1>1, SeqShape DEF NodeOK
    <3> HIDE DEF q, D
    <3>3. q \in [1 .. Len(D) -> Range(q)]
      BY <3>1, <3>2 DEF Range
    <3>4. IsSeq(q)
      BY <3>2, <3>3, FunctionSeq
    <3> QED
      BY <1>3, <1>5, <3>1, <3>4 DEF q
  <2>2. CASE op.kind # "split"
    <3>1. outcome.transient = 0 /\ \E e : outcome.outs = <<e>>
      BY <1>2, <1>4, <1>6, <2>2
         DEF ConcatOutcome, PermuteOutcome, PadOutcome, SliceOutcome, ReshapeOutcome, NodeDone
    <3> QED
      BY <1>3, <1>5, <3>1, TupleSeq
  <2> QED
    BY <2>1, <2>2
<1>7. CASE op.kind = "prepare"
  <2>1. PICK x : outcome = PreparedOutcome(n, op, views[1], x)
    BY <1>4, <1>7 DEF PrepareNodeOutcomes
  <2>2. op.scratchBytes \in Nat /\ StaticTransient(node) = op.scratchBytes
    BY <1>1, <1>7, OperationsAssumption DEF StaticTransient
  <2>3. outcome.transient \in {0, op.scratchBytes} /\ \E e : outcome.outs = <<e>>
    <3>1. x.kind = "ok"
      <4>1. SUFFICES ASSUME x.kind # "ok" PROVE FALSE
        OBVIOUS
      <4>2. outcome = [kind |-> x.kind]
        BY <2>1, <4>1 DEF PreparedOutcome
      <4> QED
        BY <4>1, <4>2
    <3> QED
      BY <2>1, <3>1 DEF PreparedOutcome, NodeDone
  <2> QED
    BY <1>3, <1>5, <2>2, <2>3, TupleSeq
<1> QED
  BY <1>6, <1>7

-----------------------------------------------------------------------------
(* The execution *)

Phases == {"building", "built", "running", "done"}

\* While the nodes run, the schedule is exact and the views are its values'.
Accounted ==
    phase = "running" =>
        /\ next \in 1 .. Len(nodes) + 1
        /\ Exact(sched) /\ sched.err = "none"
        /\ DOMAIN runtime = DOMAIN sched.values

Inv == phase \in Phases /\ GraphOK /\ Accounted

\* What a node that runs on leaves behind.
NodeRan(outcome) ==
    /\ outcome \in NodeOutcomes(next)
    /\ outcome.kind = "ok"
    /\ OutputLengthsHold(nodes[next], outcome.outs)
    /\ LET s == ScheduleNode(sched, next, [k \in DOMAIN outcome.outs |-> outcome.outs[k].origin],
                             outcome.transient)
           made == {NodeRef(next, k) : k \in DOMAIN outcome.outs}
       IN  /\ s.err = "none"
           /\ sched' = s
           /\ runtime' = StillLive([v \in DOMAIN runtime \cup made |->
                             IF v \in made THEN outcome.outs[v[3]].view ELSE runtime[v]], s)
    /\ next' = next + 1
    /\ UNCHANGED <<phase, inputs, nodes, output, estimate, result>>

LEMMA ExecuteCases ==
    ASSUME Inv, ExecuteNode
    PROVE  /\ UNCHANGED <<inputs, nodes, output, estimate>>
           /\ phase = "running" /\ next \in DOMAIN nodes
           /\ \/ phase' = "done" /\ result'.kind # "ok"
              \/ \E outcome : NodeRan(outcome)
<1>1. PICK outcome \in NodeOutcomes(next) :
          IF outcome.kind # "ok"
          THEN Return([kind |-> outcome.kind])
          ELSE IF ~OutputLengthsHold(nodes[next], outcome.outs)
          THEN Return([kind |-> "integrity"])
          ELSE LET s == ScheduleNode(sched, next, [k \in DOMAIN outcome.outs |-> outcome.outs[k].origin],
                                     outcome.transient)
                   made == {NodeRef(next, k) : k \in DOMAIN outcome.outs}
               IN  IF s.err # "none"
                   THEN Return([kind |-> s.err])
                   ELSE /\ sched' = s
                        /\ runtime' = StillLive([v \in DOMAIN runtime \cup made |->
                                          IF v \in made THEN outcome.outs[v[3]].view ELSE runtime[v]], s)
                        /\ next' = next + 1
                        /\ UNCHANGED <<phase, result>>
  BY DEF ExecuteNode
<1>2. ASSUME NEW kind, kind # "ok", Return([kind |-> kind])
      PROVE  phase' = "done" /\ result'.kind # "ok"
  BY <1>2 DEF Return
<1>3. CASE outcome.kind # "ok"
  BY <1>1, <1>2, <1>3 DEF ExecuteNode
<1>4. CASE outcome.kind = "ok" /\ ~OutputLengthsHold(nodes[next], outcome.outs)
  BY <1>1, <1>2, <1>4 DEF ExecuteNode
<1>5. CASE outcome.kind = "ok" /\ OutputLengthsHold(nodes[next], outcome.outs)
  <2> DEFINE s == ScheduleNode(sched, next, [k \in DOMAIN outcome.outs |-> outcome.outs[k].origin],
                               outcome.transient)
  <2>1. CASE s.err # "none"
    <3>1. Return([kind |-> s.err])
      BY <1>1, <1>5, <2>1
    <3>2. phase = "running" /\ next \in DOMAIN nodes
      BY DEF ExecuteNode
    <3>3. SizesFit(next) /\ Exact(sched) /\ sched.err = "none"
      BY <3>2, NodeSizes DEF Inv, Accounted
    <3>4. outcome.transient \in Nat
      BY <1>5, <3>2, OutcomeShape DEF Inv
    <3>5. s.err \in {"none", "limit", "integrity"}
      BY <3>3, <3>4, NodeErrs
    <3> HIDE DEF s
    <3> QED
      BY <1>2, <3>1, <3>5 DEF ExecuteNode
  <2>2. CASE s.err = "none"
    <3>1. NodeRan(outcome)
      BY <1>1, <1>5, <2>2 DEF NodeRan, ExecuteNode
    <3> QED
      BY <3>1 DEF ExecuteNode
  <2> QED
    BY <2>1, <2>2
<1> QED
  BY <1>3, <1>4, <1>5

\* The outputs of a node that ran are the ones the graph has for it.
LEMMA RanOutputs ==
    ASSUME Inv, phase = "running", next \in DOMAIN nodes, NEW outcome, NodeRan(outcome)
    PROVE  /\ SizesFit(next)
           /\ outcome.transient \in 0 .. StaticTransient(nodes[next])
           /\ StaticTransient(nodes[next]) \in Nat
           /\ DOMAIN outcome.outs = DOMAIN nodes[next].outputs
           /\ {NodeRef(next, k) : k \in DOMAIN outcome.outs} = Made(next)
           /\ Range(nodes[next].inputs) \subseteq DOMAIN runtime
<1>1. GraphOK /\ outcome \in NodeOutcomes(next) /\ outcome.kind = "ok"
      /\ OutputLengthsHold(nodes[next], outcome.outs)
  BY DEF Inv, NodeRan
<1>2. /\ IsSeq(outcome.outs) /\ outcome.transient \in 0 .. StaticTransient(nodes[next])
      /\ StaticTransient(nodes[next]) \in Nat /\ Range(nodes[next].inputs) \subseteq DOMAIN runtime
  BY <1>1, OutcomeShape
<1>3. SizesFit(next)
  BY <1>1, NodeSizes
<1>4. DOMAIN outcome.outs = 1 .. Len(outcome.outs)
  BY <1>2, SeqShape
<1>5. DOMAIN outcome.outs = DOMAIN nodes[next].outputs
  BY <1>1, <1>3, <1>4 DEF OutputLengthsHold, SizesFit
<1> QED
  BY <1>2, <1>3, <1>5 DEF Made

LEMMA RanAccounted ==
    ASSUME Inv, phase = "running", next \in DOMAIN nodes, NEW outcome, NodeRan(outcome)
    PROVE  Accounted'
<1>1. Len(nodes) \in Nat /\ DOMAIN nodes = 1 .. Len(nodes) /\ nodes' = nodes /\ next' = next + 1
  BY SeqShape DEF Inv, GraphOK, NodeRan
<1>2. /\ SizesFit(next) /\ outcome.transient \in Nat
      /\ {NodeRef(next, k) : k \in DOMAIN outcome.outs} = Made(next)
  BY RanOutputs
<1> DEFINE origins == [k \in DOMAIN outcome.outs |-> outcome.outs[k].origin]
           s == ScheduleNode(sched, next, origins, outcome.transient)
           made == Made(next)
           views == [v \in DOMAIN runtime \cup made |->
                        IF v \in made THEN outcome.outs[v[3]].view ELSE runtime[v]]
<1>3. s.err = "none" /\ sched' = s /\ runtime' = StillLive(views, s)
  BY <1>2 DEF NodeRan
<1>4. Exact(sched) /\ sched.err = "none" /\ DOMAIN runtime = DOMAIN sched.values
  BY DEF Inv, Accounted
<1> HIDE DEF origins
<1>5. Exact(s) /\ DOMAIN s.values \subseteq DOMAIN sched.values \cup made
  BY <1>2, <1>3, <1>4, NodeExact
<1>6. DOMAIN views = DOMAIN sched.values \cup made
  BY <1>4
<1> HIDE DEF s, views, made
<1>7. DOMAIN runtime' = DOMAIN s.values
  BY <1>3, <1>5, <1>6 DEF StillLive, Restrict
<1> QED
  BY <1>1, <1>3, <1>5, <1>7 DEF Accounted

LEMMA InitInv ==
    ASSUME Init
    PROVE  Inv
<1>1. IsSeq(<<>>) /\ DOMAIN <<>> = {}
  BY DEF IsSeq
<1> QED
  BY <1>1 DEF Init, Inv, GraphOK, Accounted, Phases

LEMMA GraphUnchanged ==
    ASSUME GraphOK, UNCHANGED <<inputs, nodes>>
    PROVE  GraphOK'
<1>1. ASSUME NEW n \in DOMAIN nodes PROVE NodeOK(n)'
  <2>1. NodeOK(n)
    BY DEF GraphOK
  <2> QED
    BY <2>1 DEF NodeOK, InputsFacts, Within, Facts
<1> QED
  BY <1>1 DEF GraphOK

LEMMA NextInv ==
    ASSUME Inv, [Next]_vars
    PROVE  Inv'
<1> USE DEF Phases
<1>1. CASE AddInput
  <2>1. GraphOK' /\ phase' = "building"
    BY <1>1, AddInputKeeps DEF Inv, AddInput
  <2> QED
    BY <2>1 DEF Inv, Accounted
<1>2. CASE AddOperation
  <2>1. GraphOK' /\ phase' = "building"
    BY <1>2, AddOperationKeeps DEF Inv, AddOperation
  <2> QED
    BY <2>1 DEF Inv, Accounted
<1>3. CASE Build
  <2>1. GraphOK' /\ phase' = "built"
    BY <1>3, GraphUnchanged DEF Inv, Build
  <2> QED
    BY <2>1 DEF Inv, Accounted
<1>4. CASE Start
  <2>1. GraphOK' /\ UNCHANGED <<inputs, nodes, output>>
    BY <1>4, GraphUnchanged DEF Inv, Start
  <2>2. CASE phase' = "done"
    BY <2>1, <2>2 DEF Inv, Accounted
  <2>3. CASE phase' # "done"
    <3>1. /\ phase' = "running" /\ sched' = NewSchedule(output) /\ next' = 1
          /\ DOMAIN runtime' = InputRefs
      BY <1>4, <2>3 DEF Start, Return, InputRefs
    <3>2. Exact(sched') /\ sched'.err = "none" /\ sched'.values = [v \in InputRefs |-> 0]
      BY <3>1, NewExact DEF Inv
    <3>3. Len(nodes) \in Nat
      BY SeqShape DEF Inv, GraphOK
    <3> QED
      BY <2>1, <3>1, <3>2, <3>3 DEF Inv, Accounted
  <2> QED
    BY <2>2, <2>3
<1>5. CASE RejectNode
  BY <1>5, GraphUnchanged DEF Inv, RejectNode, Return, Accounted
<1>6. CASE ExecuteNode
  <2>1. GraphOK' /\ phase = "running" /\ next \in DOMAIN nodes
    BY <1>6, ExecuteCases, GraphUnchanged DEF Inv
  <2>2. CASE phase' = "done"
    BY <2>1, <2>2 DEF Inv, Accounted
  <2>3. CASE phase' # "done"
    <3>1. PICK outcome : NodeRan(outcome)
      BY <1>6, <2>3, ExecuteCases
    <3>2. Accounted' /\ phase' = phase
      BY <2>1, <3>1, RanAccounted DEF NodeRan
    <3> QED
      BY <2>1, <3>2 DEF Inv
  <2> QED
    BY <2>2, <2>3
<1>7. CASE Finish
  BY <1>7, GraphUnchanged DEF Inv, Finish, Return, Accounted
<1>8. CASE SeeCancellation
  BY <1>8, GraphUnchanged DEF Inv, SeeCancellation, Return, Accounted
<1>9. CASE UNCHANGED vars
  <2>1. GraphOK'
    BY <1>9, GraphUnchanged DEF Inv, vars
  <2>2. UNCHANGED <<phase, next, nodes, sched, runtime>>
    BY <1>9 DEF vars
  <2> QED
    BY <2>1, <2>2 DEF Inv, Accounted
<1> QED
  BY <1>1, <1>2, <1>3, <1>4, <1>5, <1>6, <1>7, <1>8, <1>9 DEF Next

\* The live bytes of an execution are those of the allocations that live
\* values share, each counted once, every reference count is the number of
\* values that share the allocation, the peak is never behind, and the views
\* that are kept are those of the live values: for every graph, every
\* provider and every number of nodes.
THEOREM AccountingStaysExact == Spec => []AccountingExact
<1>1. Inv => AccountingExact
  BY DEF Inv, Accounted, Exact, AccountingExact
<1> QED
  BY <1>1, InitInv, NextInv, PTL DEF Spec

-----------------------------------------------------------------------------
(* Following static aliases *)

\* One step of output_input_alias.
StepBack(v) ==
    IF v = None \/ v[1] = "in" THEN v
    ELSE IF StaticAlias(nodes[v[2]], v[3]) THEN nodes[v[2]].inputs[1] ELSE None

\* d steps from v, and an input that is reached from v.
Chain(f, d, v) == f[0] = v /\ \A c \in 1 .. d : f[c] = StepBack(f[c - 1])
Leads(v, w) == w[1] = "in" /\ \E d \in Nat : \E f : Chain(f, d, v) /\ f[d] = w

\* Where a chain stands still, it stays.
LEMMA ChainStays ==
    ASSUME NEW f, NEW d \in Nat, NEW v, Chain(f, d, v), NEW c \in 0 .. d, StepBack(f[c]) = f[c]
    PROVE  f[d] = f[c]
<1> DEFINE T == {b \in Nat : b \in c .. d /\ f[b] # f[c]}
<1>1. SUFFICES ASSUME T # {} PROVE FALSE
  OBVIOUS
<1>2. PICK b \in T : \A a \in T : b <= a
  BY <1>1, LeastNumber
<1>3. b # c /\ b \in 1 .. d /\ b - 1 \in c .. d /\ b - 1 \in Nat /\ b - 1 \notin T
  BY <1>2
<1>4. f[b - 1] = f[c]
  BY <1>3
<1>5. f[b] = StepBack(f[b - 1])
  BY <1>3 DEF Chain
<1> QED
  BY <1>2, <1>4, <1>5

LEMMA InputLeads ==
    ASSUME NEW i, NEW w, Leads(InputRef(i), w)
    PROVE  w = InputRef(i)
<1>1. PICK d \in Nat : \E f : Chain(f, d, InputRef(i)) /\ f[d] = w
  BY DEF Leads
<1>2. PICK f : Chain(f, d, InputRef(i)) /\ f[d] = w
  BY <1>1
<1>3. f[0] = InputRef(i) /\ StepBack(f[0]) = f[0] /\ 0 \in 0 .. d
  BY <1>2 DEF Chain, StepBack, InputRef
<1> QED
  BY <1>2, <1>3, ChainStays

LEMMA NodeLeads ==
    ASSUME NEW n, NEW k, NEW w, Leads(NodeRef(n, k), w)
    PROVE  StaticAlias(nodes[n], k) /\ Leads(nodes[n].inputs[1], w)
<1> DEFINE v == NodeRef(n, k)
<1>1. PICK d \in Nat : \E f : Chain(f, d, v) /\ f[d] = w
  BY DEF Leads
<1>2. PICK f : Chain(f, d, v) /\ f[d] = w
  BY <1>1
<1>3. w[1] = "in"
  BY DEF Leads
<1>4. f[0] = v /\ v[1] = "node" /\ v[2] = n /\ v[3] = k
  BY <1>2 DEF Chain, NodeRef
<1>5. d # 0
  BY <1>2, <1>3, <1>4
<1>6. d - 1 \in Nat /\ 1 \in 0 .. d /\ 1 \in 1 .. d
  BY <1>5
<1>7. f[1] = StepBack(v)
  BY <1>2, <1>4, <1>6 DEF Chain
<1>8. v # None
  BY <1>4 DEF None
<1> HIDE DEF v
<1>9. StaticAlias(nodes[n], k)
  <2>1. SUFFICES ASSUME ~StaticAlias(nodes[n], k) PROVE FALSE
    OBVIOUS
  <2>2. f[1] = None
    BY <1>4, <1>7, <1>8, <2>1 DEF StepBack
  <2>3. StepBack(f[1]) = f[1]
    BY <2>2 DEF StepBack
  <2>4. w = None
    BY <1>2, <1>6, <2>2, <2>3, ChainStays
  <2> QED
    BY <1>3, <2>4 DEF None
<1>10. f[1] = nodes[n].inputs[1]
  BY <1>4, <1>7, <1>8, <1>9 DEF StepBack
<1> DEFINE g == [c \in 0 .. d - 1 |-> f[c + 1]]
<1>11. Chain(g, d - 1, nodes[n].inputs[1])
  <2>1. g[0] = nodes[n].inputs[1]
    BY <1>6, <1>10
  <2>2. ASSUME NEW c \in 1 .. d - 1 PROVE g[c] = StepBack(g[c - 1])
    <3>1. g[c] = f[c + 1] /\ g[c - 1] = f[c] /\ c + 1 \in 1 .. d /\ (c + 1) - 1 = c
      BY <1>6
    <3>2. f[c + 1] = StepBack(f[(c + 1) - 1])
      BY <1>2, <3>1 DEF Chain
    <3> QED
      BY <3>1, <3>2
  <2> HIDE DEF g
  <2> QED
    BY <2>1, <2>2 DEF Chain
<1>12. g[d - 1] = w
  BY <1>2, <1>6
<1> QED
  BY <1>3, <1>6, <1>9, <1>11, <1>12 DEF Leads

\* The steps that output_input_alias takes.
IsBack(f, m, v) == f = [d \in 0 .. m |-> StepBack(IF d = 0 THEN v ELSE f[d - 1])]

LEMMA BackExists ==
    ASSUME NEW v, NEW m \in Nat
    PROVE  \E f : IsBack(f, m, v)
<1> DEFINE T == {l \in Nat : ~\E f : IsBack(f, l, v)}
<1>1. SUFFICES ASSUME T # {} PROVE FALSE
  OBVIOUS
<1>2. PICK l \in T : \A j \in T : l <= j
  BY <1>1, LeastNumber
<1>3. CASE l = 0
  <2> DEFINE f == [c \in 0 .. 0 |-> StepBack(v)]
  <2>1. IsBack(f, 0, v)
    BY DEF IsBack
  <2> QED
    BY <1>2, <1>3, <2>1
<1>4. CASE l # 0
  <2>1. l \in Nat /\ l - 1 \in Nat /\ l - 1 \notin T
    BY <1>2, <1>4
  <2>2. PICK f : IsBack(f, l - 1, v)
    BY <2>1
  <2> DEFINE g == [c \in 0 .. l |-> IF c = l THEN StepBack(f[l - 1]) ELSE f[c]]
  <2>3. ASSUME NEW c \in 0 .. l PROVE g[c] = StepBack(IF c = 0 THEN v ELSE g[c - 1])
    <3>1. CASE c = l
      <4>1. g[c - 1] = f[l - 1]
        BY <1>4, <2>1, <3>1
      <4> QED
        BY <1>4, <3>1, <4>1
    <3>2. CASE c # l
      <4>1. c \in 0 .. l - 1 /\ g[c] = f[c]
        BY <2>1, <3>2
      <4>2. c # 0 => c - 1 \in 0 .. l /\ c - 1 # l /\ g[c - 1] = f[c - 1]
        BY <2>1, <4>1
      <4>3. f[c] = StepBack(IF c = 0 THEN v ELSE f[c - 1])
        BY <2>2, <4>1 DEF IsBack
      <4> HIDE DEF g
      <4>4. CASE c = 0
        BY <4>1, <4>3, <4>4
      <4>5. CASE c # 0
        BY <4>1, <4>2, <4>3, <4>5
      <4> QED
        BY <4>4, <4>5
    <3> QED
      BY <3>1, <3>2
  <2>4. IsBack(g, l, v)
    BY <2>3 DEF IsBack
  <2> QED
    BY <1>2, <2>4
<1> QED
  BY <1>3, <1>4

\* The result of output_input_alias is an input the chain leads to.
LEMMA AliasLeads ==
    ASSUME GraphOK, NEW v, Within(v, Len(nodes)), OutputInputAlias(v) # None
    PROVE  Leads(v, OutputInputAlias(v))
<1> DEFINE m == Len(nodes)
<1>1. m \in Nat /\ DOMAIN nodes = 1 .. m
  BY SeqShape DEF GraphOK
<1>2. PICK b : b = (CHOOSE f : IsBack(f, m, v)) /\ IsBack(b, m, v)
  BY <1>1, BackExists
<1>3. OutputInputAlias(v) = b[m]
  BY <1>2 DEF OutputInputAlias, IsBack, StepBack
<1> DEFINE f == [c \in 0 .. m + 1 |-> IF c = 0 THEN v ELSE b[c - 1]]
<1> HIDE DEF m
<1>4. Chain(f, m + 1, v)
  <2>1. f[0] = v
    BY <1>1
  <2>2. ASSUME NEW c \in 1 .. m + 1 PROVE f[c] = StepBack(f[c - 1])
    <3>1. c - 1 \in 0 .. m /\ f[c] = b[c - 1]
      BY <1>1
    <3>2. b[c - 1] = StepBack(IF c - 1 = 0 THEN v ELSE b[(c - 1) - 1])
      BY <1>2, <3>1 DEF IsBack
    <3>3. f[c - 1] = IF c - 1 = 0 THEN v ELSE b[(c - 1) - 1]
      BY <1>1
    <3> QED
      BY <3>1, <3>2, <3>3
  <2> HIDE DEF f
  <2> QED
    BY <2>1, <2>2 DEF Chain
<1>5. f[m + 1] = b[m] /\ m + 1 \in Nat
  BY <1>1
<1> HIDE DEF f
<1> DEFINE Lower(c) == \/ f[c] = None \/ f[c][1] = "in"
                       \/ m - c \in Nat /\ f[c][1] = "node" /\ Within(f[c], m - c)
           T == {c \in Nat : c <= m + 1 /\ ~Lower(c)}
<1>6. ASSUME NEW c \in 1 .. m + 1, Lower(c - 1) PROVE Lower(c)
  <2>1. f[c] = StepBack(f[c - 1])
    BY <1>4 DEF Chain
  <2>2. CASE f[c - 1] = None \/ f[c - 1][1] = "in"
    BY <2>1, <2>2 DEF StepBack
  <2>3. CASE ~(f[c - 1] = None \/ f[c - 1][1] = "in")
    <3>1. m - (c - 1) \in Nat /\ Within(f[c - 1], m - (c - 1)) /\ f[c - 1][1] = "node"
      BY <1>6, <2>3
    <3>2. PICK n \in 1 .. m - (c - 1) : n \in DOMAIN nodes /\ \E k \in DOMAIN nodes[n].outputs : f[c - 1] = NodeRef(n, k)
      BY <3>1 DEF Within, InputRef
    <3>3. f[c - 1][2] = n
      BY <3>2 DEF NodeRef
    <3>4. NodeOK(n) /\ 1 \in DOMAIN nodes[n].inputs
      BY <3>2 DEF GraphOK, NodeOK
    <3>5. Within(nodes[n].inputs[1], n - 1)
      BY <3>4 DEF NodeOK
    <3>6. f[c] = None \/ f[c] = nodes[n].inputs[1]
      BY <2>1, <2>3, <3>3 DEF StepBack
    <3>7. m - c \in Nat /\ n - 1 <= m - c /\ n - 1 \in Nat
      BY <1>1, <3>1, <3>2
    <3>8. Within(nodes[n].inputs[1], m - c)
      <4>1. CASE \E i \in DOMAIN inputs : nodes[n].inputs[1] = InputRef(i)
        BY <4>1 DEF Within
      <4>2. CASE ~\E i \in DOMAIN inputs : nodes[n].inputs[1] = InputRef(i)
        <5>1. PICK j \in 1 .. n - 1 : j \in DOMAIN nodes /\ \E k \in DOMAIN nodes[j].outputs : nodes[n].inputs[1] = NodeRef(j, k)
          BY <3>5, <4>2 DEF Within
        <5>2. j \in 1 .. m - c
          BY <3>7, <5>1
        <5> QED
          BY <5>1, <5>2 DEF Within
      <4> QED
        BY <4>1, <4>2
    <3>9. nodes[n].inputs[1][1] \in {"in", "node"}
      BY <3>5 DEF Within, InputRef, NodeRef
    <3> QED
      BY <3>6, <3>7, <3>8, <3>9
  <2> QED
    BY <2>2, <2>3
<1>7. Lower(0)
  <2>1. f[0] = v /\ m - 0 = m /\ m \in Nat
    BY <1>1, <1>4 DEF Chain
  <2>2. v[1] \in {"in", "node"}
    BY DEF Within, InputRef, NodeRef
  <2> QED
    BY <2>1, <2>2 DEF m
<1> HIDE DEF Lower
<1>8. T = {}
  <2>1. SUFFICES ASSUME T # {} PROVE FALSE
    OBVIOUS
  <2>2. PICK c \in T : \A d \in T : c <= d
    BY <2>1, LeastNumber
  <2>3. c # 0 /\ c \in 1 .. m + 1 /\ c - 1 \in Nat /\ c - 1 \notin T
    BY <1>1, <1>7, <2>2
  <2>4. Lower(c - 1)
    BY <1>1, <2>3
  <2> QED
    BY <1>6, <2>2, <2>3, <2>4
<1>9. Lower(m + 1)
  BY <1>5, <1>8
<1>10. f[m + 1][1] = "in"
  BY <1>1, <1>3, <1>5, <1>9 DEF Lower
<1> QED
  BY <1>3, <1>4, <1>5, <1>10 DEF Leads

\* The selected output is a value of the graph.
OutputSelected == phase # "building" => Within(output, Len(nodes))

\* A live value from which static aliases lead to an input is its memory.
AliasesKept ==
    /\ phase = "running" => \A v \in DOMAIN runtime : \A w : Leads(v, w) => runtime[v].owner = w
    /\ phase = "done" /\ result.kind = "ok" => \A w : Leads(output, w) => result.view.owner = w

AliasInv == Inv /\ OutputSelected /\ AliasesKept

LEMMA LeadsKept ==
    ASSUME UNCHANGED <<inputs, nodes>>, NEW v, NEW w
    PROVE  (Leads(v, w) <=> Leads(v, w)') /\ \A n : Within(v, n) <=> Within(v, n)'
<1>1. \A u : StepBack(u)' = StepBack(u)
  BY DEF StepBack, StaticAlias, Facts
<1>2. \A f, d : Chain(f, d, v)' <=> Chain(f, d, v)
  BY <1>1 DEF Chain
<1>3. \A n : Within(v, n) <=> Within(v, n)'
  BY DEF Within
<1> QED
  BY <1>2, <1>3 DEF Leads

\* A node whose output is a static alias returns the view of its input.
LEMMA AliasReturned ==
    ASSUME GraphOK, NEW n \in DOMAIN nodes, NEW outcome \in NodeOutcomes(n), outcome.kind = "ok",
           StaticAlias(nodes[n], 1)
    PROVE  outcome.outs = <<Alias(runtime[nodes[n].inputs[1]])>>
<1> DEFINE node == nodes[n]
           op == nodes[n].op
           fs == InputsFacts(n)
           views == InputViews(n)
<1>1. Range(nodes[n].inputs) \subseteq DOMAIN runtime
  BY OutcomeShape
<1>2. NodeOK(n) /\ 1 \in DOMAIN nodes[n].inputs
  BY DEF GraphOK, NodeOK
<1>3. fs[1] = Facts(nodes[n].inputs[1]) /\ views[1] = runtime[nodes[n].inputs[1]]
  BY <1>2 DEF InputsFacts, InputViews
<1>4. /\ op.kind = "permute" => outcome = PermuteOutcome(n, node, fs, views)
      /\ op.kind = "reshape" => outcome = ReshapeOutcome(views)
  BY <1>1 DEF NodeOutcomes, InputsFacts, InputViews
<1> HIDE DEF fs, views
<1>5. CASE op.kind = "reshape"
  BY <1>3, <1>4, <1>5 DEF ReshapeOutcome, NodeDone
<1>6. CASE op.kind = "permute" /\ IsIdentityOrder(op.order) /\ fs[1] = node.outputs[1]
  BY <1>3, <1>4, <1>6 DEF PermuteOutcome, NodeDone
<1> QED
  BY <1>3, <1>5, <1>6 DEF StaticAlias

LEMMA RanAliases ==
    ASSUME AliasInv, phase = "running", next \in DOMAIN nodes, NEW outcome, NodeRan(outcome)
    PROVE  AliasesKept'
<1>0. Inv
  BY DEF AliasInv
<1>1. UNCHANGED <<phase, inputs, nodes, result>>
  BY DEF NodeRan
<1>2. /\ DOMAIN outcome.outs = DOMAIN nodes[next].outputs
      /\ {NodeRef(next, k) : k \in DOMAIN outcome.outs} = Made(next)
      /\ Range(nodes[next].inputs) \subseteq DOMAIN runtime
  BY <1>0, RanOutputs
<1> DEFINE made == Made(next)
           views == [v \in DOMAIN runtime \cup made |->
                        IF v \in made THEN outcome.outs[v[3]].view ELSE runtime[v]]
<1>3. runtime' = StillLive(views, sched')
  BY <1>2 DEF NodeRan
<1>4. \A v \in DOMAIN runtime' : v \in DOMAIN views /\ runtime'[v] = views[v]
  BY <1>3 DEF StillLive, Restrict
<1>5. SUFFICES ASSUME NEW v \in DOMAIN runtime', NEW w, Leads(v, w)
               PROVE  runtime'[v].owner = w
  BY <1>1, LeadsKept DEF AliasesKept
<1>6. v \in DOMAIN runtime \cup made /\ runtime'[v] = IF v \in made THEN outcome.outs[v[3]].view ELSE runtime[v]
  BY <1>4
<1>7. \A u \in DOMAIN runtime : \A z : Leads(u, z) => runtime[u].owner = z
  BY DEF AliasInv, AliasesKept
<1>8. CASE v \notin made
  BY <1>5, <1>6, <1>7, <1>8
<1>9. CASE v \in made
  <2>1. PICK k \in DOMAIN nodes[next].outputs : v = NodeRef(next, k)
    BY <1>9 DEF Made
  <2>2. StaticAlias(nodes[next], k) /\ Leads(nodes[next].inputs[1], w)
    BY <1>5, <2>1, NodeLeads
  <2>3. k = 1 /\ v[3] = 1
    BY <2>1, <2>2 DEF StaticAlias, NodeRef
  <2>4. outcome.outs = <<Alias(runtime[nodes[next].inputs[1]])>>
    BY <1>0, <2>2, <2>3, AliasReturned DEF NodeRan, Inv
  <2>5. nodes[next].inputs[1] \in DOMAIN runtime
    <3>1. 1 \in DOMAIN nodes[next].inputs
      BY <1>0 DEF Inv, GraphOK, NodeOK
    <3> QED
      BY <1>2, <3>1 DEF Range
  <2>6. runtime'[v] = runtime[nodes[next].inputs[1]]
    BY <1>6, <1>9, <2>3, <2>4 DEF Alias
  <2> QED
    BY <1>7, <2>2, <2>5, <2>6
<1> QED
  BY <1>8, <1>9

LEMMA NextAliasInv ==
    ASSUME AliasInv, [Next]_vars
    PROVE  AliasInv'
<1>0. Inv /\ Inv'
  BY NextInv DEF AliasInv
<1>1. CASE AddInput \/ AddOperation
  BY <1>0, <1>1 DEF AddInput, AddOperation, AliasInv, OutputSelected, AliasesKept
<1>2. CASE Build
  <2>1. UNCHANGED <<inputs, nodes>> /\ phase' = "built"
    BY <1>2 DEF Build
  <2>2. Within(output', Len(nodes))
    BY <1>0, <1>2, AvailableWithin DEF Build, Inv
  <2>3. Within(output, Len(nodes))'
    BY <2>1, <2>2 DEF Within
  <2> QED
    BY <1>0, <2>1, <2>3 DEF AliasInv, OutputSelected, AliasesKept
<1>3. ASSUME UNCHANGED <<inputs, nodes, output>>, phase # "building" PROVE OutputSelected'
  BY <1>3, LeadsKept DEF AliasInv, OutputSelected
<1>4. CASE Start
  <2>1. OutputSelected' /\ UNCHANGED <<inputs, nodes, output>>
    BY <1>3, <1>4 DEF Start
  <2>2. CASE phase' = "done"
    <3>1. result'.kind # "ok"
      BY <1>4, <2>2 DEF Start, Return
    <3> QED
      BY <1>0, <2>1, <2>2, <3>1 DEF AliasInv, AliasesKept
  <2>3. CASE phase' # "done"
    <3>1. phase' = "running" /\ DOMAIN runtime' = InputRefs /\ \A v \in InputRefs : runtime'[v].owner = InputRef(v[2])
      BY <1>4, <2>3 DEF Start, Return, InputRefs, InputView
    <3>2. ASSUME NEW v \in InputRefs, NEW w, Leads(v, w) PROVE runtime'[v].owner = w
      <4>1. PICK i \in DOMAIN inputs : v = InputRef(i)
        BY DEF InputRefs
      <4>2. w = v /\ v[2] = i
        BY <3>2, <4>1, InputLeads DEF InputRef
      <4> QED
        BY <3>1, <4>1, <4>2
    <3>3. AliasesKept'
      BY <2>1, <3>1, <3>2, LeadsKept DEF AliasesKept
    <3> QED
      BY <1>0, <2>1, <3>3 DEF AliasInv
  <2> QED
    BY <2>2, <2>3
<1>5. CASE RejectNode \/ SeeCancellation
  <2>1. /\ UNCHANGED <<inputs, nodes, output>> /\ phase # "building"
        /\ phase' = "done" /\ result'.kind # "ok"
    BY <1>5 DEF RejectNode, SeeCancellation, Return
  <2> QED
    BY <1>0, <1>3, <2>1 DEF AliasInv, AliasesKept
<1>6. CASE ExecuteNode
  <2>1. UNCHANGED <<inputs, nodes, output>> /\ phase = "running" /\ next \in DOMAIN nodes
    BY <1>0, <1>6, ExecuteCases
  <2>2. OutputSelected'
    BY <1>3, <2>1
  <2>3. CASE phase' = "done" /\ result'.kind # "ok"
    BY <1>0, <2>2, <2>3 DEF AliasInv, AliasesKept
  <2>4. CASE \E outcome : NodeRan(outcome)
    BY <1>0, <2>1, <2>2, <2>4, RanAliases DEF AliasInv
  <2> QED
    BY <1>0, <1>6, <2>3, <2>4, ExecuteCases
<1>7. CASE Finish
  <2>1. UNCHANGED <<inputs, nodes, output>> /\ phase = "running" /\ phase' = "done"
    BY <1>7 DEF Finish, Return
  <2>2. CASE output \notin DOMAIN runtime
    <3>1. result'.kind # "ok"
      BY <1>7, <2>2 DEF Finish, Return
    <3> QED
      BY <1>0, <1>3, <2>1, <3>1 DEF AliasInv, AliasesKept
  <2>3. CASE output \in DOMAIN runtime
    <3>1. result'.view = runtime[output]
      BY <1>7, <2>3 DEF Finish, Return
    <3>2. \A w : Leads(output, w) => result'.view.owner = w
      BY <2>1, <2>3, <3>1 DEF AliasInv, AliasesKept
    <3>3. \A w : Leads(output, w)' => Leads(output, w)
      <4>1. ASSUME NEW o, o = output, NEW w PROVE Leads(o, w) <=> Leads(o, w)'
        BY <2>1, LeadsKept
      <4> QED
        BY <2>1, <4>1
    <3> QED
      BY <1>0, <1>3, <2>1, <3>2, <3>3 DEF AliasInv, AliasesKept
  <2> QED
    BY <2>2, <2>3
<1>8. CASE UNCHANGED vars
  <2>1. UNCHANGED <<inputs, nodes, output, phase, result, runtime>>
    BY <1>8 DEF vars
  <2>2. \A v, w, n : (Leads(v, w) <=> Leads(v, w)') /\ (Within(v, n) <=> Within(v, n)')
    BY <2>1, LeadsKept
  <2>3. OutputSelected' /\ AliasesKept'
    <3>1. PICK o : o = output
      OBVIOUS
    <3> QED
      BY <2>1, <2>2, <3>1 DEF AliasInv, OutputSelected, AliasesKept
  <2> QED
    BY <1>0, <2>3 DEF AliasInv
<1> QED
  BY <1>1, <1>2, <1>4, <1>5, <1>6, <1>7, <1>8 DEF Next

\* Where output_input_alias names an input, a successful execution returns
\* that input's memory: following the reshapes and the identity permutations
\* back from the output loses nothing, whatever the graph.
THEOREM StaticAliasStaysHonoured == Spec => []StaticAliasHonoured
<1>1. Init => AliasInv
  BY InitInv DEF Init, AliasInv, OutputSelected, AliasesKept
<1>2. AliasInv => StaticAliasHonoured
  <2>1. SUFFICES ASSUME AliasInv, Succeeded, OutputInputAlias(output) # None
                 PROVE  result.view.owner = OutputInputAlias(output)
    BY DEF StaticAliasHonoured
  <2>2. GraphOK /\ Within(output, Len(nodes))
    BY <2>1 DEF AliasInv, Inv, OutputSelected, Succeeded
  <2>3. Leads(output, OutputInputAlias(output))
    BY <2>1, <2>2, AliasLeads
  <2> QED
    BY <2>1, <2>3 DEF AliasInv, AliasesKept, Succeeded
<1> QED
  BY <1>1, <1>2, NextAliasInv, PTL DEF Spec

-----------------------------------------------------------------------------
(* The estimate and the execution, side by side *)

\* Every allocation has the bytes of the values in it.
ByteSized(s) ==
    \A v \in DOMAIN s.values : s.values[v] # 0 => s.allocs[s.values[v]].bytes = Facts(v).bytes

LEMMA ValueRange ==
    ASSUME NEW s, Exact(s)
    PROVE  Len(s.allocs) \in Nat /\ \A v \in DOMAIN s.values : s.values[v] \in 0 .. Len(s.allocs)
<1>1. SchedType(s)
  BY DEF Exact
<1> QED
  BY <1>1, AllocFacts DEF SchedType

\* g is f with v added, or with v taken away.
Extends(f, v, x, g) ==
    /\ DOMAIN g = DOMAIN f \cup {v} /\ g[v] = x
    /\ \A w \in DOMAIN f : w # v => g[w] = f[w]
Shrinks(f, v, g) == DOMAIN g = DOMAIN f \ {v} /\ \A w \in DOMAIN g : g[w] = f[w]

LEMMA ExtendedValues ==
    ASSUME NEW f, NEW v, NEW x, NEW g, g = Extended(f, v, x)
    PROVE  Extends(f, v, x, g)
  BY DEF Extended, Extends

LEMMA WithoutValues ==
    ASSUME NEW f, NEW v, NEW g, g = Without(f, v)
    PROVE  Shrinks(f, v, g)
  BY DEF Without, Restrict, Shrinks

LEMMA FreshSized ==
    ASSUME NEW s, Exact(s), ByteSized(s), NEW t, NEW v, IsFresh(s, t, v, Facts(v).bytes)
    PROVE  ByteSized(t)
<1>1. Len(s.allocs) \in Nat /\ \A w \in DOMAIN s.values : s.values[w] \in 0 .. Len(s.allocs)
  BY ValueRange
<1>2. /\ DOMAIN t.values = DOMAIN s.values \cup {v} /\ t.values[v] = Len(s.allocs) + 1
      /\ \A w \in DOMAIN s.values : w # v => t.values[w] = s.values[w]
  <2>1. Extends(s.values, v, Len(s.allocs) + 1, t.values)
    BY ExtendedValues DEF IsFresh
  <2> QED
    BY <2>1 DEF Extends
<1>3. /\ t.allocs[Len(s.allocs) + 1].bytes = Facts(v).bytes /\ v \notin DOMAIN s.values
      /\ \A a \in 1 .. Len(s.allocs) : t.allocs[a].bytes = s.allocs[a].bytes
  BY DEF IsFresh
<1>4. SUFFICES ASSUME NEW w \in DOMAIN t.values, t.values[w] # 0
               PROVE  t.allocs[t.values[w]].bytes = Facts(w).bytes
  BY DEF ByteSized
<1>5. CASE w = v
  BY <1>2, <1>3, <1>5
<1>6. CASE w # v
  <2>1. w \in DOMAIN s.values /\ t.values[w] = s.values[w] /\ s.values[w] \in 1 .. Len(s.allocs)
    BY <1>1, <1>2, <1>4, <1>6
  <2>2. s.allocs[s.values[w]].bytes = Facts(w).bytes
    BY <2>1 DEF ByteSized
  <2> QED
    BY <1>3, <2>1, <2>2
<1> QED
  BY <1>5, <1>6

LEMMA SharedSized ==
    ASSUME NEW s, Exact(s), ByteSized(s), NEW t, NEW v, NEW u \in DOMAIN s.values,
           Facts(v).bytes = Facts(u).bytes, IsShared(s, t, v, s.values[u])
    PROVE  ByteSized(t)
<1>1. Len(s.allocs) \in Nat /\ \A w \in DOMAIN s.values : s.values[w] \in 0 .. Len(s.allocs)
  BY ValueRange
<1>2. /\ DOMAIN t.values = DOMAIN s.values \cup {v} /\ t.values[v] = s.values[u]
      /\ \A w \in DOMAIN s.values : w # v => t.values[w] = s.values[w]
  <2>1. Extends(s.values, v, s.values[u], t.values)
    BY ExtendedValues DEF IsShared
  <2> QED
    BY <2>1 DEF Extends
<1>3. \A a \in 1 .. Len(s.allocs) : t.allocs[a].bytes = s.allocs[a].bytes
  BY DEF IsShared
<1>4. SUFFICES ASSUME NEW w \in DOMAIN t.values, t.values[w] # 0
               PROVE  t.allocs[t.values[w]].bytes = Facts(w).bytes
  BY DEF ByteSized
<1>5. PICK z \in DOMAIN s.values : t.values[w] = s.values[z] /\ Facts(z).bytes = Facts(w).bytes
  BY <1>2
<1>6. s.values[z] \in 1 .. Len(s.allocs) /\ s.allocs[s.values[z]].bytes = Facts(z).bytes
  BY <1>1, <1>4, <1>5 DEF ByteSized
<1> QED
  BY <1>3, <1>5, <1>6

LEMMA RemovedSized ==
    ASSUME NEW s, Exact(s), ByteSized(s), NEW t, NEW v, IsRemoved(s, t, v)
    PROVE  ByteSized(t)
<1>1. Len(s.allocs) \in Nat /\ \A w \in DOMAIN s.values : s.values[w] \in 0 .. Len(s.allocs)
  BY ValueRange
<1>2. DOMAIN t.values = DOMAIN s.values \ {v} /\ \A w \in DOMAIN t.values : t.values[w] = s.values[w]
  <2>1. Shrinks(s.values, v, t.values)
    BY WithoutValues DEF IsRemoved
  <2> QED
    BY <2>1 DEF Shrinks
<1>3. \A a \in 1 .. Len(s.allocs) : t.allocs[a].bytes = s.allocs[a].bytes
  BY DEF IsRemoved
<1>4. SUFFICES ASSUME NEW w \in DOMAIN t.values, t.values[w] # 0
               PROVE  t.allocs[t.values[w]].bytes = Facts(w).bytes
  BY DEF ByteSized
<1>5. w \in DOMAIN s.values /\ t.values[w] = s.values[w] /\ s.values[w] \in 1 .. Len(s.allocs)
  BY <1>1, <1>2, <1>4
<1>6. s.allocs[s.values[w]].bytes = Facts(w).bytes
  BY <1>5 DEF ByteSized
<1> QED
  BY <1>3, <1>5, <1>6

\* The execution's values f share at least where the estimate's values g do.
Coarser(f, g) ==
    /\ DOMAIN f = DOMAIN g
    /\ \A v \in DOMAIN g : g[v] = 0 => f[v] = 0
    /\ \A v, w \in DOMAIN g : g[v] = g[w] => f[v] = f[w]

LEMMA CoarserFresh ==
    ASSUME NEW f, NEW g, Coarser(f, g), NEW v, v \notin DOMAIN g, NEW x, NEW y, y # 0,
           \A w \in DOMAIN g : g[w] # y,
           NEW f1, f1 = Extended(f, v, x), NEW g1, g1 = Extended(g, v, y)
    PROVE  Coarser(f1, g1)
<1>1. /\ DOMAIN f1 = DOMAIN f \cup {v} /\ f1[v] = x /\ \A w \in DOMAIN f : w # v => f1[w] = f[w]
      /\ DOMAIN g1 = DOMAIN g \cup {v} /\ g1[v] = y /\ \A w \in DOMAIN g : w # v => g1[w] = g[w]
  <2>1. Extends(f, v, x, f1) /\ Extends(g, v, y, g1)
    BY ExtendedValues
  <2> QED
    BY <2>1 DEF Extends
<1> QED
  BY <1>1 DEF Coarser

LEMMA CoarserShared ==
    ASSUME NEW f, NEW g, Coarser(f, g), NEW v, v \notin DOMAIN g, NEW u \in DOMAIN g,
           NEW f1, f1 = Extended(f, v, f[u]), NEW g1, g1 = Extended(g, v, g[u])
    PROVE  Coarser(f1, g1)
<1>1. /\ DOMAIN f1 = DOMAIN f \cup {v} /\ f1[v] = f[u] /\ \A w \in DOMAIN f : w # v => f1[w] = f[w]
      /\ DOMAIN g1 = DOMAIN g \cup {v} /\ g1[v] = g[u] /\ \A w \in DOMAIN g : w # v => g1[w] = g[w]
  <2>1. Extends(f, v, f[u], f1) /\ Extends(g, v, g[u], g1)
    BY ExtendedValues
  <2> QED
    BY <2>1 DEF Extends
<1> QED
  BY <1>1 DEF Coarser

LEMMA CoarserWithout ==
    ASSUME NEW f, NEW g, Coarser(f, g), NEW v,
           NEW f1, f1 = Without(f, v), NEW g1, g1 = Without(g, v)
    PROVE  Coarser(f1, g1)
<1>1. /\ DOMAIN f1 = DOMAIN f \ {v} /\ \A w \in DOMAIN f1 : f1[w] = f[w]
      /\ DOMAIN g1 = DOMAIN g \ {v} /\ \A w \in DOMAIN g1 : g1[w] = g[w]
  <2>1. Shrinks(f, v, f1) /\ Shrinks(g, v, g1)
    BY WithoutValues
  <2> QED
    BY <2>1 DEF Shrinks
<1> QED
  BY <1>1 DEF Coarser

\* r is where the execution stands, e where the estimate stands.
Sim(r, e) ==
    /\ Exact(r) /\ Exact(e)
    /\ ByteSized(r) /\ ByteSized(e)
    /\ Coarser(r.values, e.values)
    /\ r.uses = e.uses
    /\ r.peak <= e.peak

\* Then the execution holds no more bytes than the estimate does.
LEMMA SimLive ==
    ASSUME NEW r, NEW e, Sim(r, e)
    PROVE  r.live <= e.live
<1> DEFINE R == {a \in DOMAIN r.allocs : Sharing(r, a) # {}}
           rep == [a \in R |-> CHOOSE v \in DOMAIN r.values : r.values[v] = a]
           h == [p \in LiveBytes(r) |-> <<e.values[rep[p[1]]], p[2]>>]
<1>1. Exact(r) /\ Exact(e) /\ SchedType(r) /\ SchedType(e)
  BY DEF Sim, Exact
<1>2. /\ Len(r.allocs) \in Nat /\ DOMAIN r.allocs = 1 .. Len(r.allocs)
      /\ Len(e.allocs) \in Nat /\ DOMAIN e.allocs = 1 .. Len(e.allocs)
      /\ \A v \in DOMAIN e.values : e.values[v] \in 0 .. Len(e.allocs)
  BY <1>1, AllocFacts, ValueRange
<1>3. ASSUME NEW a \in R
      PROVE  /\ rep[a] \in DOMAIN r.values /\ r.values[rep[a]] = a
             /\ rep[a] \in DOMAIN e.values /\ e.values[rep[a]] \in DOMAIN e.allocs
             /\ Sharing(e, e.values[rep[a]]) # {}
             /\ r.allocs[a].bytes = e.allocs[e.values[rep[a]]].bytes
  <2>1. \E v \in DOMAIN r.values : r.values[v] = a
    BY <1>3 DEF Sharing
  <2>2. rep[a] \in DOMAIN r.values /\ r.values[rep[a]] = a
    BY <2>1
  <2> DEFINE v == rep[a]
  <2> HIDE DEF rep
  <2>3. v \in DOMAIN r.values /\ r.values[v] = a /\ a # 0
    BY <1>2, <2>2
  <2> HIDE DEF v
  <2>4. v \in DOMAIN e.values /\ e.values[v] # 0
    BY <2>3 DEF Sim, Coarser
  <2>5. e.values[v] \in DOMAIN e.allocs
    BY <1>2, <2>4
  <2>6. r.allocs[a].bytes = Facts(v).bytes /\ e.allocs[e.values[v]].bytes = Facts(v).bytes
    BY <2>3, <2>4 DEF Sim, ByteSized
  <2>7. Sharing(e, e.values[v]) # {}
    BY <2>4 DEF Sharing
  <2> QED
    BY <2>2, <2>4, <2>5, <2>6, <2>7 DEF v
<1> HIDE DEF rep
<1>4. LiveBytes(r) = UNION {{a} \X (1 .. r.allocs[a].bytes) : a \in R}
  BY DEF LiveBytes
<1>5. ASSUME NEW p \in LiveBytes(r)
      PROVE  p[1] \in R /\ p[2] \in 1 .. r.allocs[p[1]].bytes /\ p = <<p[1], p[2]>>
  BY <1>4
<1>6. ASSUME NEW p \in LiveBytes(r) PROVE h[p] \in LiveBytes(e)
  <2> DEFINE b == e.values[rep[p[1]]]
  <2>1. /\ b \in DOMAIN e.allocs /\ Sharing(e, b) # {}
        /\ p[2] \in 1 .. e.allocs[b].bytes
    BY <1>3, <1>5
  <2>2. h[p] = <<b, p[2]>>
    OBVIOUS
  <2> HIDE DEF b, h
  <2>3. <<b, p[2]>> \in {b} \X (1 .. e.allocs[b].bytes)
    BY <2>1
  <2> QED
    BY <2>1, <2>2, <2>3 DEF LiveBytes
<1>7. ASSUME NEW p \in LiveBytes(r), NEW q \in LiveBytes(r), h[p] = h[q] PROVE p = q
  <2>1. e.values[rep[p[1]]] = e.values[rep[q[1]]] /\ p[2] = q[2]
    BY <1>7
  <2>2. /\ p[1] \in R /\ q[1] \in R /\ p = <<p[1], p[2]>> /\ q = <<q[1], q[2]>>
    BY <1>5
  <2>3. r.values[rep[p[1]]] = r.values[rep[q[1]]]
    BY <1>3, <2>1, <2>2 DEF Sim, Coarser
  <2>4. p[1] = q[1]
    BY <1>3, <2>2, <2>3
  <2> QED
    BY <2>1, <2>2, <2>4
<1>8. h \in Injection(LiveBytes(r), LiveBytes(e))
  BY <1>6, <1>7 DEF Injection, IsInjective
<1>9. IsFiniteSet(LiveBytes(e)) /\ IsFiniteSet(LiveBytes(r))
  BY <1>1, LiveBytesFinite
<1>10. Cardinality(LiveBytes(r)) <= Cardinality(LiveBytes(e))
  BY <1>8, <1>9, FS_Injection
<1> QED
  BY <1>1, <1>10 DEF Exact

\* The origins the estimate and the execution take for node n's outputs.
Compatible(n, ro, eo) ==
    /\ \A k \in DOMAIN nodes[n].outputs : eo[k] # "fresh" => ro[k] # "fresh"
    /\ \A k \in DOMAIN nodes[n].outputs :
          ro[k] # "fresh" => nodes[n].outputs[k].bytes = Facts(nodes[n].inputs[1]).bytes

LEMMA ProduceSim ==
    ASSUME NEW n, SizesFit(n), NEW r, NEW e, Sim(r, e), r.err = "none", e.err = "none",
           NEW ro, NEW eo, Compatible(n, ro, eo), NEW k \in DOMAIN nodes[n].outputs,
           NEW rt, rt = Produce(r, nodes[n], NodeRef(n, k), nodes[n].outputs[k], ro[k]), rt.err = "none",
           NEW et, et = Produce(e, nodes[n], NodeRef(n, k), nodes[n].outputs[k], eo[k]), et.err = "none"
    PROVE  Sim(rt, et)
<1> DEFINE v == NodeRef(n, k)
           b == nodes[n].outputs[k].bytes
           u == nodes[n].inputs[1]
           rk == ro[k]
           ek == eo[k]
<1>1. b \in 0 .. MaxWord /\ Facts(v).bytes = b
  BY DEF SizesFit, Facts, NodeRef
<1>2. /\ Exact(r) /\ Exact(e) /\ ByteSized(r) /\ ByteSized(e) /\ Coarser(r.values, e.values)
      /\ r.uses = e.uses /\ r.peak <= e.peak /\ r.live <= e.live
  BY SimLive DEF Sim
<1>3. r.peak \in Nat /\ e.peak \in Nat /\ r.live \in Nat /\ e.live \in Nat
  BY <1>2 DEF Exact, SchedType
<1>4. /\ Exact(rt)
      /\ rk = "fresh" => IsFresh(r, rt, v, b)
      /\ rk # "fresh" => u \in DOMAIN r.values /\ IsShared(r, rt, v, r.values[u])
  BY <1>1, <1>2, ProduceEffect
<1>5. /\ Exact(et)
      /\ ek = "fresh" => IsFresh(e, et, v, b)
      /\ ek # "fresh" => u \in DOMAIN e.values /\ IsShared(e, et, v, e.values[u])
  BY <1>1, <1>2, ProduceEffect
<1>6. /\ ek # "fresh" => rk # "fresh"
      /\ rk # "fresh" => Facts(v).bytes = Facts(u).bytes
  BY <1>1 DEF Compatible
<1> HIDE DEF v, b, u, rk, ek
<1>7. ByteSized(rt)
  <2>1. CASE rk = "fresh"
    BY <1>1, <1>2, <1>4, <2>1, FreshSized
  <2>2. CASE rk # "fresh"
    BY <1>2, <1>4, <1>6, <2>2, SharedSized
  <2> QED
    BY <2>1, <2>2
<1>8. ByteSized(et)
  <2>1. CASE ek = "fresh"
    BY <1>1, <1>2, <1>5, <2>1, FreshSized
  <2>2. CASE ek # "fresh"
    BY <1>2, <1>5, <1>6, <2>2, SharedSized
  <2> QED
    BY <2>1, <2>2
<1>9. Coarser(rt.values, et.values)
  <2>1. CASE ek = "fresh"
    <3> DEFINE y == Len(e.allocs) + 1
    <3>1. v \notin DOMAIN e.values /\ et.values = Extended(e.values, v, y)
      BY <1>5, <2>1 DEF IsFresh
    <3>2. y # 0 /\ \A w \in DOMAIN e.values : e.values[w] # y
      BY <1>2, ValueRange
    <3>3. PICK x : rt.values = Extended(r.values, v, x)
      BY <1>4 DEF IsFresh, IsShared
    <3> HIDE DEF y
    <3> QED
      BY <1>2, <3>1, <3>2, <3>3, CoarserFresh
  <2>2. CASE ek # "fresh"
    <3>1. u \in DOMAIN e.values /\ v \notin DOMAIN e.values /\ et.values = Extended(e.values, v, e.values[u])
      BY <1>5, <2>2 DEF IsShared
    <3>2. rt.values = Extended(r.values, v, r.values[u])
      BY <1>4, <1>6, <2>2 DEF IsShared
    <3> QED
      BY <1>2, <3>1, <3>2, CoarserShared
  <2> QED
    BY <2>1, <2>2
<1>10. rt.uses = et.uses
  BY <1>2, <1>4, <1>5 DEF IsFresh, IsShared
<1>11. rt.peak <= et.peak
  <2>1. CASE ek = "fresh"
    <3>1. et.peak = Raise(e.peak, e.live + b)
      BY <1>5, <2>1 DEF IsFresh
    <3>2. rt.peak = Raise(r.peak, r.live + b) \/ rt.peak = r.peak
      BY <1>4 DEF IsFresh, IsShared
    <3> QED
      BY <1>1, <1>2, <1>3, <3>1, <3>2 DEF Raise
  <2>2. CASE ek # "fresh"
    BY <1>2, <1>4, <1>5, <1>6, <2>2 DEF IsShared
  <2> QED
    BY <2>1, <2>2
<1> QED
  BY <1>4, <1>5, <1>7, <1>8, <1>9, <1>10, <1>11 DEF Sim

\* The same value is taken from both.
LEMMA RemovedSim ==
    ASSUME NEW r, NEW e, Sim(r, e), NEW v, NEW rt, NEW et, Exact(rt), Exact(et),
           IsRemoved(r, rt, v), IsRemoved(e, et, v), rt.uses = et.uses
    PROVE  Sim(rt, et)
<1>1. ByteSized(rt) /\ ByteSized(et)
  BY RemovedSized DEF Sim
<1>2. rt.values = Without(r.values, v) /\ et.values = Without(e.values, v)
  BY DEF IsRemoved
<1>3. Coarser(r.values, e.values)
  BY DEF Sim
<1>4. Coarser(rt.values, et.values)
  BY <1>2, <1>3, CoarserWithout
<1>5. rt.peak <= et.peak
  BY DEF Sim, IsRemoved
<1> QED
  BY <1>1, <1>4, <1>5 DEF Sim

LEMMA SameSim ==
    ASSUME NEW r, NEW e, Sim(r, e), NEW rt, NEW et, Exact(rt), Exact(et),
           SameValues(r, rt), SameValues(e, et), rt.uses = et.uses, rt.peak <= et.peak
    PROVE  Sim(rt, et)
  BY DEF Sim, SameValues, ByteSized

LEMMA CallSim ==
    ASSUME NEW n, SizesFit(n), NEW r, NEW e, Sim(r, e), r.err = "none", e.err = "none",
           NEW ro, NEW eo, Compatible(n, ro, eo), NEW rx \in Nat, NEW ex \in Nat, rx <= ex,
           NEW c \in 1 .. ScheduleCalls(nodes[n]),
           NEW rt, rt = ScheduleCall(r, n, ro, rx, c), rt.err = "none",
           NEW et, et = ScheduleCall(e, n, eo, ex, c), et.err = "none"
    PROVE  Sim(rt, et)
<1> DEFINE outs == Len(nodes[n].outputs)
           ins == Len(nodes[n].inputs)
<1>1. outs \in Nat /\ ins \in Nat /\ c \in 1 .. 2 * outs + ins + 1
  BY DEF SizesFit, ScheduleCalls
<1>2. Exact(r) /\ Exact(e) /\ r.uses = e.uses /\ r.peak <= e.peak /\ r.live <= e.live
  BY SimLive DEF Sim
<1>3. r.peak \in Nat /\ e.peak \in Nat /\ r.live \in Nat /\ e.live \in Nat
  BY <1>2 DEF Exact, SchedType
<1> HIDE DEF outs, ins
<1>4. CASE c <= outs
  <2>1. c \in DOMAIN nodes[n].outputs
    BY <1>1, <1>4 DEF SizesFit, outs
  <2>2. /\ rt = Produce(r, nodes[n], NodeRef(n, c), nodes[n].outputs[c], ro[c])
        /\ et = Produce(e, nodes[n], NodeRef(n, c), nodes[n].outputs[c], eo[c])
    BY <1>4 DEF ScheduleCall, outs
  <2> QED
    BY <2>1, <2>2, ProduceSim
<1>5. CASE c = outs + 1
  <2>1. rt = ObserveTransient(r, rx) /\ et = ObserveTransient(e, ex)
    BY <1>1, <1>5 DEF ScheduleCall, outs
  <2>2. /\ Exact(rt) /\ SameValues(r, rt) /\ rt.uses = r.uses /\ rt.peak = Raise(r.peak, r.live + rx)
        /\ Exact(et) /\ SameValues(e, et) /\ et.uses = e.uses /\ et.peak = Raise(e.peak, e.live + ex)
    BY <1>2, <2>1, ObserveEffect
  <2>3. rt.peak <= et.peak
    BY <1>2, <1>3, <2>2 DEF Raise
  <2> QED
    BY <1>2, <2>2, <2>3, SameSim
<1>6. CASE c > outs + 1 /\ c <= outs + 1 + ins
  <2>1. PICK v : rt = ConsumeValue(r, v) /\ et = ConsumeValue(e, v)
    BY <1>1, <1>6 DEF ScheduleCall, outs, ins
  <2>2. /\ Exact(rt) /\ rt.uses = [r.uses EXCEPT ![v] = r.uses[v] - 1]
        /\ r.uses[v] = 1 => IsRemoved(r, rt, v)
        /\ r.uses[v] # 1 => SameValues(r, rt) /\ rt.peak = r.peak
    BY <1>2, <2>1, ConsumeEffect
  <2>3. /\ Exact(et) /\ et.uses = [e.uses EXCEPT ![v] = e.uses[v] - 1]
        /\ e.uses[v] = 1 => IsRemoved(e, et, v)
        /\ e.uses[v] # 1 => SameValues(e, et) /\ et.peak = e.peak
    BY <1>2, <2>1, ConsumeEffect
  <2>4. CASE r.uses[v] = 1
    <3>1. IsRemoved(r, rt, v) /\ IsRemoved(e, et, v) /\ rt.uses = et.uses
      BY <1>2, <2>2, <2>3, <2>4
    <3> QED
      BY <2>2, <2>3, <3>1, RemovedSim
  <2>5. CASE r.uses[v] # 1
    <3>1. SameValues(r, rt) /\ SameValues(e, et) /\ rt.uses = et.uses /\ rt.peak <= et.peak
      BY <1>2, <2>2, <2>3, <2>5
    <3> QED
      BY <2>2, <2>3, <3>1, SameSim
  <2> QED
    BY <2>4, <2>5
<1>7. CASE c > outs + 1 + ins
  <2> DEFINE v == NodeRef(n, c - outs - 1 - ins)
  <2>0. ~(c <= outs) /\ ~(c = outs + 1) /\ ~(c <= outs + 1 + ins)
    BY <1>1, <1>7
  <2>1. rt = RemoveUnused(r, v) /\ et = RemoveUnused(e, v)
    BY <2>0 DEF ScheduleCall, outs, ins
  <2> HIDE DEF v
  <2>2. /\ Exact(rt) /\ rt.uses = r.uses
        /\ v \in DOMAIN r.uses /\ r.uses[v] > 0 => rt = r
        /\ ~(v \in DOMAIN r.uses /\ r.uses[v] > 0) => IsRemoved(r, rt, v)
    BY <1>2, <2>1, UnusedEffect
  <2>3. /\ Exact(et) /\ et.uses = e.uses
        /\ v \in DOMAIN e.uses /\ e.uses[v] > 0 => et = e
        /\ ~(v \in DOMAIN e.uses /\ e.uses[v] > 0) => IsRemoved(e, et, v)
    BY <1>2, <2>1, UnusedEffect
  <2>4. CASE v \in DOMAIN r.uses /\ r.uses[v] > 0
    BY <1>2, <2>2, <2>3, <2>4
  <2>5. CASE ~(v \in DOMAIN r.uses /\ r.uses[v] > 0)
    <3>1. IsRemoved(r, rt, v) /\ IsRemoved(e, et, v) /\ rt.uses = et.uses
      BY <1>2, <2>2, <2>3, <2>5
    <3> QED
      BY <2>2, <2>3, <3>1, RemovedSim
  <2> QED
    BY <2>4, <2>5
<1> QED
  BY <1>1, <1>4, <1>5, <1>6, <1>7

\* t is what the calls for node n make of s, none of them failing.
Scheduled(s, t, n, origins, x) ==
    \E f : /\ f[0] = s /\ f[ScheduleCalls(nodes[n])] = t
           /\ \A c \in 0 .. ScheduleCalls(nodes[n]) : f[c].err = "none"
           /\ \A c \in 1 .. ScheduleCalls(nodes[n]) : f[c] = ScheduleCall(f[c - 1], n, origins, x, c)

LEMMA NodeScheduled ==
    ASSUME NEW s, NEW n, NEW origins, NEW x, SizesFit(n), ScheduleNode(s, n, origins, x).err = "none"
    PROVE  Scheduled(s, ScheduleNode(s, n, origins, x), n, origins, x)
<1>1. PICK f : f = NodeSchedule(s, n, origins, x)
  OBVIOUS
<1> QED
  BY <1>1, RunHolds DEF Scheduled

LEMMA NodeSim ==
    ASSUME NEW n, SizesFit(n), NEW r, NEW e, Sim(r, e),
           NEW ro, NEW eo, Compatible(n, ro, eo), NEW rx \in Nat, NEW ex \in Nat, rx <= ex,
           NEW rt, Scheduled(r, rt, n, ro, rx), NEW et, Scheduled(e, et, n, eo, ex)
    PROVE  Sim(rt, et)
<1> DEFINE last == ScheduleCalls(nodes[n])
<1>1. PICK f : /\ f[0] = r /\ f[last] = rt
               /\ \A c \in 0 .. last : f[c].err = "none"
               /\ \A c \in 1 .. last : f[c] = ScheduleCall(f[c - 1], n, ro, rx, c)
  BY DEF Scheduled
<1>2. PICK g : /\ g[0] = e /\ g[last] = et
               /\ \A c \in 0 .. last : g[c].err = "none"
               /\ \A c \in 1 .. last : g[c] = ScheduleCall(g[c - 1], n, eo, ex, c)
  BY DEF Scheduled
<1>3. last \in Nat
  BY CallsCounted
<1> DEFINE Good(c) == Sim(f[c], g[c])
           T == {c \in Nat : c <= last /\ ~Good(c)}
<1>4. ASSUME NEW c \in 1 .. last, Good(c - 1) PROVE Good(c)
  <2>1. /\ f[c - 1].err = "none" /\ g[c - 1].err = "none" /\ f[c].err = "none" /\ g[c].err = "none"
        /\ f[c] = ScheduleCall(f[c - 1], n, ro, rx, c) /\ g[c] = ScheduleCall(g[c - 1], n, eo, ex, c)
    BY <1>1, <1>2, <1>3
  <2> QED
    BY <1>4, <2>1, CallSim
<1>5. Good(0)
  BY <1>1, <1>2
<1> HIDE DEF Good, last
<1>6. T = {}
  <2>1. SUFFICES ASSUME T # {} PROVE FALSE
    OBVIOUS
  <2>2. PICK c \in T : \A d \in T : c <= d
    BY <2>1, LeastNumber
  <2>3. c # 0 /\ c \in 1 .. last /\ c - 1 \in Nat /\ c - 1 \notin T
    BY <1>3, <1>5, <2>2
  <2>4. Good(c - 1)
    BY <1>3, <2>3
  <2> QED
    BY <1>4, <2>2, <2>3, <2>4
<1>7. Good(last)
  BY <1>3, <1>6
<1> QED
  BY <1>1, <1>2, <1>7 DEF Good

-----------------------------------------------------------------------------
(* The estimate *)

\* The schedules the estimate went through, node after node, without an error.
EstimateRun(E, out) ==
    /\ E[0] = NewSchedule(out)
    /\ \A n \in 1 .. Len(nodes) :
          Scheduled(E[n - 1], E[n], n, StaticOrigins(nodes[n]), StaticTransient(nodes[n]))

\* What the estimate makes of the schedule before node n.
Estimated(s, n) ==
    OrElse(s, ScheduleNode(s, n, StaticOrigins(nodes[n]), StaticTransient(nodes[n])))
IsEstimate(E, m, out) == E = [n \in 0 .. m |-> IF n = 0 THEN NewSchedule(out) ELSE Estimated(E[n - 1], n)]

LEMMA EstimateExists ==
    ASSUME NEW out, NEW m \in Nat
    PROVE  \E E : IsEstimate(E, m, out)
<1> DEFINE T == {l \in Nat : ~\E f : IsEstimate(f, l, out)}
<1>1. SUFFICES ASSUME T # {} PROVE FALSE
  OBVIOUS
<1>2. PICK l \in T : \A j \in T : l <= j
  BY <1>1, LeastNumber
<1>3. CASE l = 0
  <2> DEFINE f == [c \in 0 .. 0 |-> NewSchedule(out)]
  <2>1. IsEstimate(f, 0, out)
    BY DEF IsEstimate
  <2> QED
    BY <1>2, <1>3, <2>1
<1>4. CASE l # 0
  <2>1. l \in Nat /\ l - 1 \in Nat /\ l - 1 \notin T
    BY <1>2, <1>4
  <2>2. PICK f : IsEstimate(f, l - 1, out)
    BY <2>1
  <2> DEFINE g == [c \in 0 .. l |-> IF c = l THEN Estimated(f[l - 1], l) ELSE f[c]]
  <2>3. ASSUME NEW c \in 0 .. l PROVE g[c] = IF c = 0 THEN NewSchedule(out) ELSE Estimated(g[c - 1], c)
    <3>1. CASE c = l
      <4>1. g[c - 1] = f[l - 1]
        BY <1>4, <2>1, <3>1
      <4> QED
        BY <1>4, <3>1, <4>1
    <3>2. CASE c # l
      <4>1. c \in 0 .. l - 1 /\ g[c] = f[c]
        BY <2>1, <3>2
      <4>2. c # 0 => c - 1 \in 0 .. l /\ c - 1 # l /\ g[c - 1] = f[c - 1]
        BY <2>1, <4>1
      <4> QED
        BY <2>2, <4>1, <4>2 DEF IsEstimate
    <3> QED
      BY <3>1, <3>2
  <2>4. IsEstimate(g, l, out)
    BY <2>3 DEF IsEstimate
  <2> QED
    BY <1>2, <2>4
<1> QED
  BY <1>3, <1>4

LEMMA EstimateSteps ==
    ASSUME Len(nodes) \in Nat, NEW out, NEW E, E = EstimatedSchedule(out)
    PROVE  /\ E[0] = NewSchedule(out)
           /\ \A n \in 1 .. Len(nodes) : E[n] = Estimated(E[n - 1], n)
<1>1. PICK g : IsEstimate(g, Len(nodes), out)
  BY EstimateExists
<1>2. E = CHOOSE h : IsEstimate(h, Len(nodes), out)
  BY DEF EstimatedSchedule, IsEstimate, Estimated
<1>3. IsEstimate(E, Len(nodes), out)
  BY <1>1, <1>2
<1>4. E[0] = NewSchedule(out)
  BY <1>3 DEF IsEstimate
<1>5. ASSUME NEW n \in 1 .. Len(nodes) PROVE E[n] = Estimated(E[n - 1], n)
  BY <1>3 DEF IsEstimate
<1> QED
  BY <1>4, <1>5

\* An estimate that succeeded went through such schedules.
LEMMA EstimateRuns ==
    ASSUME GraphOK, NEW out, EstimateHostScratchBytes(out).kind = "ok"
    PROVE  \E E : /\ EstimateRun(E, out)
                  /\ EstimateHostScratchBytes(out).bytes = ScratchExcludingOutput(E[Len(nodes)], out)
<1>1. PICK E : E = EstimatedSchedule(out)
  OBVIOUS
<1> DEFINE m == Len(nodes)
<1>2. m \in Nat /\ DOMAIN nodes = 1 .. m
  BY SeqShape DEF GraphOK
<1>3. E[0] = NewSchedule(out) /\ \A n \in 1 .. m : E[n] = Estimated(E[n - 1], n)
  BY <1>1, <1>2, EstimateSteps
<1>4. ASSUME NEW n \in 1 .. m PROVE SizesFit(n) /\ StaticTransient(nodes[n]) \in Nat
  <2>1. n \in DOMAIN nodes
    BY <1>2
  <2>2. nodes[n].op \in Operations
    BY <2>1 DEF GraphOK, NodeOK
  <2>3. StaticTransient(nodes[n]) \in Nat
    BY <2>2, OperationsAssumption DEF StaticTransient
  <2> QED
    BY <2>1, <2>3, NodeSizes
<1>5. /\ E[m].err = "none" => /\ EstimateHostScratchBytes(out).bytes = ScratchExcludingOutput(E[m], out)
      /\ E[m].err # "none" => EstimateHostScratchBytes(out).kind = E[m].err
  BY <1>1 DEF EstimateHostScratchBytes
<1> HIDE DEF m
<1> DEFINE Good(n) == /\ E[n].err \in {"none", "limit", "integrity"}
                      /\ E[n].err = "none" => Exact(E[n])
           T == {n \in Nat : n <= m /\ ~Good(n)}
<1>6. ASSUME NEW n \in 1 .. m, Good(n - 1) PROVE Good(n)
  <2> DEFINE s == E[n - 1]
             o == StaticOrigins(nodes[n])
             x == StaticTransient(nodes[n])
  <2>1. E[n] = OrElse(s, ScheduleNode(s, n, o, x)) /\ x \in Nat /\ SizesFit(n)
    BY <1>3, <1>4 DEF Estimated
  <2>2. s.err \in {"none", "limit", "integrity"} /\ (s.err = "none" => Exact(s))
    BY <1>6
  <2> HIDE DEF s, o, x
  <2>3. CASE s.err = "none"
    <3>1. E[n] = ScheduleNode(s, n, o, x)
      BY <2>1, <2>3 DEF OrElse
    <3>2. E[n].err \in {"none", "limit", "integrity"}
      BY <2>1, <2>2, <2>3, <3>1, NodeErrs
    <3>3. E[n].err = "none" => Exact(E[n])
      BY <2>1, <2>2, <2>3, <3>1, NodeExact
    <3> QED
      BY <3>2, <3>3
  <2>4. CASE s.err # "none"
    BY <2>1, <2>2, <2>4 DEF OrElse
  <2> QED
    BY <2>3, <2>4
<1>7. Good(0)
  BY <1>3, NewExact
<1> HIDE DEF Good
<1>8. T = {}
  <2>1. SUFFICES ASSUME T # {} PROVE FALSE
    OBVIOUS
  <2>2. PICK c \in T : \A d \in T : c <= d
    BY <2>1, LeastNumber
  <2>3. c # 0 /\ c \in 1 .. m /\ c - 1 \in Nat /\ c - 1 \notin T
    BY <1>2, <1>7, <2>2
  <2>4. Good(c - 1)
    BY <1>2, <2>3
  <2> QED
    BY <1>6, <2>2, <2>3, <2>4
<1>9. E[m].err = "none"
  <2>1. Good(m)
    BY <1>2, <1>8
  <2> QED
    BY <1>5, <2>1 DEF Good
<1>10. ASSUME NEW n \in 1 .. m, E[n].err = "none" PROVE E[n - 1].err = "none"
  BY <1>3, <1>10 DEF Estimated, OrElse
<1> DEFINE U == {d \in Nat : d <= m /\ E[m - d].err # "none"}
<1>11. ASSUME NEW n \in 0 .. m PROVE E[n].err = "none"
  <2>1. SUFFICES ASSUME E[n].err # "none" PROVE FALSE
    OBVIOUS
  <2>2. m - n \in U
    BY <1>2, <2>1
  <2>3. PICK d \in U : \A j \in U : d <= j
    BY <2>2, LeastNumber
  <2>4. d # 0 /\ d \in Nat /\ d <= m /\ E[m - d].err # "none"
    BY <1>2, <1>9, <2>3
  <2>5. d - 1 \notin U /\ d - 1 \in Nat
    BY <2>3, <2>4
  <2>6. E[m - (d - 1)].err = "none"
    BY <1>2, <2>4, <2>5
  <2>7. m - (d - 1) \in 1 .. m /\ (m - (d - 1)) - 1 = m - d
    BY <1>2, <2>4
  <2> QED
    BY <1>10, <2>4, <2>6, <2>7
<1>12. ASSUME NEW n \in 1 .. m
       PROVE  Scheduled(E[n - 1], E[n], n, StaticOrigins(nodes[n]), StaticTransient(nodes[n]))
  <2> DEFINE s == E[n - 1]
             o == StaticOrigins(nodes[n])
             x == StaticTransient(nodes[n])
  <2>1. s.err = "none" /\ E[n].err = "none"
    BY <1>2, <1>11
  <2>2. E[n] = OrElse(s, ScheduleNode(s, n, o, x)) /\ SizesFit(n)
    BY <1>3, <1>4 DEF Estimated
  <2> HIDE DEF s, o, x
  <2>3. E[n] = ScheduleNode(s, n, o, x)
    BY <2>1, <2>2 DEF OrElse
  <2>4. Scheduled(s, E[n], n, o, x)
    BY <2>1, <2>2, <2>3, NodeScheduled
  <2> QED
    BY <2>4 DEF s, o, x
<1> QED
  BY <1>3, <1>5, <1>9, <1>12 DEF EstimateRun, m

LEMMA EstimateKept ==
    ASSUME UNCHANGED <<inputs, nodes>>, NEW E, NEW out, EstimateRun(E, out)
    PROVE  EstimateRun(E, out)'
<1>1. NewSchedule(out)' = NewSchedule(out)
  <2>1. Values' = Values /\ \A v : UsePlaces(v)' = UsePlaces(v)
    BY DEF Values, UsePlaces
  <2>2. \A v : Uses(v, out)' = Uses(v, out)
    BY <2>1 DEF Uses
  <2> QED
    BY <2>1, <2>2 DEF NewSchedule
<1>2. \A s, n, o, x, c : ScheduleCall(s, n, o, x, c)' = ScheduleCall(s, n, o, x, c)
  BY DEF ScheduleCall
<1>3. \A s, t, n, o, x : Scheduled(s, t, n, o, x) => Scheduled(s, t, n, o, x)'
  BY <1>2 DEF Scheduled
<1>4. \A n : StaticOrigins(nodes[n])' = StaticOrigins(nodes[n])
  BY DEF StaticOrigins, StaticAlias, Facts
<1> QED
  BY <1>1, <1>3, <1>4 DEF EstimateRun

-----------------------------------------------------------------------------
(* Whose memory a node returns, and how much *)

\* An operation other than a concatenation has one input.
LEMMA OneInput ==
    ASSUME GraphOK, NEW n \in DOMAIN nodes, nodes[n].op.kind # "concat"
    PROVE  /\ Len(nodes[n].inputs) = 1 /\ DOMAIN nodes[n].inputs = {1}
           /\ InputsFacts(n)[1] = Facts(nodes[n].inputs[1])
<1> DEFINE l == Len(nodes[n].inputs)
           fs == InputsFacts(n)
<1>1. NodeOK(n) /\ l \in 1 .. 2 /\ DOMAIN nodes[n].inputs = 1 .. l
  BY DEF GraphOK, NodeOK
<1>2. Len(fs) = 1
  BY <1>1 DEF NodeOK, OperationAccepted
<1>3. fs \in [1 .. l -> Range(fs)] /\ DOMAIN fs = 1 .. l
  BY <1>1 DEF InputsFacts, Range
<1> HIDE DEF fs, l
<1>4. Len(fs) = l
  BY <1>1, <1>3, FunctionSeq
<1>5. l = 1
  BY <1>2, <1>4
<1>6. DOMAIN nodes[n].inputs = {1}
  BY <1>1, <1>5
<1> QED
  BY <1>5, <1>6 DEF l, InputsFacts

LEMMA InputAccepted ==
    ASSUME GraphOK, NEW n \in DOMAIN nodes, NEW k \in DOMAIN nodes[n].inputs
    PROVE  FactsAccepted(Facts(nodes[n].inputs[k]))
<1> DEFINE v == nodes[n].inputs[k]
<1>1. Within(v, n - 1)
  BY DEF GraphOK, NodeOK
<1>2. CASE \E i \in DOMAIN inputs : v = InputRef(i)
  BY <1>2 DEF GraphOK, Facts, InputRef
<1>3. CASE ~\E i \in DOMAIN inputs : v = InputRef(i)
  <2>1. PICK m \in DOMAIN nodes : \E j \in DOMAIN nodes[m].outputs : v = NodeRef(m, j)
    BY <1>1, <1>3 DEF Within
  <2>2. PICK j \in DOMAIN nodes[m].outputs : v = NodeRef(m, j)
    BY <2>1
  <2>3. Facts(v) = nodes[m].outputs[j]
    BY <2>2 DEF Facts, NodeRef
  <2> QED
    BY <2>2, <2>3 DEF GraphOK, NodeOK
<1> QED
  BY <1>2, <1>3

\* A reshape and an identity permutation keep the bytes.
LEMMA StaticAliasBytes ==
    ASSUME GraphOK, NEW n \in DOMAIN nodes, StaticAlias(nodes[n], 1)
    PROVE  nodes[n].outputs[1].bytes = Facts(nodes[n].inputs[1]).bytes
<1> DEFINE op == nodes[n].op
           f == Facts(nodes[n].inputs[1])
<1>1. CASE op.kind = "reshape"
  <2>1. NodeOK(n) /\ InputsFacts(n)[1] = f /\ 1 \in DOMAIN nodes[n].inputs
    BY <1>1, OneInput DEF GraphOK
  <2>2. ReshapeAccepted(op, f) /\ nodes[n].outputs = InferReshape(op, f)
    BY <1>1, <2>1 DEF NodeOK, OperationAccepted, InferOutputs
  <2>3. FactsAccepted(f)
    BY <2>1, InputAccepted
  <2> HIDE DEF op, f
  <2>4. f.bytes = Product(f.storage) * Width(f.dtype) /\ f.storage = f.shape
    BY <2>2, <2>3 DEF FactsAccepted, ByteLen, ReshapeAccepted, CanonicalContiguous
  <2>5. nodes[n].outputs[1].bytes = Product(op.shape) * Width(f.dtype)
    BY <2>2 DEF InferReshape, ContiguousFacts, ByteLen
  <2>6. Product(op.shape) = Product(f.shape)
    BY <2>2 DEF ReshapeAccepted
  <2> QED
    BY <2>4, <2>5, <2>6 DEF f
<1>2. CASE op.kind # "reshape"
  BY <1>2 DEF StaticAlias
<1> QED
  BY <1>1, <1>2

\* A new buffer of node n.
NewBuffer(n, k, o) == o.origin = "fresh" /\ (o.view.owner = NodeRef(n, k) \/ o.view.owner = <<"dangling">>)

\* The view of the input again; for a preparation, of the planned length,
\* or as empty as the new buffer was.
SameBuffer(n, k, o) ==
    /\ k = 1 /\ o.origin = "alias"
    /\ o.view.owner = runtime[nodes[n].inputs[1]].owner
    /\ o.view.cells = runtime[nodes[n].inputs[1]].cells
    /\ \/ StaticAlias(nodes[n], 1)
       \/ /\ nodes[n].op.kind = "prepare"
          /\ \/ Len(o.view.cells) * Width(Facts(nodes[n].inputs[1]).dtype) = nodes[n].outputs[1].bytes
             \/ o.view.owner = NodeRef(n, 1)
             \/ o.view.cells = <<>>

LEMMA PreparedViews ==
    ASSUME NEW r, NEW owner, NEW x \in PrepareOutcomes(r, owner), x.kind = "ok"
    PROVE  \/ x.view = r.view /\ SourceBytes(r) = r.outputBytes
           \/ x.view.owner = owner
           \/ x.view.owner = <<"dangling">> /\ x.view.cells = <<>>
<1>0. r.implementation \in Registered
  <2>1. SUFFICES ASSUME r.implementation \notin Registered PROVE FALSE
    OBVIOUS
  <2>2. x = [kind |-> "unsupported"]
    BY <2>1 DEF PrepareOutcomes, PrepareError
  <2> QED
    BY <2>2
<1>1. PICK strategy \in Validate(r) : x \in StrategyOutcomes(r, strategy, owner)
  BY <1>0 DEF PrepareOutcomes
<1>2. ASSUME NEW kind, x = PrepareError(kind) PROVE kind = "ok"
  BY <1>2 DEF PrepareError
<1>3. CASE strategy.kind = "reuse"
  <2>1. x = IF ReuseAccepted(r) THEN Prepared(r.view) ELSE PrepareError("integrity")
    BY <1>1, <1>3 DEF StrategyOutcomes
  <2>2. ReuseAccepted(r) /\ x = Prepared(r.view)
    BY <1>2, <2>1
  <2> QED
    BY <2>2 DEF ReuseAccepted, Prepared
<1>4. CASE strategy.kind = "allocate"
  <2>1. x = PrepareError("integrity") \/ \E y \in PrepareAllocated(r, owner) : x = AllocatedOutcome(r, y)
    BY <1>1, <1>4 DEF StrategyOutcomes
  <2>2. PICK y \in PrepareAllocated(r, owner) : x = AllocatedOutcome(r, y)
    BY <1>2, <2>1
  <2>3. x = y
    BY <1>2, <2>2 DEF AllocatedOutcome
  <2>4. \E cells : x = Prepared(OwnedView(owner, cells))
    <3>1. CASE r.implementation = Builtin
      <4>1. y = ContiguousPrepare(r, owner)
        BY <2>2, <3>1 DEF PrepareAllocated
      <4>2. y # PrepareError("integrity")
        BY <1>2, <2>3
      <4> QED
        BY <2>3, <4>1, <4>2 DEF ContiguousPrepare
    <3>2. CASE r.implementation # Builtin
      <4>1. y \in PluginPrepare(r, owner)
        BY <2>2, <3>2 DEF PrepareAllocated
      <4>2. y # PrepareError("integrity")
        BY <1>2, <2>3
      <4> QED
        BY <2>3, <4>1, <4>2 DEF PluginPrepare
    <3> QED
      BY <3>1, <3>2
  <2>5. PICK cells : x = Prepared(OwnedView(owner, cells))
    BY <2>4
  <2> QED
    BY <2>5 DEF Prepared, OwnedView
<1>5. CASE strategy.kind \notin {"reuse", "allocate"}
  <2>1. x = PrepareError(strategy.kind)
    <3>1. StrategyOutcomes(r, strategy, owner) = {PrepareError(strategy.kind)}
      BY <1>5 DEF StrategyOutcomes
    <3> QED
      BY <1>1, <3>1
  <2>2. strategy.kind = "ok"
    BY <1>2, <2>1
  <2>3. strategy.kind # "ok"
    <3>1. CASE r.implementation = Builtin
      BY <1>1, <3>1 DEF Validate, ContiguousValidate
    <3>2. CASE r.implementation # Builtin
      BY <1>1, <3>2 DEF Validate, PluginValidate
    <3> QED
      BY <3>1, <3>2
  <2> QED
    BY <2>2, <2>3
<1> QED
  BY <1>3, <1>4, <1>5

LEMMA OutcomeViews ==
    ASSUME GraphOK, NEW n \in DOMAIN nodes, NEW outcome \in NodeOutcomes(n), outcome.kind = "ok",
           NEW k \in DOMAIN outcome.outs
    PROVE  NewBuffer(n, k, outcome.outs[k]) \/ SameBuffer(n, k, outcome.outs[k])
<1> DEFINE node == nodes[n]
           op == nodes[n].op
           fs == InputsFacts(n)
           views == InputViews(n)
<1>1. NodeOK(n) /\ op \in Operations /\ 1 \in DOMAIN nodes[n].inputs
  BY DEF GraphOK, NodeOK
<1>2. op.kind \in {"concat", "permute", "pad", "slice", "split", "reshape", "prepare"}
  BY <1>1, OperationsAssumption
<1>3. Range(nodes[n].inputs) \subseteq DOMAIN runtime
  BY OutcomeShape
<1>4. /\ op.kind = "concat" => outcome = ConcatOutcome(n, node, fs, views)
      /\ op.kind = "permute" => outcome = PermuteOutcome(n, node, fs, views)
      /\ op.kind = "pad" => outcome = PadOutcome(n, node, fs, views)
      /\ op.kind = "slice" => outcome = SliceOutcome(n, node, fs, views)
      /\ op.kind = "split" => outcome = SplitOutcome(n, node, fs, views)
      /\ op.kind = "reshape" => outcome = ReshapeOutcome(views)
      /\ op.kind = "prepare" => outcome \in PrepareNodeOutcomes(n, node, fs, views)
  BY <1>2, <1>3 DEF NodeOutcomes, InputsFacts, InputViews
<1>5. views[1] = runtime[nodes[n].inputs[1]] /\ fs[1] = Facts(nodes[n].inputs[1])
  BY <1>1 DEF InputViews, InputsFacts
<1>6. op.kind # "split" => Len(nodes[n].outputs) = 1
  BY <1>1, OutputsSeq DEF NodeOK
<1>7. op.kind # "concat" => Len(nodes[n].inputs) = 1
  BY OneInput
<1>8. ASSUME NEW j, NEW cells, NEW o, o = Fresh(n, j, cells) PROVE NewBuffer(n, j, o)
  BY <1>8 DEF Fresh, OwnedView, NewBuffer
<1> HIDE DEF fs, views
<1>9. CASE op.kind \in {"concat", "pad", "slice"}
  <2>1. PICK cells : outcome.outs = <<Fresh(n, 1, cells)>>
    BY <1>4, <1>9 DEF ConcatOutcome, PadOutcome, SliceOutcome, NodeDone
  <2> DEFINE o == Fresh(n, 1, cells)
  <2>2. NewBuffer(n, 1, o)
    BY <1>8
  <2> HIDE DEF o
  <2>3. k = 1 /\ outcome.outs[k] = o
    BY <2>1 DEF o
  <2> QED
    BY <2>2, <2>3
<1>10. CASE op.kind = "split"
  <2>1. PICK cells : outcome.outs[k] = Fresh(n, k, cells)
    BY <1>4, <1>10 DEF SplitOutcome, NodeDone
  <2> QED
    BY <1>8, <2>1
<1>11. ASSUME op.kind \in {"reshape", "permute"}, outcome.outs = <<Alias(views[1])>>, StaticAlias(nodes[n], 1)
       PROVE  SameBuffer(n, k, outcome.outs[k])
  <2>1. k = 1 /\ outcome.outs[k] = Alias(views[1])
    BY <1>11
  <2> QED
    BY <1>5, <1>11, <2>1 DEF Alias, SameBuffer
<1>12. CASE op.kind = "reshape"
  <2>1. outcome.outs = <<Alias(views[1])>>
    BY <1>4, <1>12 DEF ReshapeOutcome, NodeDone
  <2>2. StaticAlias(nodes[n], 1)
    BY <1>6, <1>7, <1>12 DEF StaticAlias
  <2> QED
    BY <1>11, <1>12, <2>1, <2>2
<1>13. CASE op.kind = "permute"
  <2>1. CASE IsIdentityOrder(op.order) /\ fs[1] = node.outputs[1]
    <3>1. outcome.outs = <<Alias(views[1])>>
      BY <1>4, <1>13, <2>1 DEF PermuteOutcome, NodeDone
    <3>2. StaticAlias(nodes[n], 1)
      BY <1>5, <1>6, <1>7, <1>13, <2>1 DEF StaticAlias
    <3> QED
      BY <1>11, <1>13, <3>1, <3>2
  <2>2. CASE ~(IsIdentityOrder(op.order) /\ fs[1] = node.outputs[1])
    <3>1. PICK cells : outcome.outs = <<Fresh(n, 1, cells)>>
      BY <1>4, <1>13, <2>2 DEF PermuteOutcome, NodeDone
    <3> DEFINE o == Fresh(n, 1, cells)
    <3>2. NewBuffer(n, 1, o)
      BY <1>8
    <3> HIDE DEF o
    <3>3. k = 1 /\ outcome.outs[k] = o
      BY <3>1 DEF o
    <3> QED
      BY <3>2, <3>3
  <2> QED
    BY <2>1, <2>2
<1>14. CASE op.kind = "prepare"
  <2> DEFINE r == PrepareRequest(op, fs[1], views[1])
  <2>1. PICK x \in PrepareOutcomes(r, NodeRef(n, 1)) : outcome = PreparedOutcome(n, op, views[1], x)
    BY <1>4, <1>14 DEF PrepareNodeOutcomes
  <2>2. x.kind = "ok"
    <3>1. SUFFICES ASSUME x.kind # "ok" PROVE FALSE
      OBVIOUS
    <3>2. outcome = [kind |-> x.kind]
      BY <2>1, <3>1 DEF PreparedOutcome
    <3> QED
      BY <3>1, <3>2
  <2>3. \/ x.view = r.view /\ SourceBytes(r) = r.outputBytes
        \/ x.view.owner = NodeRef(n, 1)
        \/ x.view.owner = <<"dangling">> /\ x.view.cells = <<>>
    BY <2>1, <2>2, PreparedViews
  <2>4. /\ r.view = views[1] /\ SourceBytes(r) = Len(views[1].cells) * Width(fs[1].dtype)
        /\ r.outputBytes = op.outputBytes
    BY DEF PrepareRequest, SourceBytes
  <2>5. nodes[n].outputs[1].bytes = op.outputBytes
    <3>1. PrepareAccepted(op, fs[1]) /\ nodes[n].outputs = InferPrepare(op, fs[1])
      BY <1>1, <1>14 DEF NodeOK, OperationAccepted, InferOutputs, fs
    <3> QED
      BY <3>1 DEF PrepareAccepted, InferPrepare, ContiguousFacts
  <2> HIDE DEF r
  <2>6. CASE SameView(x.view, views[1])
    <3>1. outcome.outs = <<Alias(x.view)>>
      BY <2>1, <2>2, <2>6 DEF PreparedOutcome, NodeDone
    <3>2. k = 1 /\ outcome.outs[k].view = x.view /\ outcome.outs[k].origin = "alias"
      BY <3>1 DEF Alias
    <3>3. x.view.owner = views[1].owner /\ x.view.cells = views[1].cells
      BY <2>6 DEF SameView
    <3> QED
      BY <1>5, <1>14, <2>3, <2>4, <2>5, <3>2, <3>3 DEF SameBuffer
  <2>7. CASE ~SameView(x.view, views[1])
    <3>1. outcome.outs = <<[view |-> x.view, origin |-> "fresh"]>>
      BY <2>1, <2>2, <2>7 DEF PreparedOutcome, NodeDone
    <3>2. k = 1 /\ outcome.outs[k].view = x.view /\ outcome.outs[k].origin = "fresh"
      BY <3>1
    <3>3. x.view # r.view
      BY <2>4, <2>7 DEF SameView
    <3> QED
      BY <2>3, <3>2, <3>3 DEF NewBuffer
  <2> QED
    BY <2>6, <2>7
<1> QED
  BY <1>2, <1>9, <1>10, <1>12, <1>13, <1>14

\* Where the values of a node's schedule come from.
Traced(s, t, n, origins) ==
    \A v \in DOMAIN t.values :
        \/ v \in DOMAIN s.values /\ v \notin Made(n) /\ t.values[v] = s.values[v]
        \/ \E k \in DOMAIN nodes[n].outputs :
              /\ v = NodeRef(n, k)
              /\ origins[k] = "fresh" => t.values[v] # 0
              /\ origins[k] # "fresh" => /\ nodes[n].inputs[1] \in DOMAIN s.values
                                         /\ t.values[v] = s.values[nodes[n].inputs[1]]

LEMMA RemovedTraced ==
    ASSUME NEW s, NEW r, NEW t, NEW n, NEW origins, Traced(s, r, n, origins), NEW v, IsRemoved(r, t, v)
    PROVE  Traced(s, t, n, origins)
<1>1. Shrinks(r.values, v, t.values)
  BY WithoutValues DEF IsRemoved
<1>2. \A w \in DOMAIN t.values : w \in DOMAIN r.values /\ t.values[w] = r.values[w]
  BY <1>1 DEF Shrinks
<1> QED
  BY <1>2 DEF Traced

LEMMA CallTraced ==
    ASSUME NEW n, SizesFit(n), NEW s, nodes[n].inputs[1] \notin Made(n),
           NEW r, Exact(r), r.err = "none", NEW origins, Traced(s, r, n, origins), NEW x \in Nat,
           NEW c \in 1 .. ScheduleCalls(nodes[n]),
           NEW t, t = ScheduleCall(r, n, origins, x, c), t.err = "none"
    PROVE  Traced(s, t, n, origins)
<1> DEFINE outs == Len(nodes[n].outputs)
           ins == Len(nodes[n].inputs)
<1>1. outs \in Nat /\ ins \in Nat /\ c \in 1 .. 2 * outs + ins + 1
  BY DEF SizesFit, ScheduleCalls
<1> HIDE DEF outs, ins
<1>2. CASE c <= outs
  <2> DEFINE v == NodeRef(n, c)
             o == origins[c]
             u == nodes[n].inputs[1]
  <2>1. c \in DOMAIN nodes[n].outputs /\ nodes[n].outputs[c].bytes \in 0 .. MaxWord
    BY <1>1, <1>2 DEF SizesFit, outs
  <2>2. t = Produce(r, nodes[n], v, nodes[n].outputs[c], o)
    BY <1>2 DEF ScheduleCall, outs
  <2>3. /\ o = "fresh" => IsFresh(r, t, v, nodes[n].outputs[c].bytes)
        /\ o # "fresh" => u \in DOMAIN r.values /\ IsShared(r, t, v, r.values[u])
    BY <2>1, <2>2, ProduceEffect
  <2>4. Len(r.allocs) \in Nat
    BY ValueRange
  <2>5. u \in DOMAIN r.values => u \in DOMAIN s.values /\ r.values[u] = s.values[u]
    <3>1. ASSUME NEW k \in DOMAIN nodes[n].outputs, u = NodeRef(n, k) PROVE FALSE
      BY <3>1 DEF Made
    <3> QED
      BY <3>1 DEF Traced
  <2> HIDE DEF v, o, u
  <2>6. PICK y : /\ v \notin DOMAIN r.values /\ t.values = Extended(r.values, v, y)
                 /\ o = "fresh" => y # 0
                 /\ o # "fresh" => u \in DOMAIN s.values /\ y = s.values[u]
    <3>1. CASE o = "fresh"
      BY <2>3, <2>4, <3>1 DEF IsFresh
    <3>2. CASE o # "fresh"
      BY <2>3, <2>5, <3>2 DEF IsShared
    <3> QED
      BY <3>1, <3>2
  <2>7. Extends(r.values, v, y, t.values)
    BY <2>6, ExtendedValues
  <2>8. SUFFICES ASSUME NEW w \in DOMAIN t.values
                 PROVE  \/ w \in DOMAIN s.values /\ w \notin Made(n) /\ t.values[w] = s.values[w]
                        \/ \E k \in DOMAIN nodes[n].outputs :
                              /\ w = NodeRef(n, k)
                              /\ origins[k] = "fresh" => t.values[w] # 0
                              /\ origins[k] # "fresh" => u \in DOMAIN s.values /\ t.values[w] = s.values[u]
    BY DEF Traced, u
  <2>9. CASE w = v
    <3>1. t.values[w] = y
      BY <2>7, <2>9 DEF Extends
    <3>2. w = NodeRef(n, c) /\ o = origins[c]
      BY <2>9 DEF v, o
    <3> QED
      BY <2>1, <2>6, <3>1, <3>2
  <2>10. CASE w # v
    <3>1. w \in DOMAIN r.values /\ t.values[w] = r.values[w]
      BY <2>7, <2>10 DEF Extends
    <3> QED
      BY <3>1 DEF Traced, u
  <2> QED
    BY <2>9, <2>10
<1>3. CASE c = outs + 1
  <2>1. t = ObserveTransient(r, x)
    BY <1>1, <1>3 DEF ScheduleCall, outs
  <2>2. t.values = r.values
    BY <2>1, ObserveEffect DEF SameValues
  <2> QED
    BY <2>2 DEF Traced
<1>4. CASE c > outs + 1 /\ c <= outs + 1 + ins
  <2>1. PICK v : t = ConsumeValue(r, v)
    BY <1>1, <1>4 DEF ScheduleCall, outs, ins
  <2>2. IsRemoved(r, t, v) \/ t.values = r.values
    BY <2>1, ConsumeEffect DEF SameValues
  <2>3. CASE t.values = r.values
    BY <2>3 DEF Traced
  <2> QED
    BY <2>2, <2>3, RemovedTraced
<1>5. CASE c > outs + 1 + ins
  <2> DEFINE v == NodeRef(n, c - outs - 1 - ins)
  <2>0. ~(c <= outs) /\ ~(c = outs + 1) /\ ~(c <= outs + 1 + ins)
    BY <1>1, <1>5
  <2>1. t = RemoveUnused(r, v)
    BY <2>0 DEF ScheduleCall, outs, ins
  <2> HIDE DEF v
  <2>2. IsRemoved(r, t, v) \/ t = r
    BY <2>1, UnusedEffect
  <2> QED
    BY <2>2, RemovedTraced
<1> QED
  BY <1>1, <1>2, <1>3, <1>4, <1>5

LEMMA NodeTraced ==
    ASSUME NEW n, SizesFit(n), NEW s, Exact(s), nodes[n].inputs[1] \notin Made(n),
           DOMAIN s.values \cap Made(n) = {}, NEW origins, NEW x \in Nat,
           NEW t, Scheduled(s, t, n, origins, x)
    PROVE  Traced(s, t, n, origins)
<1> DEFINE last == ScheduleCalls(nodes[n])
<1>1. PICK f : /\ f[0] = s /\ f[last] = t
               /\ \A c \in 0 .. last : f[c].err = "none"
               /\ \A c \in 1 .. last : f[c] = ScheduleCall(f[c - 1], n, origins, x, c)
  BY DEF Scheduled
<1>2. last \in Nat
  BY CallsCounted
<1> DEFINE Good(c) == Exact(f[c]) /\ Traced(s, f[c], n, origins)
           T == {c \in Nat : c <= last /\ ~Good(c)}
<1>3. ASSUME NEW c \in 1 .. last, Good(c - 1) PROVE Good(c)
  <2>1. f[c - 1].err = "none" /\ f[c].err = "none" /\ f[c] = ScheduleCall(f[c - 1], n, origins, x, c)
    BY <1>1, <1>2
  <2>2. Exact(f[c])
    BY <1>3, <2>1, CallExact
  <2>3. Traced(s, f[c], n, origins)
    BY <1>3, <2>1, CallTraced
  <2> QED
    BY <2>2, <2>3
<1>4. Good(0)
  BY <1>1 DEF Traced
<1> HIDE DEF Good, last
<1>5. T = {}
  <2>1. SUFFICES ASSUME T # {} PROVE FALSE
    OBVIOUS
  <2>2. PICK c \in T : \A d \in T : c <= d
    BY <2>1, LeastNumber
  <2>3. c # 0 /\ c \in 1 .. last /\ c - 1 \in Nat /\ c - 1 \notin T
    BY <1>2, <1>4, <2>2
  <2>4. Good(c - 1)
    BY <1>2, <2>3
  <2> QED
    BY <1>3, <2>2, <2>3, <2>4
<1>6. Good(last)
  BY <1>2, <1>5
<1> QED
  BY <1>1, <1>6 DEF Good

-----------------------------------------------------------------------------
(* The views of an execution *)

FactFields == {"shape", "storage", "logicalStrides", "strides", "dtype", "layout", "bytes"}

\* Facts as TensorFacts has them, with a dtype of a known width.
IsFacts(f) == f = [x \in FactFields |-> f[x]] /\ f.dtype \in DTypes

LEMMA ContiguousIsFacts ==
    ASSUME NEW shape, NEW dtype \in DTypes
    PROVE  IsFacts(ContiguousFacts(shape, dtype))
<1> DEFINE f == ContiguousFacts(shape, dtype)
<1>1. f.dtype = dtype
  BY DEF ContiguousFacts
<1>2. f = [x \in FactFields |-> f[x]]
  BY DEF ContiguousFacts, FactFields
<1> QED
  BY <1>1, <1>2 DEF IsFacts

LEMMA StorageIsFacts ==
    ASSUME NEW f, IsFacts(f), NEW order, NEW storage, NEW layout
    PROVE  IsFacts(StorageFacts(f, order, storage, layout))
<1> DEFINE g == StorageFacts(f, order, storage, layout)
<1>1. PICK s, b : g = [f EXCEPT !.storage = storage, !.strides = s, !.layout = layout, !.bytes = b]
  BY DEF StorageFacts
<1> HIDE DEF g
<1>2. g = [x \in FactFields |-> g[x]] /\ g.dtype = f.dtype
  BY <1>1 DEF IsFacts, FactFields
<1> QED
  BY <1>2 DEF IsFacts, g

LEMMA InferredIsFacts ==
    ASSUME NEW op \in Operations, NEW fs, IsFacts(fs[1]), NEW k \in DOMAIN InferOutputs(op, fs)
    PROVE  IsFacts(InferOutputs(op, fs)[k])
<1> DEFINE f == fs[1]
<1>1. op.kind \in {"concat", "permute", "pad", "slice", "split", "reshape", "prepare"}
  BY OperationsAssumption
<1>2. f.dtype \in DTypes /\ IsFacts(f)
  BY DEF IsFacts
<1>3. op.kind = "prepare" => op.target.dtype \in DTypes
  BY OperationsAssumption
<1>4. ASSUME NEW e, InferOutputs(op, fs) = <<e>>, IsFacts(e) PROVE IsFacts(InferOutputs(op, fs)[k])
  BY <1>4
<1> HIDE DEF f
<1>5. CASE op.kind = "split"
  <2>1. PICK shape : InferOutputs(op, fs)[k] = ContiguousFacts(shape, f.dtype)
    BY <1>5 DEF InferOutputs, InferSplit, f
  <2> QED
    BY <1>2, <2>1, ContiguousIsFacts
<1>6. CASE op.kind \in {"concat", "slice", "reshape", "prepare"} \/ (op.kind = "permute" /\ op.mode = "logical")
  <2>1. \E dtype \in DTypes : \E shape : InferOutputs(op, fs) = <<ContiguousFacts(shape, dtype)>>
    <3>1. CASE op.kind = "concat"
      BY <1>2, <3>1 DEF InferOutputs, InferConcat, f
    <3>2. CASE op.kind = "slice"
      BY <1>2, <3>2 DEF InferOutputs, InferSlice, f
    <3>3. CASE op.kind = "reshape"
      BY <1>2, <3>3 DEF InferOutputs, InferReshape, f
    <3>4. CASE op.kind = "prepare"
      BY <1>3, <3>4 DEF InferOutputs, InferPrepare, f
    <3>5. CASE op.kind = "permute" /\ op.mode = "logical"
      BY <1>2, <3>5 DEF InferOutputs, InferPermute, f
    <3> QED
      BY <1>6, <3>1, <3>2, <3>3, <3>4, <3>5
  <2>2. PICK dtype \in DTypes : \E shape : InferOutputs(op, fs) = <<ContiguousFacts(shape, dtype)>>
    BY <2>1
  <2>3. PICK shape : InferOutputs(op, fs) = <<ContiguousFacts(shape, dtype)>>
    BY <2>2
  <2> QED
    BY <1>4, <2>3, ContiguousIsFacts
<1>7. CASE op.kind = "pad" \/ (op.kind = "permute" /\ op.mode # "logical")
  <2>1. PICK storage : InferOutputs(op, fs) = <<StorageFacts(f, op.order, storage, op.layout)>>
    BY <1>7 DEF InferOutputs, InferPad, InferPermute, f
  <2> QED
    BY <1>2, <1>4, <2>1, StorageIsFacts
<1> QED
  BY <1>1, <1>5, <1>6, <1>7

\* The facts of every value are facts.
LEMMA ValuesFacts ==
    ASSUME GraphOK, NEW v, NEW n, Within(v, n)
    PROVE  IsFacts(Facts(v))
<1>1. ASSUME NEW i \in DOMAIN inputs PROVE IsFacts(inputs[i])
  <2>1. inputs[i] \in InputFacts
    BY DEF GraphOK
  <2>2. inputs[i] \in [shape : Seq(Nat), storage : Seq(Nat), logicalStrides : Seq(Nat),
                       strides : Seq(Nat), dtype : DTypes, layout : STRING, bytes : Nat]
    BY <2>1, InputFactsAssumption
  <2> QED
    BY <2>2 DEF IsFacts, FactFields
<1> DEFINE Good(m) == \A k \in DOMAIN nodes[m].outputs : IsFacts(nodes[m].outputs[k])
           T == {m \in Nat : m \in DOMAIN nodes /\ ~Good(m)}
<1>2. T = {}
  <2>1. SUFFICES ASSUME T # {} PROVE FALSE
    OBVIOUS
  <2>2. PICK m \in T : \A d \in T : m <= d
    BY <2>1, LeastNumber
  <2>3. NodeOK(m) /\ 1 \in DOMAIN nodes[m].inputs /\ m \in DOMAIN nodes
    BY <2>2 DEF GraphOK, NodeOK
  <2> DEFINE u == nodes[m].inputs[1]
  <2>4. Within(u, m - 1)
    BY <2>3 DEF NodeOK
  <2>5. IsFacts(Facts(u))
    <3>1. CASE \E i \in DOMAIN inputs : u = InputRef(i)
      BY <1>1, <3>1 DEF Facts, InputRef
    <3>2. CASE ~\E i \in DOMAIN inputs : u = InputRef(i)
      <4>1. PICK j \in 1 .. m - 1 : j \in DOMAIN nodes /\ \E k \in DOMAIN nodes[j].outputs : u = NodeRef(j, k)
        BY <2>4, <3>2 DEF Within
      <4>2. PICK k \in DOMAIN nodes[j].outputs : u = NodeRef(j, k)
        BY <4>1
      <4>3. j \notin T /\ j \in Nat
        BY <2>2, <4>1
      <4>4. Facts(u) = nodes[j].outputs[k]
        BY <4>2 DEF Facts, NodeRef
      <4> QED
        BY <4>1, <4>2, <4>3, <4>4
    <3> QED
      BY <3>1, <3>2
  <2>6. InputsFacts(m)[1] = Facts(u)
    BY <2>3 DEF InputsFacts
  <2>7. ASSUME NEW k \in DOMAIN nodes[m].outputs PROVE IsFacts(nodes[m].outputs[k])
    <3>1. nodes[m].outputs = InferOutputs(nodes[m].op, InputsFacts(m)) /\ nodes[m].op \in Operations
      BY <2>3 DEF NodeOK
    <3> QED
      BY <2>5, <2>6, <3>1, InferredIsFacts
  <2> QED
    BY <2>2, <2>7
<1>3. CASE \E i \in DOMAIN inputs : v = InputRef(i)
  BY <1>1, <1>3 DEF Facts, InputRef
<1>4. CASE ~\E i \in DOMAIN inputs : v = InputRef(i)
  <2>1. PICK m \in 1 .. n : m \in DOMAIN nodes /\ \E k \in DOMAIN nodes[m].outputs : v = NodeRef(m, k)
    BY <1>4 DEF Within
  <2>2. PICK k \in DOMAIN nodes[m].outputs : v = NodeRef(m, k)
    BY <2>1
  <2>3. Facts(v) = nodes[m].outputs[k] /\ m \in Nat /\ m \notin T
    BY <1>2, <2>1, <2>2 DEF Facts, NodeRef
  <2> QED
    BY <2>1, <2>2, <2>3
<1> QED
  BY <1>3, <1>4

LEMMA Widths ==
    ASSUME NEW dtype \in DTypes
    PROVE  Width(dtype) \in {1, 2, 4}
  BY DEF Width, DTypes

\* A live value belongs to the nodes that ran, its view has the bytes of its
\* facts and is no later node's, and without an allocation it is an input's.
ViewHolds(v) ==
    /\ Within(v, next - 1)
    /\ Len(runtime[v].cells) * Width(Facts(v).dtype) = Facts(v).bytes
    /\ \A m, k : runtime[v].owner = NodeRef(m, k) => m \in 1 .. next - 1
    /\ sched.values[v] = 0 => runtime[v].owner[1] = "in"

Viewed == phase = "running" => \A v \in DOMAIN runtime : ViewHolds(v)

\* Under those, a node's alias has the bytes of its input.
LEMMA AliasBytes ==
    ASSUME Inv, Viewed, phase = "running", next \in DOMAIN nodes, NEW outcome, NodeRan(outcome),
           NEW k \in DOMAIN outcome.outs, SameBuffer(next, k, outcome.outs[k])
    PROVE  nodes[next].outputs[1].bytes = Facts(nodes[next].inputs[1]).bytes
<1> DEFINE o == outcome.outs[k]
           u == nodes[next].inputs[1]
           out == nodes[next].outputs[1]
<1>1. GraphOK /\ next \in Nat
  BY DEF Inv, Accounted
<1>2. CASE StaticAlias(nodes[next], 1)
  BY <1>1, <1>2, StaticAliasBytes
<1>3. CASE ~StaticAlias(nodes[next], 1)
  <2>1. /\ k = 1 /\ o.view.owner = runtime[u].owner /\ o.view.cells = runtime[u].cells
        /\ \/ Len(o.view.cells) * Width(Facts(u).dtype) = out.bytes
           \/ o.view.owner = NodeRef(next, 1)
           \/ o.view.cells = <<>>
    BY <1>3 DEF SameBuffer
  <2>2. u \in DOMAIN runtime /\ Within(u, next - 1) /\ 1 \in DOMAIN nodes[next].outputs
    <3>1. Range(nodes[next].inputs) \subseteq DOMAIN runtime /\ DOMAIN outcome.outs = DOMAIN nodes[next].outputs
      BY RanOutputs
    <3>2. 1 \in DOMAIN nodes[next].inputs /\ Within(u, next - 1)
      BY <1>1 DEF GraphOK, NodeOK
    <3> QED
      BY <2>1, <3>1, <3>2 DEF Range
  <2>3. /\ Len(runtime[u].cells) * Width(Facts(u).dtype) = Facts(u).bytes
        /\ \A m, j : runtime[u].owner = NodeRef(m, j) => m \in 1 .. next - 1
    BY <2>2 DEF Viewed, ViewHolds
  <2>4. Len(o.view.cells) * Width(out.dtype) = out.bytes
    BY <2>1 DEF NodeRan, OutputLengthsHold
  <2>5. Width(out.dtype) \in {1, 2, 4} /\ Width(Facts(u).dtype) \in {1, 2, 4}
    <3> DEFINE w == NodeRef(next, 1)
    <3>1. next \in 1 .. next
      BY <1>1, SeqShape DEF GraphOK
    <3>2. Within(w, next)
      BY <2>2, <3>1 DEF Within
    <3>3. Facts(w) = out
      BY DEF Facts, NodeRef
    <3> HIDE DEF w
    <3>4. IsFacts(Facts(w)) /\ IsFacts(Facts(u))
      BY <1>1, <2>2, <3>2, ValuesFacts
    <3> QED
      BY <3>3, <3>4, Widths DEF IsFacts
  <2> HIDE DEF o, u, out
  <2>6. CASE o.view.cells = <<>>
    <3>1. Len(o.view.cells) = 0
      BY <2>6
    <3> QED
      BY <2>1, <2>3, <2>4, <2>5, <3>1 DEF u, out
  <2>7. CASE o.view.owner = NodeRef(next, 1)
    <3>1. next \in 1 .. next - 1
      BY <2>1, <2>3, <2>7
    <3> QED
      BY <1>1, <3>1
  <2>8. CASE Len(o.view.cells) * Width(Facts(u).dtype) = out.bytes
    BY <2>1, <2>3, <2>8 DEF u, out
  <2> QED
    BY <2>1, <2>6, <2>7, <2>8
<1> QED
  BY <1>2, <1>3

\* What a node that ran leaves in the schedule and of the views.
LEMMA RanValues ==
    ASSUME Inv, Viewed, phase = "running", next \in DOMAIN nodes, NEW outcome, NodeRan(outcome),
           NEW origins, origins = [k \in DOMAIN outcome.outs |-> outcome.outs[k].origin]
    PROVE  /\ Scheduled(sched, sched', next, origins, outcome.transient)
           /\ Traced(sched, sched', next, origins)
           /\ \A v \in DOMAIN runtime' :
                 /\ v \in DOMAIN runtime \cup Made(next) /\ v \in DOMAIN sched'.values
                 /\ v \in Made(next) => runtime'[v] = outcome.outs[v[3]].view
                 /\ v \notin Made(next) => runtime'[v] = runtime[v]
<1>1. /\ SizesFit(next) /\ outcome.transient \in Nat
      /\ {NodeRef(next, k) : k \in DOMAIN outcome.outs} = Made(next)
  BY RanOutputs
<1>2. GraphOK /\ next \in Nat /\ Exact(sched) /\ DOMAIN runtime = DOMAIN sched.values
  BY DEF Inv, Accounted
<1> DEFINE s == ScheduleNode(sched, next, origins, outcome.transient)
           made == Made(next)
           views == [v \in DOMAIN runtime \cup made |->
                        IF v \in made THEN outcome.outs[v[3]].view ELSE runtime[v]]
<1>3. s.err = "none" /\ sched' = s /\ runtime' = StillLive(views, s)
  BY <1>1 DEF NodeRan
<1>4. Scheduled(sched, sched', next, origins, outcome.transient)
  BY <1>1, <1>3, NodeScheduled
<1>5. ASSUME NEW v, Within(v, next - 1) PROVE v \notin Made(next)
  <2>1. SUFFICES ASSUME NEW k, v = NodeRef(next, k) PROVE FALSE
    BY DEF Made
  <2>2. PICK m \in 1 .. next - 1 : \E j : v = NodeRef(m, j)
    BY <1>5, <2>1 DEF Within, InputRef, NodeRef
  <2>3. m = next
    BY <2>1, <2>2 DEF NodeRef
  <2> QED
    BY <1>2, <2>2, <2>3
<1>6. nodes[next].inputs[1] \notin Made(next)
  <2>1. Within(nodes[next].inputs[1], next - 1)
    BY <1>2 DEF GraphOK, NodeOK
  <2> QED
    BY <1>5, <2>1
<1>7. DOMAIN sched.values \cap Made(next) = {}
  BY <1>2, <1>5 DEF Viewed, ViewHolds
<1>8. Traced(sched, sched', next, origins)
  BY <1>1, <1>2, <1>4, <1>6, <1>7, NodeTraced
<1> HIDE DEF s
<1>9. ASSUME NEW v \in DOMAIN runtime'
      PROVE  /\ v \in DOMAIN runtime \cup made /\ v \in DOMAIN sched'.values
             /\ runtime'[v] = IF v \in made THEN outcome.outs[v[3]].view ELSE runtime[v]
  BY <1>3 DEF StillLive, Restrict
<1> QED
  BY <1>4, <1>8, <1>9

LEMMA RanViewed ==
    ASSUME Inv, Viewed, phase = "running", next \in DOMAIN nodes, NEW outcome, NodeRan(outcome)
    PROVE  Viewed'
<1> DEFINE origins == [k \in DOMAIN outcome.outs |-> outcome.outs[k].origin]
<1>1. UNCHANGED <<inputs, nodes>> /\ next' = next + 1 /\ next \in Nat /\ GraphOK
  BY DEF NodeRan, Inv, Accounted
<1>2. /\ Traced(sched, sched', next, origins)
      /\ \A v \in DOMAIN runtime' :
            /\ v \in DOMAIN runtime \cup Made(next) /\ v \in DOMAIN sched'.values
            /\ v \in Made(next) => runtime'[v] = outcome.outs[v[3]].view
            /\ v \notin Made(next) => runtime'[v] = runtime[v]
  BY RanValues
<1>3. \A v : Facts(v)' = Facts(v)
  BY <1>1 DEF Facts
<1>4. DOMAIN outcome.outs = DOMAIN nodes[next].outputs /\ Range(nodes[next].inputs) \subseteq DOMAIN runtime
  BY RanOutputs
<1>5. \A k \in DOMAIN outcome.outs : origins[k] = outcome.outs[k].origin
  OBVIOUS
<1> HIDE DEF origins
<1>6. SUFFICES ASSUME NEW v \in DOMAIN runtime'
               PROVE  /\ Within(v, next)
                      /\ Len(runtime'[v].cells) * Width(Facts(v).dtype) = Facts(v).bytes
                      /\ \A m, k : runtime'[v].owner = NodeRef(m, k) => m \in 1 .. next
                      /\ sched'.values[v] = 0 => runtime'[v].owner[1] = "in"
  <2>1. (next - 1)' = next
    BY <1>1
  <2>2. \A v \in DOMAIN runtime' : Within(v, next) => Within(v, next - 1)'
    BY <1>1, <2>1 DEF Within
  <2> QED
    BY <1>1, <1>3, <2>1, <2>2 DEF Viewed, ViewHolds
<1>7. CASE v \notin Made(next)
  <2>1. v \in DOMAIN runtime /\ runtime'[v] = runtime[v]
    BY <1>2, <1>7
  <2>2. v \in DOMAIN sched'.values /\ sched'.values[v] = sched.values[v]
    BY <1>2, <1>7 DEF Traced, Made
  <2>3. ViewHolds(v)
    BY <2>1 DEF Viewed
  <2>4. Within(v, next)
    <3>1. CASE \E i \in DOMAIN inputs : v = InputRef(i)
      BY <3>1 DEF Within
    <3>2. CASE ~\E i \in DOMAIN inputs : v = InputRef(i)
      <4>1. PICK m \in 1 .. next - 1 : m \in DOMAIN nodes /\ \E k \in DOMAIN nodes[m].outputs : v = NodeRef(m, k)
        BY <2>3, <3>2 DEF ViewHolds, Within
      <4>2. m \in 1 .. next
        BY <1>1
      <4> QED
        BY <4>1, <4>2 DEF Within
    <3> QED
      BY <3>1, <3>2
  <2>5. ASSUME NEW m, NEW k, runtime[v].owner = NodeRef(m, k) PROVE m \in 1 .. next
    <3>1. m \in 1 .. next - 1
      BY <2>3, <2>5 DEF ViewHolds
    <3> QED
      BY <1>1, <3>1
  <2> QED
    BY <2>1, <2>2, <2>3, <2>4, <2>5 DEF ViewHolds
<1>8. CASE v \in Made(next)
  <2>1. PICK k \in DOMAIN nodes[next].outputs : v = NodeRef(next, k)
    BY <1>8 DEF Made
  <2> DEFINE o == outcome.outs[k]
             u == nodes[next].inputs[1]
  <2>2. runtime'[v] = o.view /\ k \in DOMAIN outcome.outs
    BY <1>2, <1>4, <1>8, <2>1 DEF NodeRef
  <2>3. next \in 1 .. next
    BY <1>1, SeqShape DEF GraphOK
  <2>4. Within(v, next)
    BY <2>1, <2>3 DEF Within
  <2>5. Facts(v) = nodes[next].outputs[k]
    BY <2>1 DEF Facts, NodeRef
  <2>6. Len(o.view.cells) * Width(Facts(v).dtype) = Facts(v).bytes
    BY <2>2, <2>5 DEF NodeRan, OutputLengthsHold
  <2>7. NewBuffer(next, k, o) \/ SameBuffer(next, k, o)
    BY <1>1, <2>2, OutcomeViews DEF NodeRan
  <2>8. /\ origins[k] = "fresh" => sched'.values[v] # 0
        /\ origins[k] # "fresh" => u \in DOMAIN sched.values /\ sched'.values[v] = sched.values[u]
    <3>1. v \in DOMAIN sched'.values
      BY <1>2
    <3>2. PICK j \in DOMAIN nodes[next].outputs :
              /\ v = NodeRef(next, j)
              /\ origins[j] = "fresh" => sched'.values[v] # 0
              /\ origins[j] # "fresh" => u \in DOMAIN sched.values /\ sched'.values[v] = sched.values[u]
      BY <1>2, <1>8, <3>1 DEF Traced
    <3>3. j = k
      BY <2>1, <3>2 DEF NodeRef
    <3> QED
      BY <3>2, <3>3
  <2>9. origins[k] = o.origin
    BY <1>5, <2>2
  <2> HIDE DEF o
  <2>10. CASE NewBuffer(next, k, o)
    <3>1. sched'.values[v] # 0
      BY <2>8, <2>9, <2>10 DEF NewBuffer
    <3>2. ASSUME NEW m, NEW j, o.view.owner = NodeRef(m, j) PROVE m \in 1 .. next
      <4>1. o.view.owner = NodeRef(next, k)
        BY <2>10, <3>2 DEF NewBuffer, NodeRef
      <4>2. m = next
        BY <3>2, <4>1 DEF NodeRef
      <4> QED
        BY <2>3, <4>2
    <3> QED
      BY <2>2, <2>4, <2>6, <3>1, <3>2
  <2>11. CASE SameBuffer(next, k, o)
    <3>1. o.view.owner = runtime[u].owner /\ u \in DOMAIN sched.values /\ sched'.values[v] = sched.values[u]
      BY <2>8, <2>9, <2>11 DEF SameBuffer
    <3>2. ViewHolds(u)
      <4>1. u \in DOMAIN runtime
        BY <3>1 DEF Inv, Accounted
      <4> QED
        BY <4>1 DEF Viewed
    <3>3. ASSUME NEW m, NEW j, o.view.owner = NodeRef(m, j) PROVE m \in 1 .. next
      <4>1. m \in 1 .. next - 1
        BY <3>1, <3>2, <3>3 DEF ViewHolds
      <4> QED
        BY <1>1, <4>1
    <3>4. sched'.values[v] = 0 => o.view.owner[1] = "in"
      BY <3>1, <3>2 DEF ViewHolds
    <3> QED
      BY <2>2, <2>4, <2>6, <3>3, <3>4
  <2> QED
    BY <2>7, <2>10, <2>11
<1> QED
  BY <1>7, <1>8

\* The estimate took origins that the execution can only improve on.
LEMMA RanCompatible ==
    ASSUME Inv, Viewed, phase = "running", next \in DOMAIN nodes, NEW outcome, NodeRan(outcome),
           NEW origins, origins = [k \in DOMAIN outcome.outs |-> outcome.outs[k].origin]
    PROVE  Compatible(next, origins, StaticOrigins(nodes[next]))
<1>1. GraphOK /\ outcome \in NodeOutcomes(next) /\ outcome.kind = "ok"
  BY DEF Inv, NodeRan
<1>2. DOMAIN outcome.outs = DOMAIN nodes[next].outputs
  BY RanOutputs
<1>3. ASSUME NEW k \in DOMAIN nodes[next].outputs, StaticOrigins(nodes[next])[k] # "fresh"
      PROVE  origins[k] # "fresh"
  <2>1. StaticAlias(nodes[next], k)
    BY <1>3 DEF StaticOrigins
  <2>2. k = 1
    BY <2>1 DEF StaticAlias
  <2>3. outcome.outs = <<Alias(runtime[nodes[next].inputs[1]])>>
    BY <1>1, <2>1, <2>2, AliasReturned
  <2>4. outcome.outs[1].origin = "alias"
    BY <2>3 DEF Alias
  <2> QED
    BY <1>2, <2>2, <2>4
<1>4. ASSUME NEW k \in DOMAIN nodes[next].outputs, origins[k] # "fresh"
      PROVE  nodes[next].outputs[k].bytes = Facts(nodes[next].inputs[1]).bytes
  <2>1. k \in DOMAIN outcome.outs /\ outcome.outs[k].origin # "fresh"
    BY <1>2, <1>4
  <2>2. NewBuffer(next, k, outcome.outs[k]) \/ SameBuffer(next, k, outcome.outs[k])
    BY <1>1, <2>1, OutcomeViews
  <2>3. SameBuffer(next, k, outcome.outs[k])
    BY <2>1, <2>2 DEF NewBuffer
  <2>4. k = 1
    BY <2>3 DEF SameBuffer
  <2> QED
    BY <2>1, <2>3, <2>4, AliasBytes
<1> QED
  BY <1>3, <1>4 DEF Compatible

\* The number of elements of accepted facts.
LEMMA ElementCount ==
    ASSUME NEW f, f.storage \in Seq(Nat), FactsAccepted(f)
    PROVE  Product(f.storage) \in Nat /\ f.bytes = Product(f.storage) * Width(f.dtype)
<1> DEFINE q == f.storage
<1>1. Len(q) \in 0 .. Len(q) /\ Len(q) \in Nat
  BY LenProperties
<1>2. Product(SubSeq(q, 1, Len(q))) \in 0 .. MaxWord
  BY <1>1 DEF FactsAccepted, CountFits
<1>3. SubSeq(q, 1, Len(q)) = q
  OBVIOUS
<1>4. Product(q) \in 0 .. MaxWord
  BY <1>2, <1>3
<1>5. Product(q) \in Nat
  BY <1>4, MaxWordAssumption
<1> QED
  BY <1>5 DEF FactsAccepted, ByteLen

LEMMA InputLength ==
    ASSUME GraphOK, NEW i \in DOMAIN inputs, NEW m, m = Product(inputs[i].storage)
    PROVE  /\ m \in Nat
           /\ Len(InputView(i, m).cells) * Width(inputs[i].dtype) = inputs[i].bytes
<1>1. inputs[i].storage \in Seq(Nat) /\ FactsAccepted(inputs[i])
  BY InputFactsAssumption DEF GraphOK
<1>2. m \in Nat /\ inputs[i].bytes = m * Width(inputs[i].dtype)
  BY <1>1, ElementCount
<1>3. Len(InputView(i, m).cells) = m
  BY <1>2 DEF InputView
<1> QED
  BY <1>2, <1>3

LEMMA StartViewed ==
    ASSUME Inv, Start, phase' = "running"
    PROVE  Viewed'
<1>1. PICK short \in {0} \cup DOMAIN inputs :
          LET Elements(i) == Product(inputs[i].storage) - (IF i = short THEN 1 ELSE 0)
          IN  IF short # 0
              THEN Return([kind |-> "length"])
              ELSE /\ phase' = "running"
                   /\ sched' = NewSchedule(output)
                   /\ runtime' = [v \in {InputRef(i) : i \in DOMAIN inputs} |->
                                    InputView(v[2], Elements(v[2]))]
                   /\ next' = 1
                   /\ UNCHANGED result
  BY DEF Start
<1>2. short = 0
  BY <1>1 DEF Return
<1>3. UNCHANGED <<inputs, nodes>> /\ next' = 1 /\ GraphOK
  BY <1>1, <1>2 DEF Start, Inv
<1>4. ASSUME NEW i \in DOMAIN inputs PROVE i # 0 /\ i \in Nat
  BY SeqShape DEF Inv, GraphOK
<1>5. DOMAIN runtime' = InputRefs
  BY <1>1, <1>2 DEF InputRefs
<1>6. ASSUME NEW i \in DOMAIN inputs
      PROVE  runtime'[InputRef(i)] = InputView(i, Product(inputs[i].storage))
  <2>1. InputRef(i) \in InputRefs /\ InputRef(i)[2] = i /\ i # short
    BY <1>2, <1>4 DEF InputRefs, InputRef
  <2>2. runtime'[InputRef(i)] = InputView(i, Product(inputs[i].storage) - 0)
    BY <1>1, <1>2, <2>1 DEF InputRefs
  <2>3. Product(inputs[i].storage) \in Nat
    BY <1>3, InputLength
  <2> QED
    BY <2>2, <2>3
<1>7. SUFFICES ASSUME NEW v \in InputRefs
               PROVE  /\ Within(v, 0)
                      /\ Len(runtime'[v].cells) * Width(Facts(v).dtype) = Facts(v).bytes
                      /\ \A m, k : runtime'[v].owner # NodeRef(m, k)
                      /\ runtime'[v].owner[1] = "in"
  <2>1. \A v : Facts(v)' = Facts(v)
    BY <1>3 DEF Facts
  <2>2. (next - 1)' = 0
    BY <1>3
  <2>3. \A v : Within(v, 0) => Within(v, next - 1)'
    BY <1>3, <2>2 DEF Within
  <2> QED
    BY <1>5, <2>1, <2>3 DEF Viewed, ViewHolds
<1>8. PICK i \in DOMAIN inputs : v = InputRef(i)
  BY DEF InputRefs
<1> DEFINE m == Product(inputs[i].storage)
<1>9. runtime'[v] = InputView(i, m) /\ Facts(v) = inputs[i] /\ Within(v, 0)
  BY <1>6, <1>8 DEF Facts, InputRef, Within
<1>10. Len(InputView(i, m).cells) * Width(inputs[i].dtype) = inputs[i].bytes
  BY <1>3, InputLength
<1> HIDE DEF m
<1>11. InputView(i, m).owner = InputRef(i)
  BY DEF InputView
<1>12. InputRef(i)[1] = "in" /\ \A l, k : InputRef(i) # NodeRef(l, k)
  BY DEF InputRef, NodeRef
<1> QED
  BY <1>9, <1>10, <1>11, <1>12

\* The estimate is the result of a run through the graph, and the execution
\* stands where that run stood, or lower.
Followed ==
    phase # "building" /\ estimate.kind = "ok" =>
        \E E : /\ EstimateRun(E, output)
               /\ estimate.bytes = ScratchExcludingOutput(E[Len(nodes)], output)
               /\ phase = "running" => Sim(sched, E[next - 1])

MemoryInv == Inv /\ Viewed /\ Followed /\ EstimateBoundsOwnedOutput

LEMMA SimKept ==
    ASSUME UNCHANGED <<inputs, nodes>>, NEW r, NEW e
    PROVE  Sim(r, e)' <=> Sim(r, e)
<1>1. \A v : Facts(v)' = Facts(v)
  BY DEF Facts
<1>2. \A s : ByteSized(s)' <=> ByteSized(s)
  BY <1>1 DEF ByteSized
<1> QED
  BY <1>2 DEF Sim

LEMMA StartSim ==
    ASSUME GraphOK, NEW out, NEW s, s = NewSchedule(out)
    PROVE  Sim(s, s)
<1>1. Exact(s) /\ s.values = [v \in InputRefs |-> 0] /\ s.peak = 0
  BY NewExact
<1>2. \A v \in DOMAIN s.values : s.values[v] = 0
  BY <1>1
<1> QED
  BY <1>1, <1>2 DEF Sim, ByteSized, Coarser

LEMMA RanFollowed ==
    ASSUME MemoryInv, phase = "running", next \in DOMAIN nodes, NEW outcome, NodeRan(outcome)
    PROVE  Followed'
<1> DEFINE origins == [k \in DOMAIN outcome.outs |-> outcome.outs[k].origin]
           static == StaticOrigins(nodes[next])
           x == outcome.transient
           y == StaticTransient(nodes[next])
<1>0. Inv /\ Viewed /\ Followed
  BY DEF MemoryInv
<1>1. UNCHANGED <<phase, inputs, nodes, output, estimate>> /\ next' = next + 1 /\ next \in Nat
  BY <1>0 DEF NodeRan, Inv, Accounted
<1>2. SUFFICES ASSUME estimate.kind = "ok" PROVE Followed'
  BY <1>1 DEF Followed
<1>3. PICK E : /\ EstimateRun(E, output)
               /\ estimate.bytes = ScratchExcludingOutput(E[Len(nodes)], output)
               /\ Sim(sched, E[next - 1])
  BY <1>0, <1>2 DEF Followed
<1>4. SizesFit(next) /\ x \in Nat /\ y \in Nat /\ x <= y
  BY <1>0, RanOutputs
<1>5. Scheduled(sched, sched', next, origins, x)
  BY <1>0, RanValues
<1>6. Compatible(next, origins, static)
  BY <1>0, RanCompatible
<1>7. next \in 1 .. Len(nodes)
  BY <1>0, SeqShape DEF Inv, GraphOK
<1>8. Scheduled(E[next - 1], E[next], next, static, y)
  BY <1>3, <1>7 DEF EstimateRun
<1> HIDE DEF origins, static, x, y
<1>9. Sim(sched', E[next])
  BY <1>3, <1>4, <1>5, <1>6, <1>8, NodeSim
<1>10. Sim(sched, E[next - 1])'
  <2>1. \A r, e : Sim(r, e) => Sim(r, e)'
    BY <1>1, SimKept
  <2>2. (next - 1)' = next
    BY <1>1
  <2>3. PICK r, e : r = sched' /\ e = E[next]
    OBVIOUS
  <2>4. Sim(r, e)'
    BY <1>9, <2>1, <2>3
  <2>5. r = sched' /\ e = E[next' - 1]
    BY <2>2, <2>3
  <2> QED
    BY <2>4, <2>5
<1>11. EstimateRun(E, output)'
  <2>1. PICK o : o = output
    OBVIOUS
  <2>2. EstimateRun(E, o)'
    BY <1>1, <1>3, <2>1, EstimateKept
  <2> QED
    BY <1>1, <2>1, <2>2
<1> QED
  BY <1>1, <1>3, <1>10, <1>11 DEF Followed

LEMMA FollowedKept ==
    ASSUME Followed, UNCHANGED <<inputs, nodes, output, estimate>>, phase # "building", phase' # "running"
    PROVE  Followed'
<1>1. SUFFICES ASSUME estimate.kind = "ok" PROVE Followed'
  BY DEF Followed
<1>2. PICK E : EstimateRun(E, output) /\ estimate.bytes = ScratchExcludingOutput(E[Len(nodes)], output)
  BY <1>1 DEF Followed
<1>3. EstimateRun(E, output)'
  <2>1. PICK o : o = output
    OBVIOUS
  <2>2. EstimateRun(E, o)'
    BY <1>2, <2>1, EstimateKept
  <2> QED
    BY <2>1, <2>2
<1> QED
  BY <1>2, <1>3 DEF Followed

LEMMA StartFollowed ==
    ASSUME MemoryInv, Start, phase' = "running"
    PROVE  Followed'
<1>1. /\ UNCHANGED <<inputs, nodes, output, estimate>> /\ phase = "built"
      /\ sched' = NewSchedule(output) /\ next' = 1
  BY DEF Start, Return
<1>2. SUFFICES ASSUME estimate.kind = "ok" PROVE Followed'
  BY <1>1 DEF Followed
<1>3. PICK E : EstimateRun(E, output) /\ estimate.bytes = ScratchExcludingOutput(E[Len(nodes)], output)
  BY <1>1, <1>2 DEF MemoryInv, Followed
<1>4. PICK o, s : o = output /\ s = sched'
  OBVIOUS
<1>5. s = NewSchedule(o) /\ E[0] = s /\ EstimateRun(E, o)
  BY <1>1, <1>3, <1>4 DEF EstimateRun
<1>6. EstimateRun(E, o)'
  BY <1>1, <1>5, EstimateKept
<1>7. Sim(s, E[0])
  BY <1>5, StartSim DEF MemoryInv, Inv
<1>8. Sim(s, E[0])'
  <2>1. PICK e : e = E[0]
    OBVIOUS
  <2> QED
    BY <1>1, <1>7, <2>1, SimKept
<1>9. (next - 1)' = 0
  BY <1>1
<1> QED
  BY <1>1, <1>3, <1>4, <1>6, <1>8, <1>9 DEF Followed

\* The end of the loop: the output's bytes are taken from both peaks.
LEMMA FinishBounded ==
    ASSUME MemoryInv, Finish
    PROVE  EstimateBoundsOwnedOutput'
<1>1. /\ UNCHANGED <<inputs, nodes, output, estimate>> /\ phase = "running" /\ next = Len(nodes) + 1
      /\ result' = IF output \notin DOMAIN runtime THEN [kind |-> "integrity"]
                   ELSE [kind |-> "ok", view |-> runtime[output],
                         scratch |-> ScratchExcludingOutput(sched, output)]
  BY DEF Finish, Return
<1>2. SUFFICES ASSUME result'.kind = "ok", estimate.kind = "ok"
               PROVE  \/ result'.scratch <= estimate.bytes
                      \/ ReturnsInput' /\ result'.scratch <= estimate.bytes + Facts(output).bytes
  <2>1. Facts(output)' = Facts(output)
    BY <1>1 DEF Facts
  <2> QED
    BY <1>1, <1>2, <2>1 DEF EstimateBoundsOwnedOutput, Succeeded
<1>3. output \in DOMAIN runtime
  BY <1>1, <1>2
<1>4. result'.view = runtime[output] /\ result'.scratch = ScratchExcludingOutput(sched, output)
  BY <1>1, <1>3
<1>5. PICK E : /\ estimate.bytes = ScratchExcludingOutput(E[Len(nodes)], output)
               /\ Sim(sched, E[next - 1])
  BY <1>1, <1>2 DEF MemoryInv, Followed
<1>6. next - 1 = Len(nodes)
  BY <1>1, SeqShape DEF MemoryInv, Inv, GraphOK
<1> DEFINE e == E[Len(nodes)]
<1>7. Sim(sched, e) /\ estimate.bytes = ScratchExcludingOutput(e, output)
  BY <1>5, <1>6
<1> HIDE DEF e
<1>8. /\ output \in DOMAIN sched.values /\ output \in DOMAIN e.values
      /\ e.values[output] = 0 => sched.values[output] = 0
      /\ sched.values[output] = 0 => ReturnsInput'
  <2>1. DOMAIN runtime = DOMAIN sched.values /\ ViewHolds(output)
    BY <1>1, <1>3 DEF MemoryInv, Inv, Accounted, Viewed
  <2>2. sched.values[output] = 0 => ReturnsInput'
    BY <1>4, <2>1 DEF ViewHolds, ReturnsInput
  <2> QED
    BY <1>3, <1>7, <2>1, <2>2 DEF Sim, Coarser
<1> DEFINE b == Facts(output).bytes
<1>9. /\ sched.values[output] # 0 => sched.allocs[sched.values[output]].bytes = b
      /\ e.values[output] # 0 => e.allocs[e.values[output]].bytes = b
  BY <1>7, <1>8 DEF Sim, ByteSized
<1>10. sched.peak \in Nat /\ e.peak \in Nat /\ sched.peak <= e.peak /\ SchedType(e)
  BY <1>7 DEF Sim, Exact, SchedType
<1>11. CASE e.values[output] = 0
  BY <1>4, <1>7, <1>8, <1>10, <1>11 DEF ScratchExcludingOutput
<1>12. CASE e.values[output] # 0
  <2>1. e.values[output] \in 0 .. Len(e.allocs)
    BY <1>7, <1>8, ValueRange DEF Sim
  <2>2. Len(e.allocs) \in Nat /\ DOMAIN e.allocs = 1 .. Len(e.allocs)
    BY <1>10, AllocFacts
  <2>3. e.values[output] \in DOMAIN e.allocs
    BY <1>12, <2>1, <2>2
  <2>4. b \in Nat
    BY <1>9, <1>10, <1>12, <2>3, AllocFacts
  <2> HIDE DEF b
  <2>5. estimate.bytes = e.peak - b
    BY <1>7, <1>8, <1>9, <1>12 DEF ScratchExcludingOutput
  <2>6. CASE sched.values[output] = 0
    <3>1. result'.scratch = sched.peak - 0
      BY <1>4, <1>8, <2>6 DEF ScratchExcludingOutput
    <3> QED
      BY <1>8, <1>10, <2>4, <2>5, <2>6, <3>1 DEF b
  <2>7. CASE sched.values[output] # 0
    <3>1. result'.scratch = sched.peak - b
      BY <1>4, <1>8, <1>9, <2>7 DEF ScratchExcludingOutput
    <3> QED
      BY <1>10, <2>4, <2>5, <3>1
  <2> QED
    BY <2>6, <2>7
<1> QED
  BY <1>11, <1>12

LEMMA NextMemoryInv ==
    ASSUME MemoryInv, [Next]_vars
    PROVE  MemoryInv'
<1>0. Inv /\ Inv' /\ Viewed /\ Followed /\ EstimateBoundsOwnedOutput
  BY NextInv DEF MemoryInv
<1>1. CASE AddInput \/ AddOperation
  <2>1. phase' = "building"
    BY <1>1 DEF AddInput, AddOperation
  <2> QED
    BY <1>0, <2>1 DEF MemoryInv, Viewed, Followed, EstimateBoundsOwnedOutput, Succeeded
<1>2. CASE Build
  <2>1. UNCHANGED <<inputs, nodes>> /\ phase' = "built"
    BY <1>2 DEF Build
  <2>2. PICK out : output' = out /\ estimate' = EstimateHostScratchBytes(out)
    BY <1>2 DEF Build
  <2>3. ASSUME estimate'.kind = "ok"
        PROVE  \E E : /\ EstimateRun(E, output)'
                      /\ estimate'.bytes = ScratchExcludingOutput(E[Len(nodes')], output')
    <3>1. PICK E : /\ EstimateRun(E, out)
                   /\ EstimateHostScratchBytes(out).bytes = ScratchExcludingOutput(E[Len(nodes)], out)
      BY <1>0, <2>2, <2>3, EstimateRuns DEF Inv
    <3>2. EstimateRun(E, out)'
      BY <2>1, <3>1, EstimateKept
    <3> QED
      BY <2>1, <2>2, <3>1, <3>2
  <2>4. Followed'
    BY <2>1, <2>3 DEF Followed
  <2> QED
    BY <1>0, <2>1, <2>4 DEF MemoryInv, Viewed, EstimateBoundsOwnedOutput, Succeeded
<1>3. ASSUME UNCHANGED <<inputs, nodes, output, estimate>>, phase # "building", phase' = "done", result'.kind # "ok"
      PROVE  MemoryInv'
  <2>1. Followed'
    BY <1>0, <1>3, FollowedKept
  <2> QED
    BY <1>0, <1>3, <2>1 DEF MemoryInv, Viewed, EstimateBoundsOwnedOutput, Succeeded
<1>4. CASE Start
  <2>1. UNCHANGED <<inputs, nodes, output, estimate>> /\ phase = "built"
    BY <1>4 DEF Start
  <2>2. CASE phase' = "done"
    <3>1. result'.kind # "ok"
      BY <1>4, <2>2 DEF Start, Return
    <3> QED
      BY <1>3, <2>1, <2>2, <3>1
  <2>3. CASE phase' # "done"
    <3>1. phase' = "running"
      BY <1>4, <2>3 DEF Start, Return
    <3>2. Viewed' /\ Followed'
      BY <1>0, <1>4, <3>1, StartViewed, StartFollowed
    <3> QED
      BY <1>0, <3>1, <3>2 DEF MemoryInv, EstimateBoundsOwnedOutput, Succeeded
  <2> QED
    BY <2>2, <2>3
<1>5. CASE RejectNode \/ SeeCancellation
  <2>1. /\ UNCHANGED <<inputs, nodes, output, estimate>> /\ phase # "building"
        /\ phase' = "done" /\ result'.kind # "ok"
    BY <1>5 DEF RejectNode, SeeCancellation, Return
  <2> QED
    BY <1>3, <2>1
<1>6. CASE ExecuteNode
  <2>1. UNCHANGED <<inputs, nodes, output, estimate>> /\ phase = "running" /\ next \in DOMAIN nodes
    BY <1>0, <1>6, ExecuteCases
  <2>2. CASE phase' = "done" /\ result'.kind # "ok"
    BY <1>3, <2>1, <2>2
  <2>3. CASE \E outcome : NodeRan(outcome)
    <3>1. PICK outcome : NodeRan(outcome)
      BY <2>3
    <3>2. Viewed' /\ Followed' /\ phase' = "running"
      BY <1>0, <2>1, <3>1, RanViewed, RanFollowed DEF NodeRan
    <3> QED
      BY <1>0, <3>2 DEF MemoryInv, EstimateBoundsOwnedOutput, Succeeded
  <2> QED
    BY <1>0, <1>6, <2>2, <2>3, ExecuteCases
<1>7. CASE Finish
  <2>1. UNCHANGED <<inputs, nodes, output, estimate>> /\ phase = "running" /\ phase' = "done"
    BY <1>7 DEF Finish, Return
  <2>2. Followed' /\ EstimateBoundsOwnedOutput'
    BY <1>0, <1>7, <2>1, FollowedKept, FinishBounded
  <2> QED
    BY <1>0, <2>1, <2>2 DEF MemoryInv, Viewed
<1>8. CASE UNCHANGED vars
  <2>1. UNCHANGED <<inputs, nodes, output, estimate, phase, result, runtime, sched, next>>
    BY <1>8 DEF vars
  <2>2. Viewed'
    <3>1. \A v : Facts(v)' = Facts(v)
      BY <2>1 DEF Facts
    <3>2. \A v, n : Within(v, n)' <=> Within(v, n)
      BY <2>1 DEF Within
    <3>3. \A v : ViewHolds(v) => ViewHolds(v)'
      BY <2>1, <3>1, <3>2 DEF ViewHolds
    <3> QED
      BY <1>0, <2>1, <3>3 DEF Viewed
  <2>3. Followed'
    <3>1. SUFFICES ASSUME phase # "building", estimate.kind = "ok" PROVE Followed'
      BY <2>1 DEF Followed
    <3>2. PICK E : /\ EstimateRun(E, output)
                   /\ estimate.bytes = ScratchExcludingOutput(E[Len(nodes)], output)
                   /\ phase = "running" => Sim(sched, E[next - 1])
      BY <1>0, <3>1 DEF Followed
    <3>3. PICK o, r, e : o = output /\ r = sched /\ e = E[next - 1]
      OBVIOUS
    <3>4. EstimateRun(E, o)' /\ (Sim(r, e) => Sim(r, e)')
      BY <2>1, <3>2, <3>3, EstimateKept, SimKept
    <3> QED
      BY <2>1, <3>2, <3>3, <3>4 DEF Followed
  <2>4. EstimateBoundsOwnedOutput'
    <3>1. Facts(output)' = Facts(output)
      BY <2>1 DEF Facts
    <3> QED
      BY <1>0, <2>1, <3>1 DEF EstimateBoundsOwnedOutput, Succeeded, ReturnsInput
  <2> QED
    BY <1>0, <2>2, <2>3, <2>4 DEF MemoryInv
<1> QED
  BY <1>1, <1>2, <1>4, <1>5, <1>6, <1>7, <1>8 DEF Next

\* The scratch a successful execution reports is at most what
\* estimate_host_scratch_bytes promised for the graph, and where the output is
\* an external input's memory at most that and the output: whatever the
\* providers reuse or allocate, and however the nodes share and drop values.
THEOREM EstimateStaysBound == Spec => []EstimateBoundsOwnedOutput
<1>1. Init => MemoryInv
  BY InitInv DEF Init, MemoryInv, Viewed, Followed, EstimateBoundsOwnedOutput, Succeeded
<1>2. MemoryInv => EstimateBoundsOwnedOutput
  BY DEF MemoryInv
<1> QED
  BY <1>1, <1>2, NextMemoryInv, PTL DEF Spec

-----------------------------------------------------------------------------
(* What is still to be used *)

\* The places that use v, once j inputs of node n are used up.
UsesLeft(v, n, j) == {u \in UsePlaces(v) : u[1] > n \/ (u[1] = n /\ u[2] > j)}
Wanted(v, n, j, out) == UsesLeft(v, n, j) # {} \/ v = out

\* The values there are when p outputs of node n have been made.
Present(v, n, p) == Within(v, n - 1) \/ \E k \in 1 .. p : v = NodeRef(n, k)

\* The counters of the schedule are those uses.
Counted(s, n, j, out) ==
    /\ DOMAIN s.uses = {w \in Values : Uses(w, out) > 0}
    /\ \A v \in DOMAIN s.uses :
          s.uses[v] = Cardinality(UsesLeft(v, n, j)) + (IF v = out THEN 1 ELSE 0)

\* No value is there before it is made, none goes before its last use, and
\* of the outputs of node n the first q have been looked through.
Kept(s, n, p, j, q, out) ==
    /\ \A v \in DOMAIN s.values : Present(v, n, p)
    /\ \A v : Present(v, n, p) /\ Wanted(v, n, j, out) => v \in DOMAIN s.values
    /\ \A k \in q + 1 .. p : NodeRef(n, k) \in DOMAIN s.values

Ready(s, n, p, j, q, out) == Counted(s, n, j, out) /\ Kept(s, n, p, j, q, out)

LEMMA LeftFinite ==
    ASSUME GraphOK, NEW v, NEW n, NEW j
    PROVE  /\ IsFiniteSet(UsesLeft(v, n, j)) /\ Cardinality(UsesLeft(v, n, j)) \in Nat
           /\ Cardinality(UsesLeft(v, n, j)) = 0 <=> UsesLeft(v, n, j) = {}
<1>1. IsFiniteSet(UsePlaces(v))
  BY UsesCounted
<1>2. UsesLeft(v, n, j) \subseteq UsePlaces(v)
  BY DEF UsesLeft
<1>3. IsFiniteSet(UsesLeft(v, n, j))
  BY <1>1, <1>2, FS_Subset
<1> QED
  BY <1>3, FS_CardinalityType, FS_EmptySet

\* A value is wanted as long as its counter is not zero.
LEMMA WantedCounted ==
    ASSUME GraphOK, NEW s, NEW n, NEW j, NEW out, Counted(s, n, j, out), NEW v \in Values
    PROVE  Wanted(v, n, j, out) <=> v \in DOMAIN s.uses /\ s.uses[v] > 0
<1>1. /\ Cardinality(UsesLeft(v, n, j)) \in Nat
      /\ Cardinality(UsesLeft(v, n, j)) = 0 <=> UsesLeft(v, n, j) = {}
  BY LeftFinite
<1>2. v \in DOMAIN s.uses => (Wanted(v, n, j, out) <=> s.uses[v] > 0)
  BY <1>1 DEF Counted, Wanted
<1>3. Wanted(v, n, j, out) => Uses(v, out) > 0
  <2>1. IsFiniteSet(UsePlaces(v)) /\ Cardinality(UsePlaces(v)) \in Nat
    BY UsesCounted, FS_CardinalityType
  <2>2. UsesLeft(v, n, j) \subseteq UsePlaces(v)
    BY DEF UsesLeft
  <2>3. UsesLeft(v, n, j) # {} => Cardinality(UsePlaces(v)) # 0
    BY <2>1, <2>2, FS_EmptySet
  <2> QED
    BY <2>1, <2>3 DEF Wanted, Uses
<1> QED
  BY <1>2, <1>3 DEF Counted

\* What the first n nodes and the inputs make is a value.
LEMMA WithinValues ==
    ASSUME NEW v, NEW n, Within(v, n)
    PROVE  v \in Values
<1>1. CASE \E i \in DOMAIN inputs : v = InputRef(i)
  BY <1>1 DEF Values
<1>2. CASE ~\E i \in DOMAIN inputs : v = InputRef(i)
  <2>1. PICK m \in DOMAIN nodes : \E k \in DOMAIN nodes[m].outputs : v = NodeRef(m, k)
    BY <1>2 DEF Within
  <2> QED
    BY <2>1 DEF Values
<1> QED
  BY <1>1, <1>2

LEMMA PresentValues ==
    ASSUME GraphOK, NEW n \in DOMAIN nodes, NEW p, p \in 0 .. Len(nodes[n].outputs), NEW v, Present(v, n, p)
    PROVE  v \in Values
<1>1. CASE Within(v, n - 1)
  BY <1>1, WithinValues
<1>2. CASE \E k \in 1 .. p : v = NodeRef(n, k)
  <2>1. SizesFit(n)
    BY NodeSizes
  <2>2. PICK k \in 1 .. p : v = NodeRef(n, k)
    BY <1>2
  <2>3. k \in DOMAIN nodes[n].outputs
    BY <2>1, <2>2 DEF SizesFit
  <2> QED
    BY <2>2, <2>3 DEF Values
<1> QED
  BY <1>1, <1>2 DEF Present

\* An output of node n is none of the values before it.
LEMMA OutputIsNew ==
    ASSUME GraphOK, NEW n \in DOMAIN nodes, NEW k
    PROVE  ~Within(NodeRef(n, k), n - 1)
<1>1. n \in Nat
  BY SeqShape DEF GraphOK
<1> QED
  BY <1>1 DEF Within, NodeRef, InputRef

\* The next input of a node is wanted, and there.
LEMMA InputWanted ==
    ASSUME GraphOK, NEW n \in DOMAIN nodes, NEW j \in Nat, j + 1 \in DOMAIN nodes[n].inputs, NEW p, NEW out
    PROVE  /\ <<n, j + 1>> \in UsesLeft(nodes[n].inputs[j + 1], n, j)
           /\ Wanted(nodes[n].inputs[j + 1], n, j, out)
           /\ Present(nodes[n].inputs[j + 1], n, p)
           /\ nodes[n].inputs[j + 1] \in Values
<1> DEFINE v == nodes[n].inputs[j + 1]
<1>1. n \in Nat
  BY SeqShape DEF GraphOK
<1>2. NodeOK(n) /\ j + 1 \in 1 .. 2
  BY DEF GraphOK, NodeOK
<1>3. Within(v, n - 1)
  BY <1>2 DEF NodeOK
<1>4. <<n, j + 1>> \in UsesLeft(v, n, j)
  BY <1>1, <1>2 DEF UsesLeft, UsePlaces
<1> QED
  BY <1>3, <1>4, WithinValues DEF Wanted, Present

-----------------------------------------------------------------------------
(* Each call finds what it needs *)

\* One more output.
LEMMA ProduceReady ==
    ASSUME GraphOK, NEW n \in DOMAIN nodes, NEW c \in 1 .. Len(nodes[n].outputs),
           NEW s, Exact(s), s.err = "none", NEW out, Ready(s, n, c - 1, 0, 0, out),
           NEW origin, NEW t, t = Produce(s, nodes[n], NodeRef(n, c), nodes[n].outputs[c], origin)
    PROVE  t.err \in {"none", "limit"} /\ (t.err = "none" => Ready(t, n, c, 0, 0, out))
<1> DEFINE v == NodeRef(n, c)
           u == nodes[n].inputs[1]
<1>1. SizesFit(n) /\ c \in DOMAIN nodes[n].outputs /\ c \in Nat /\ c - 1 \in 0 .. Len(nodes[n].outputs)
  BY NodeSizes DEF SizesFit
<1>2. Counted(s, n, 0, out) /\ Kept(s, n, c - 1, 0, 0, out)
  BY DEF Ready
<1>3. v \notin DOMAIN s.values
  <2>1. ~Within(v, n - 1)
    BY OutputIsNew
  <2>2. \A k \in 1 .. c - 1 : v # NodeRef(n, k)
    BY <1>1 DEF NodeRef
  <2> QED
    BY <1>2, <2>1, <2>2 DEF Kept, Present
<1>4. u \in DOMAIN s.values
  <2>1. 0 \in Nat /\ 0 + 1 \in DOMAIN nodes[n].inputs /\ 0 + 1 = 1
    BY DEF GraphOK, NodeOK
  <2>2. Wanted(u, n, 0, out) /\ Present(u, n, c - 1)
    BY <2>1, InputWanted
  <2> QED
    BY <1>2, <2>2 DEF Kept
<1>5. IsSched(s)
  BY DEF Exact, SchedType
<1> DEFINE facts == nodes[n].outputs[c]
           node == nodes[n]
<1>6. t.err \in {"none", "limit"}
  BY <1>3, <1>4, <1>5, ProduceErr
<1>7. ASSUME t.err = "none" PROVE Ready(t, n, c, 0, 0, out)
  <2>1. facts.bytes \in 0 .. MaxWord
    BY <1>1 DEF SizesFit
  <2>2. /\ origin = "fresh" => IsFresh(s, t, v, facts.bytes)
        /\ origin # "fresh" => IsShared(s, t, v, s.values[u])
    BY <1>7, <2>1, ProduceEffect
  <2> HIDE DEF v, u
  <2>3. t.uses = s.uses /\ DOMAIN t.values = DOMAIN s.values \cup {v}
    BY <2>2 DEF IsFresh, IsShared, Extended
  <2>4. Counted(t, n, 0, out)
    BY <1>2, <2>3 DEF Counted
  <2>5. \A w : Present(w, n, c) <=> Present(w, n, c - 1) \/ w = v
    <3>1. \A k : k \in 1 .. c <=> k \in 1 .. c - 1 \/ k = c
      BY <1>1
    <3> QED
      BY <3>1 DEF Present, v
  <2>6. \A k \in 0 + 1 .. c : NodeRef(n, k) \in DOMAIN t.values
    <3>1. \A k \in 0 + 1 .. c : k \in 0 + 1 .. c - 1 \/ k = c
      BY <1>1
    <3> QED
      BY <1>2, <2>3, <3>1 DEF Kept, v
  <2>7. Kept(t, n, c, 0, 0, out)
    BY <1>2, <2>3, <2>5, <2>6 DEF Kept
  <2> QED
    BY <2>4, <2>7 DEF Ready
<1> QED
  BY <1>6, <1>7

LEMMA ObserveReady ==
    ASSUME NEW s, Exact(s), s.err = "none", NEW n, NEW p, NEW out, Ready(s, n, p, 0, 0, out),
           NEW x \in Nat, NEW t, t = ObserveTransient(s, x)
    PROVE  t.err \in {"none", "limit"} /\ (t.err = "none" => Ready(t, n, p, 0, 0, out))
<1>1. t.err \in {"none", "limit"}
  BY ObserveErr DEF Exact, SchedType
<1>2. t.err = "none" => t.values = s.values /\ t.uses = s.uses
  BY ObserveEffect DEF SameValues
<1> QED
  BY <1>1, <1>2 DEF Ready, Counted, Kept

\* One use less.
LEMMA OneLess ==
    ASSUME GraphOK, NEW n \in DOMAIN nodes, NEW j \in Nat, j + 1 \in DOMAIN nodes[n].inputs, NEW v
    PROVE  /\ v = nodes[n].inputs[j + 1] =>
                  Cardinality(UsesLeft(v, n, j)) = Cardinality(UsesLeft(v, n, j + 1)) + 1
           /\ v # nodes[n].inputs[j + 1] => UsesLeft(v, n, j) = UsesLeft(v, n, j + 1)
<1> DEFINE e == <<n, j + 1>>
<1>1. n \in Nat
  BY SeqShape DEF GraphOK
<1>2. \A u \in UsePlaces(v) : /\ u[1] \in Nat /\ u[2] \in 1 .. 2 /\ u = <<u[1], u[2]>>
                              /\ nodes[u[1]].inputs[u[2]] = v
  BY SeqShape DEF UsePlaces, GraphOK
<1>3. \A u \in UsePlaces(v) : (u[1] > n \/ (u[1] = n /\ u[2] > j)) <=>
                              (u[1] > n \/ (u[1] = n /\ u[2] > j + 1)) \/ u = e
  BY <1>1, <1>2
<1>4. CASE v = nodes[n].inputs[j + 1]
  <2>1. e \in UsePlaces(v)
    BY <1>4 DEF UsePlaces, GraphOK, NodeOK
  <2>2. UsesLeft(v, n, j) = UsesLeft(v, n, j + 1) \cup {e}
    BY <1>3, <2>1 DEF UsesLeft
  <2>3. e \notin UsesLeft(v, n, j + 1)
    BY <1>1 DEF UsesLeft
  <2>4. IsFiniteSet(UsesLeft(v, n, j + 1))
    BY LeftFinite
  <2> HIDE DEF e
  <2>5. Cardinality(UsesLeft(v, n, j + 1) \cup {e}) = Cardinality(UsesLeft(v, n, j + 1)) + 1
    BY <2>3, <2>4, FS_AddElement
  <2> QED
    BY <1>4, <2>2, <2>5
<1>5. CASE v # nodes[n].inputs[j + 1]
  <2>1. e \notin UsePlaces(v)
    BY <1>2, <1>5
  <2> QED
    BY <1>3, <1>5, <2>1 DEF UsesLeft
<1> QED
  BY <1>4, <1>5

\* One more input is used up.
LEMMA ConsumeReady ==
    ASSUME GraphOK, NEW n \in DOMAIN nodes, NEW j \in Nat, j + 1 \in DOMAIN nodes[n].inputs,
           NEW s, Exact(s), s.err = "none", NEW out, NEW p, p = Len(nodes[n].outputs),
           Ready(s, n, p, j, 0, out), NEW t, t = ConsumeValue(s, nodes[n].inputs[j + 1])
    PROVE  t.err = "none" /\ Ready(t, n, p, j + 1, 0, out)
<1> DEFINE v == nodes[n].inputs[j + 1]
<1>1. Counted(s, n, j, out) /\ Kept(s, n, p, j, 0, out)
  BY DEF Ready
<1>2. v \in Values /\ Wanted(v, n, j, out) /\ Present(v, n, p) /\ Within(v, n - 1)
  BY InputWanted DEF GraphOK, NodeOK
<1>3. v \in DOMAIN s.values /\ v \in DOMAIN s.uses /\ s.uses[v] > 0
  BY <1>1, <1>2, WantedCounted DEF Kept
<1>4. \A w : /\ w = v => Cardinality(UsesLeft(w, n, j)) = Cardinality(UsesLeft(w, n, j + 1)) + 1
             /\ w # v => UsesLeft(w, n, j) = UsesLeft(w, n, j + 1)
  BY OneLess
<1>5. \A w : Cardinality(UsesLeft(w, n, j + 1)) \in Nat
  BY LeftFinite
<1>6. s.uses[v] \in Nat /\ s.uses \in [DOMAIN s.uses -> Nat]
  BY <1>3 DEF Exact, SchedType
<1>7. p \in 0 .. Len(nodes[n].outputs) /\ \A k : NodeRef(n, k) # v
  <2>1. \A k : ~Within(NodeRef(n, k), n - 1)
    BY OutputIsNew
  <2>2. p \in Nat
    BY NodeSizes DEF SizesFit
  <2> HIDE DEF v
  <2> QED
    BY <1>2, <2>1, <2>2
<1>8. t = ConsumeValue(s, v)
  OBVIOUS
<1> HIDE DEF v
<1>9. t.err = "none"
  BY <1>3, <1>6, <1>8, ConsumeErr
<1>10. /\ t.uses = [s.uses EXCEPT ![v] = s.uses[v] - 1]
       /\ s.uses[v] = 1 => IsRemoved(s, t, v)
       /\ s.uses[v] # 1 => SameValues(s, t)
  <2>1. t.uses = [s.uses EXCEPT ![v] = s.uses[v] - 1]
    BY <1>8, <1>9, ConsumeEffect
  <2>2. s.uses[v] = 1 => IsRemoved(s, t, v)
    BY <1>8, <1>9, ConsumeEffect
  <2>3. s.uses[v] # 1 => SameValues(s, t)
    BY <1>8, <1>9, ConsumeEffect
  <2> QED
    BY <2>1, <2>2, <2>3
<1>11. Counted(t, n, j + 1, out)
  <2>1. DOMAIN t.uses = DOMAIN s.uses
    BY <1>10
  <2>2. ASSUME NEW w \in DOMAIN s.uses
        PROVE  t.uses[w] = Cardinality(UsesLeft(w, n, j + 1)) + (IF w = out THEN 1 ELSE 0)
    <3>1. s.uses[w] = Cardinality(UsesLeft(w, n, j)) + (IF w = out THEN 1 ELSE 0)
      BY <1>1 DEF Counted
    <3>2. CASE w = v
      BY <1>4, <1>5, <1>10, <3>1, <3>2
    <3>3. CASE w # v
      BY <1>4, <1>10, <3>1, <3>3
    <3> QED
      BY <3>2, <3>3
  <2> QED
    BY <1>1, <2>1, <2>2 DEF Counted
<1>12. /\ DOMAIN t.values = DOMAIN s.values \/ DOMAIN t.values = DOMAIN s.values \ {v}
       /\ Wanted(v, n, j + 1, out) => v \in DOMAIN t.values
  <2>1. CASE s.uses[v] = 1
    <3>1. DOMAIN t.values = DOMAIN s.values \ {v}
      BY <1>10, <2>1 DEF IsRemoved, Without, Restrict
    <3>2. t.uses[v] = 0
      BY <1>3, <1>10, <2>1
    <3>3. ~Wanted(v, n, j + 1, out)
      BY <1>2, <1>11, <3>2, WantedCounted
    <3> QED
      BY <3>1, <3>3
  <2>2. CASE s.uses[v] # 1
    BY <1>3, <1>10, <2>2 DEF SameValues
  <2> QED
    BY <2>1, <2>2
<1>13. \A w : w # v /\ Wanted(w, n, j + 1, out) => Wanted(w, n, j, out)
  BY <1>4 DEF Wanted
<1>14. Kept(t, n, p, j + 1, 0, out)
  <2>1. \A w \in DOMAIN t.values : Present(w, n, p)
    BY <1>1, <1>12 DEF Kept
  <2>2. ASSUME NEW w, Present(w, n, p), Wanted(w, n, j + 1, out) PROVE w \in DOMAIN t.values
    BY <1>1, <1>12, <1>13, <2>2 DEF Kept
  <2>3. \A k \in 0 + 1 .. p : NodeRef(n, k) \in DOMAIN t.values
    BY <1>1, <1>7, <1>12 DEF Kept
  <2> QED
    BY <2>1, <2>2, <2>3 DEF Kept
<1> QED
  BY <1>9, <1>11, <1>14 DEF Ready

\* One more output is looked through.
LEMMA UnusedReady ==
    ASSUME GraphOK, NEW n \in DOMAIN nodes, NEW q \in Nat, NEW p, p = Len(nodes[n].outputs), q < p,
           NEW j, NEW s, Exact(s), s.err = "none", NEW out, Ready(s, n, p, j, q, out),
           NEW t, t = RemoveUnused(s, NodeRef(n, q + 1))
    PROVE  t.err = "none" /\ Ready(t, n, p, j, q + 1, out)
<1> DEFINE v == NodeRef(n, q + 1)
<1>1. Counted(s, n, j, out) /\ Kept(s, n, p, j, q, out)
  BY DEF Ready
<1>2. p \in Nat
  BY NodeSizes DEF SizesFit
<1>3. v \in DOMAIN s.values /\ Present(v, n, p)
  BY <1>1, <1>2 DEF Kept, Present
<1>4. v \in Values
  BY <1>2, <1>3, PresentValues
<1>5. \A k \in q + 1 + 1 .. p : NodeRef(n, k) # v /\ k \in q + 1 .. p
  BY <1>2 DEF NodeRef
<1>6. Wanted(v, n, j, out) <=> v \in DOMAIN s.uses /\ s.uses[v] > 0
  BY <1>1, <1>4, WantedCounted
<1>7. t = RemoveUnused(s, v) /\ IsSched(s)
  BY DEF Exact, SchedType
<1> HIDE DEF v
<1>8. t.err = "none"
  BY <1>3, <1>7, UnusedErr
<1>9. /\ t.uses = s.uses
      /\ v \in DOMAIN s.uses /\ s.uses[v] > 0 => t = s
      /\ ~(v \in DOMAIN s.uses /\ s.uses[v] > 0) => IsRemoved(s, t, v)
  BY <1>7, <1>8, UnusedEffect
<1>10. Counted(t, n, j, out)
  BY <1>1, <1>9 DEF Counted
<1>11. CASE Wanted(v, n, j, out)
  <2>1. DOMAIN t.values = DOMAIN s.values
    BY <1>6, <1>9, <1>11
  <2>2. Kept(t, n, p, j, q + 1, out)
    BY <1>1, <1>5, <2>1 DEF Kept
  <2> QED
    BY <1>8, <1>10, <2>2 DEF Ready
<1>12. CASE ~Wanted(v, n, j, out)
  <2>1. DOMAIN t.values = DOMAIN s.values \ {v}
    BY <1>6, <1>9, <1>12 DEF IsRemoved, Without, Restrict
  <2>2. Kept(t, n, p, j, q + 1, out)
    BY <1>1, <1>5, <1>12, <2>1 DEF Kept
  <2> QED
    BY <1>8, <1>10, <2>2 DEF Ready
<1> QED
  BY <1>11, <1>12

-----------------------------------------------------------------------------
(* The calls for a node, in their order *)

\* How far the calls for node n, with o outputs and i inputs, are after the
\* first c of them.
Stage(s, n, o, i, c, out) ==
    /\ c <= o => Ready(s, n, c, 0, 0, out)
    /\ c = o + 1 => Ready(s, n, o, 0, 0, out)
    /\ c > o + 1 /\ c <= o + 1 + i => Ready(s, n, o, c - o - 1, 0, out)
    /\ c > o + 1 + i => Ready(s, n, o, i, c - o - 1 - i, out)
Progress(s, n, c, out) == Stage(s, n, Len(nodes[n].outputs), Len(nodes[n].inputs), c, out)

LEMMA CallReady ==
    ASSUME GraphOK, NEW n \in DOMAIN nodes, NEW s, Exact(s), s.err = "none", NEW out,
           NEW c \in 1 .. ScheduleCalls(nodes[n]), Progress(s, n, c - 1, out),
           NEW origins, NEW x \in Nat, NEW t, t = ScheduleCall(s, n, origins, x, c)
    PROVE  t.err \in {"none", "limit"} /\ (t.err = "none" => Progress(t, n, c, out))
<1> DEFINE outs == Len(nodes[n].outputs)
           ins == Len(nodes[n].inputs)
<1>1. outs \in Nat /\ ins \in Nat /\ c \in 1 .. 2 * outs + ins + 1 /\ DOMAIN nodes[n].inputs = 1 .. ins
  BY NodeSizes DEF SizesFit, ScheduleCalls, GraphOK, NodeOK
<1>0. ins >= 1
  BY DEF GraphOK, NodeOK
<1>2. /\ c - 1 <= outs => Ready(s, n, c - 1, 0, 0, out)
      /\ c - 1 = outs + 1 => Ready(s, n, outs, 0, 0, out)
      /\ c - 1 > outs + 1 /\ c - 1 <= outs + 1 + ins => Ready(s, n, outs, c - 1 - outs - 1, 0, out)
      /\ c - 1 > outs + 1 + ins => Ready(s, n, outs, ins, c - 1 - outs - 1 - ins, out)
  BY DEF Progress, Stage
<1>3. ASSUME NEW r PROVE
          /\ c <= outs /\ Ready(r, n, c, 0, 0, out) => Progress(r, n, c, out)
          /\ c = outs + 1 /\ Ready(r, n, outs, 0, 0, out) => Progress(r, n, c, out)
          /\ c > outs + 1 /\ c <= outs + 1 + ins /\ Ready(r, n, outs, c - outs - 1, 0, out) => Progress(r, n, c, out)
          /\ c > outs + 1 + ins /\ Ready(r, n, outs, ins, c - outs - 1 - ins, out) => Progress(r, n, c, out)
  <2>1. outs \in Nat /\ ins \in Nat /\ c \in Nat
    BY <1>1
  <2>2. Progress(r, n, c, out) <=> Stage(r, n, outs, ins, c, out)
    BY DEF Progress
  <2> HIDE DEF outs, ins
  <2> QED
    BY <2>1, <2>2 DEF Stage
<1> HIDE DEF outs, ins
<1>4. CASE c <= outs
  <2>1. t = Produce(s, nodes[n], NodeRef(n, c), nodes[n].outputs[c], origins[c])
    BY <1>4 DEF ScheduleCall, outs
  <2>2. c \in 1 .. outs /\ Ready(s, n, c - 1, 0, 0, out)
    BY <1>1, <1>2, <1>4
  <2>3. t.err \in {"none", "limit"} /\ (t.err = "none" => Ready(t, n, c, 0, 0, out))
    BY <2>1, <2>2, ProduceReady DEF outs
  <2> QED
    BY <1>3, <1>4, <2>3
<1>5. CASE c = outs + 1
  <2>1. t = ObserveTransient(s, x)
    BY <1>1, <1>5 DEF ScheduleCall, outs
  <2>2. Ready(s, n, outs, 0, 0, out)
    BY <1>1, <1>2, <1>5
  <2>3. t.err \in {"none", "limit"} /\ (t.err = "none" => Ready(t, n, outs, 0, 0, out))
    BY <2>1, <2>2, ObserveReady
  <2> QED
    BY <1>3, <1>5, <2>3
<1>6. CASE c > outs + 1 /\ c <= outs + 1 + ins
  <2>1. PICK j \in Nat : j = c - 1 - outs - 1
    BY <1>1, <1>6
  <2>2. j + 1 = c - outs - 1 /\ j + 1 \in DOMAIN nodes[n].inputs
    BY <1>1, <1>6, <2>1
  <2>3. t = ConsumeValue(s, nodes[n].inputs[j + 1])
    <3>1. t = ConsumeValue(s, nodes[n].inputs[c - outs - 1])
      BY <1>1, <1>6 DEF ScheduleCall, outs, ins
    <3> QED
      BY <2>2, <3>1
  <2>4. Ready(s, n, outs, j, 0, out)
    <3>1. CASE c - 1 = outs + 1
      <4>1. j = 0
        BY <1>1, <2>1, <3>1
      <4> QED
        BY <1>2, <3>1, <4>1
    <3>2. CASE c - 1 > outs + 1
      BY <1>1, <1>2, <1>6, <2>1, <3>2
    <3> QED
      BY <1>1, <1>6, <3>1, <3>2
  <2>5. t.err = "none" /\ Ready(t, n, outs, j + 1, 0, out)
    BY <2>2, <2>3, <2>4, ConsumeReady DEF outs
  <2> QED
    BY <1>3, <1>6, <2>2, <2>5
<1>7. CASE c > outs + 1 + ins
  <2>1. PICK q \in Nat : q = c - 1 - outs - 1 - ins
    BY <1>1, <1>7
  <2>2. q + 1 = c - outs - 1 - ins /\ q < outs
    BY <1>1, <1>7, <2>1
  <2>3. t = RemoveUnused(s, NodeRef(n, q + 1))
    <3>1. ~(c <= outs) /\ ~(c = outs + 1) /\ ~(c <= outs + 1 + ins)
      BY <1>1, <1>7
    <3>2. t = RemoveUnused(s, NodeRef(n, c - outs - 1 - ins))
      BY <3>1 DEF ScheduleCall, outs, ins
    <3> QED
      BY <2>2, <3>2
  <2>4. Ready(s, n, outs, ins, q, out)
    <3>1. CASE c - 1 = outs + 1 + ins
      <4>1. q = 0 /\ c - 1 - outs - 1 = ins /\ ins >= 1
        BY <1>0, <1>1, <2>1, <3>1
      <4>2. c - 1 > outs + 1 /\ c - 1 <= outs + 1 + ins
        BY <1>1, <3>1, <4>1
      <4> QED
        BY <1>2, <4>1, <4>2
    <3>2. CASE c - 1 > outs + 1 + ins
      BY <1>1, <1>2, <2>1, <3>2
    <3> QED
      BY <1>1, <1>7, <3>1, <3>2
  <2>5. t.err = "none" /\ Ready(t, n, outs, ins, q + 1, out)
    BY <2>2, <2>3, <2>4, UnusedReady DEF outs
  <2> QED
    BY <1>3, <1>7, <2>2, <2>5
<1> QED
  BY <1>1, <1>4, <1>5, <1>6, <1>7

\* When node n is through, the next one finds what it needs.
LEMMA ReadyForNext ==
    ASSUME GraphOK, NEW n \in DOMAIN nodes, NEW s, NEW out, NEW p, NEW i,
           p = Len(nodes[n].outputs), i = Len(nodes[n].inputs), Ready(s, n, p, i, p, out)
    PROVE  Ready(s, n + 1, 0, 0, 0, out)
<1>1. n \in Nat /\ p \in Nat /\ DOMAIN nodes[n].outputs = 1 .. p /\ DOMAIN nodes[n].inputs = 1 .. i /\ i \in Nat
  BY SeqShape, NodeSizes DEF GraphOK, NodeOK, SizesFit
<1>2. ASSUME NEW v PROVE UsesLeft(v, n, i) = UsesLeft(v, n + 1, 0)
  <2>1. ASSUME NEW u \in UsePlaces(v)
        PROVE  (u[1] > n \/ (u[1] = n /\ u[2] > i)) <=> (u[1] > n + 1 \/ (u[1] = n + 1 /\ u[2] > 0))
    <3>1. u[1] \in Nat /\ u[2] \in 1 .. 2 /\ u[2] \in DOMAIN nodes[u[1]].inputs
      BY SeqShape DEF UsePlaces, GraphOK
    <3>2. u[1] = n => u[2] <= i
      BY <1>1, <3>1
    <3> QED
      BY <1>1, <3>1, <3>2
  <2> QED
    BY <2>1 DEF UsesLeft
<1>3. ASSUME NEW v PROVE Present(v, n, p) <=> Present(v, n + 1, 0)
  <2>1. n + 1 - 1 = n /\ n \in DOMAIN nodes
    BY <1>1
  <2>2. Within(v, n) <=> Within(v, n - 1) \/ \E k \in 1 .. p : v = NodeRef(n, k)
    <3>1. \A m : m \in 1 .. n <=> m \in 1 .. n - 1 \/ m = n
      BY <1>1, SeqShape DEF GraphOK
    <3> QED
      BY <1>1, <3>1 DEF Within
  <2>3. Present(v, n + 1, 0) <=> Within(v, n)
    BY <2>1 DEF Present
  <2>4. Present(v, n, p) <=> Within(v, n - 1) \/ \E k \in 1 .. p : v = NodeRef(n, k)
    BY DEF Present
  <2> QED
    BY <2>2, <2>3, <2>4
<1>4. Counted(s, n + 1, 0, out)
  BY <1>2 DEF Ready, Counted
<1>5. \A k \in 0 + 1 .. 0 : FALSE
  OBVIOUS
<1>6. Kept(s, n + 1, 0, 0, 0, out)
  BY <1>2, <1>3, <1>5 DEF Ready, Kept, Wanted
<1> QED
  BY <1>4, <1>6 DEF Ready

\* A node whose inputs are there ends without an error, or with an overflow.
LEMMA NodeReady ==
    ASSUME GraphOK, NEW n \in DOMAIN nodes, NEW s, Exact(s), s.err = "none", NEW out,
           Ready(s, n, 0, 0, 0, out), NEW origins, NEW x \in Nat,
           NEW t, t = ScheduleNode(s, n, origins, x)
    PROVE  t.err \in {"none", "limit"} /\ (t.err = "none" => Ready(t, n + 1, 0, 0, 0, out))
<1> DEFINE f == NodeSchedule(s, n, origins, x)
           last == ScheduleCalls(nodes[n])
           Good(c) == /\ f[c].err \in {"none", "limit"}
                      /\ f[c].err = "none" => Exact(f[c]) /\ Progress(f[c], n, c, out)
           T == {c \in Nat : c <= last /\ ~Good(c)}
<1>1. SizesFit(n) /\ last \in Nat
  BY NodeSizes, CallsCounted
<1>2. /\ f[0] = s
      /\ \A c \in 1 .. last : f[c] = OrElse(f[c - 1], ScheduleCall(f[c - 1], n, origins, x, c))
  BY <1>1, RunSteps
<1>3. f[last] = t
  BY DEF ScheduleNode
<1> HIDE DEF f
<1>4. ASSUME NEW c \in 1 .. last, Good(c - 1) PROVE Good(c)
  <2>1. CASE f[c - 1].err = "none"
    <3>1. Exact(f[c - 1]) /\ Progress(f[c - 1], n, c - 1, out)
          /\ f[c] = ScheduleCall(f[c - 1], n, origins, x, c)
      BY <1>2, <1>4, <2>1 DEF OrElse
    <3>2. f[c].err \in {"none", "limit"} /\ (f[c].err = "none" => Progress(f[c], n, c, out))
      BY <2>1, <3>1, CallReady
    <3>3. f[c].err = "none" => Exact(f[c])
      BY <1>1, <2>1, <3>1, CallExact
    <3> QED
      BY <3>2, <3>3
  <2>2. CASE f[c - 1].err # "none"
    BY <1>2, <1>4, <2>2 DEF OrElse
  <2> QED
    BY <2>1, <2>2
<1>5. Good(0)
  <2>1. Progress(s, n, 0, out)
    <3> DEFINE outs == Len(nodes[n].outputs)
               ins == Len(nodes[n].inputs)
    <3>1. outs \in Nat /\ ins \in Nat
      BY <1>1 DEF SizesFit
    <3>2. Progress(s, n, 0, out) <=> Stage(s, n, outs, ins, 0, out)
      BY DEF Progress
    <3> HIDE DEF outs, ins
    <3> QED
      BY <3>1, <3>2 DEF Stage
  <2> QED
    BY <1>2, <2>1
<1> HIDE DEF Good, last
<1>6. T = {}
  <2>1. SUFFICES ASSUME T # {} PROVE FALSE
    OBVIOUS
  <2>2. PICK c \in T : \A d \in T : c <= d
    BY <2>1, LeastNumber
  <2>3. c # 0 /\ c \in 1 .. last /\ c - 1 \in Nat /\ c - 1 \notin T
    BY <1>1, <1>5, <2>2
  <2>4. Good(c - 1)
    BY <1>1, <2>3
  <2> QED
    BY <1>4, <2>2, <2>3, <2>4
<1>7. Good(last)
  BY <1>1, <1>6
<1>8. t.err = "none" => Ready(t, n + 1, 0, 0, 0, out)
  <2> DEFINE outs == Len(nodes[n].outputs)
             ins == Len(nodes[n].inputs)
  <2>1. outs \in Nat /\ ins \in Nat /\ ins >= 1 /\ last = 2 * outs + ins + 1
    <3>1. outs \in Nat /\ ins \in 1 .. 2
      BY <1>1 DEF SizesFit, GraphOK, NodeOK
    <3>2. last = 2 * outs + ins + 1
      BY DEF ScheduleCalls, last
    <3> HIDE DEF outs, ins
    <3> QED
      BY <3>1, <3>2
  <2>2. SUFFICES ASSUME t.err = "none" PROVE Ready(t, n + 1, 0, 0, 0, out)
    OBVIOUS
  <2>3. /\ last > outs + 1 /\ last <= outs + 1 + ins => Ready(t, n, outs, last - outs - 1, 0, out)
        /\ last > outs + 1 + ins => Ready(t, n, outs, ins, last - outs - 1 - ins, out)
    BY <1>3, <1>7, <2>2 DEF Good, Progress, Stage
  <2> HIDE DEF outs, ins
  <2>4. Ready(t, n, outs, ins, outs, out)
    <3>1. CASE outs = 0
      <4>1. last > outs + 1 /\ last <= outs + 1 + ins /\ last - outs - 1 = ins
        BY <2>1, <3>1
      <4> QED
        BY <2>3, <3>1, <4>1
    <3>2. CASE outs # 0
      <4>1. last > outs + 1 + ins /\ last - outs - 1 - ins = outs
        BY <2>1, <3>2
      <4> QED
        BY <2>3, <4>1
    <3> QED
      BY <3>1, <3>2
  <2> QED
    BY <2>4, ReadyForNext DEF outs, ins
<1> QED
  BY <1>3, <1>7, <1>8 DEF Good

-----------------------------------------------------------------------------
(* Products of dimensions *)

IsProduct(f, m, q) == f = [k \in 0 .. m |-> IF k = 0 THEN 1 ELSE f[k - 1] * q[k]]

\* The products of the first dimensions, one after the other.
Products(f, m, q) == f[0] = 1 /\ \A k \in 1 .. m : f[k] = f[k - 1] * q[k]

LEMMA ProductExists ==
    ASSUME NEW q, NEW m \in Nat
    PROVE  \E f : IsProduct(f, m, q)
<1> DEFINE T == {l \in Nat : ~\E f : IsProduct(f, l, q)}
<1>1. SUFFICES ASSUME T # {} PROVE FALSE
  OBVIOUS
<1>2. PICK l \in T : \A j \in T : l <= j
  BY <1>1, LeastNumber
<1>3. CASE l = 0
  <2> DEFINE f == [k \in 0 .. 0 |-> 1]
  <2>1. IsProduct(f, 0, q)
    BY DEF IsProduct
  <2> QED
    BY <1>2, <1>3, <2>1
<1>4. CASE l # 0
  <2>1. l \in Nat /\ l - 1 \in Nat /\ l - 1 \notin T
    BY <1>2, <1>4
  <2>2. PICK f : IsProduct(f, l - 1, q)
    BY <2>1
  <2> DEFINE x == f[l - 1] * q[l]
             g == [k \in 0 .. l |-> IF k = l THEN x ELSE f[k]]
  <2>3. ASSUME NEW k \in 0 .. l PROVE g[k] = IF k = 0 THEN 1 ELSE g[k - 1] * q[k]
    <3>1. CASE k = l
      <4>1. g[k - 1] = f[l - 1]
        BY <1>4, <2>1, <3>1
      <4> QED
        BY <1>4, <3>1, <4>1
    <3>2. CASE k # l
      <4>1. k \in 0 .. l - 1 /\ g[k] = f[k]
        BY <2>1, <3>2
      <4>2. k # 0 => k - 1 \in 0 .. l /\ k - 1 # l /\ g[k - 1] = f[k - 1]
        BY <2>1, <4>1
      <4> QED
        BY <2>2, <4>1, <4>2 DEF IsProduct
    <3> QED
      BY <3>1, <3>2
  <2>4. IsProduct(g, l, q)
    BY <2>3 DEF IsProduct
  <2> QED
    BY <1>2, <2>4
<1> QED
  BY <1>3, <1>4

LEMMA ProductSteps ==
    ASSUME NEW q, Len(q) \in Nat
    PROVE  \E f : Products(f, Len(q), q) /\ Product(q) = f[Len(q)]
<1>1. PICK g : IsProduct(g, Len(q), q)
  BY ProductExists
<1> DEFINE f == CHOOSE h : IsProduct(h, Len(q), q)
<1>2. Product(q) = f[Len(q)]
  BY DEF Product, IsProduct
<1>3. IsProduct(f, Len(q), q)
  BY <1>1
<1> HIDE DEF f
<1>4. f[0] = 1 /\ \A k \in 1 .. Len(q) : f[k] = f[k - 1] * q[k]
  BY <1>3 DEF IsProduct
<1> QED
  BY <1>2, <1>4 DEF Products

SameDims(q, r, m) == \A k \in 1 .. m : q[k] \in Nat /\ r[k] = q[k]
SameNumbers(f, g, m) == \A k \in 0 .. m : f[k] \in Nat /\ f[k] = g[k]

\* Products are numbers, and those of equal dimensions are equal.
LEMMA ProductsEqual ==
    ASSUME NEW q, NEW r, NEW m \in Nat, SameDims(q, r, m),
           NEW f, NEW g, Products(f, m, q), Products(g, m, r)
    PROVE  SameNumbers(f, g, m)
<1> DEFINE T == {l \in Nat : l <= m /\ ~(f[l] \in Nat /\ f[l] = g[l])}
<1>1. SUFFICES ASSUME T # {} PROVE FALSE
  BY DEF SameNumbers
<1>2. PICK l \in T : \A j \in T : l <= j
  BY <1>1, LeastNumber
<1>3. l # 0
  BY <1>2 DEF Products
<1>4. l \in 1 .. m /\ l - 1 \in Nat /\ l - 1 \notin T
  BY <1>2, <1>3
<1>5. f[l - 1] \in Nat /\ f[l - 1] = g[l - 1]
  BY <1>4
<1>6. f[l] = f[l - 1] * q[l] /\ g[l] = g[l - 1] * r[l] /\ q[l] \in Nat /\ r[l] = q[l]
  BY <1>4 DEF Products, SameDims
<1>7. ASSUME NEW a \in Nat, NEW b \in Nat PROVE a * b \in Nat
  OBVIOUS
<1> QED
  BY <1>2, <1>5, <1>6, <1>7

Volume(outer, length, inner) == (outer * length) * inner
IsSplit(q, o, d, i) == o \in Nat /\ i \in Nat /\ Product(q) = Volume(o, d, i)

\* The product of a shape that is p, but for the length along one axis.
LEMMA ProductSplit ==
    ASSUME NEW p \in Seq(Nat), NEW q \in Seq(Nat), Len(q) = Len(p), NEW a \in 1 .. Len(p),
           \A b \in 1 .. Len(p) : b # a => q[b] = p[b],
           NEW o, o = Product(SubSeq(p, 1, a - 1)), NEW i, i = Product(SubSeq(p, a + 1, Len(p))),
           NEW d, d = q[a]
    PROVE  IsSplit(q, o, d, i)
<1> DEFINE m == Len(p)
           u == SubSeq(p, 1, a - 1)
           w == SubSeq(p, a + 1, m)
<1>1. /\ m \in Nat /\ Len(q) = m /\ a \in 1 .. m
      /\ \A b \in 1 .. m : p[b] \in Nat /\ q[b] \in Nat /\ (b # a => q[b] = p[b])
  BY LenProperties
<1>2. Len(u) = a - 1 /\ \A k \in 1 .. a - 1 : u[k] = p[k]
  BY <1>1
<1>3. Len(w) = m - a /\ \A k \in 1 .. m - a : w[k] = p[a + k]
  BY <1>1
<1> HIDE DEF m, u, w
<1>4. PICK f : Products(f, m, q) /\ Product(q) = f[m]
  BY <1>1, ProductSteps
<1>5. PICK g : Products(g, a - 1, u) /\ o = g[a - 1]
  <2>1. Len(u) \in Nat
    BY <1>1, <1>2
  <2>2. o = Product(u)
    BY DEF u
  <2>3. \E g : Products(g, Len(u), u) /\ Product(u) = g[Len(u)]
    BY <2>1, ProductSteps
  <2> QED
    BY <1>2, <2>2, <2>3
<1>6. PICK h : Products(h, m - a, w) /\ i = h[m - a]
  <2>1. Len(w) \in Nat
    BY <1>1, <1>3
  <2>2. i = Product(w)
    BY DEF w, m
  <2>3. PICK h : Products(h, Len(w), w) /\ Product(w) = h[Len(w)]
    BY <2>1, ProductSteps
  <2>4. Products(h, m - a, w) /\ i = h[m - a]
    BY <1>3, <2>2, <2>3
  <2> QED
    BY <2>4
<1>7. f[a - 1] \in Nat /\ f[a - 1] = o
  <2>1. a - 1 \in Nat /\ \A k \in 1 .. a - 1 : q[k] \in Nat /\ u[k] = q[k]
    <3>1. a - 1 \in Nat
      BY <1>1
    <3>2. ASSUME NEW k \in 1 .. a - 1 PROVE k \in 1 .. m /\ k # a /\ u[k] = p[k]
      BY <1>1, <1>2
    <3> QED
      BY <1>1, <3>1, <3>2
  <2>2. Products(f, a - 1, q)
    BY <1>1, <1>4 DEF Products
  <2>3. \A k \in 0 .. a - 1 : f[k] \in Nat /\ f[k] = g[k]
    <3>1. SameDims(q, u, a - 1)
      BY <2>1 DEF SameDims
    <3>2. SameNumbers(f, g, a - 1)
      BY <1>5, <2>1, <2>2, <3>1, ProductsEqual
    <3> QED
      BY <3>2 DEF SameNumbers
  <2> QED
    BY <1>5, <2>1, <2>3
<1>8. f[a] = o * q[a]
  BY <1>1, <1>4, <1>7 DEF Products
<1>9. \A k \in 1 .. m - a : w[k] \in Nat /\ w[k] = q[a + k]
  <2>1. ASSUME NEW k \in 1 .. m - a PROVE a + k \in 1 .. m /\ a + k # a /\ w[k] = p[a + k]
    BY <1>1, <1>3
  <2> QED
    BY <1>1, <2>1
<1>10. \A k \in 0 .. m - a : h[k] \in Nat
  <2>1. m - a \in Nat
    BY <1>1
  <2>2. SameDims(w, w, m - a)
    BY <1>9 DEF SameDims
  <2>3. SameNumbers(h, h, m - a)
    BY <1>6, <2>1, <2>2, ProductsEqual
  <2> QED
    BY <2>3 DEF SameNumbers
<1>11. f[a] \in Nat
  <2>1. ASSUME NEW x \in Nat, NEW y \in Nat PROVE x * y \in Nat
    OBVIOUS
  <2> QED
    BY <1>1, <1>7, <1>8, <2>1
<1> DEFINE T == {l \in Nat : l <= m - a /\ f[a + l] # f[a] * h[l]}
<1>12. T = {}
  <2>1. SUFFICES ASSUME T # {} PROVE FALSE
    OBVIOUS
  <2>2. PICK l \in T : \A j \in T : l <= j
    BY <2>1, LeastNumber
  <2>3. l # 0
    <3>1. f[a + 0] = f[a] /\ h[0] = 1 /\ f[a] * 1 = f[a]
      BY <1>1, <1>6, <1>11 DEF Products
    <3> QED
      BY <2>2, <3>1
  <2>4. l \in 1 .. m - a /\ l - 1 \in Nat /\ l - 1 \notin T /\ l - 1 \in 0 .. m - a
    BY <1>1, <2>2, <2>3
  <2>5. f[a + (l - 1)] = f[a] * h[l - 1]
    BY <2>4, <1>1
  <2>6. a + l \in 1 .. m /\ (a + l) - 1 = a + (l - 1)
    BY <1>1, <2>4
  <2>7. f[a + l] = f[a + (l - 1)] * q[a + l] /\ h[l] = h[l - 1] * w[l]
    BY <1>4, <1>6, <2>4, <2>6 DEF Products
  <2>8. ASSUME NEW x \in Nat, NEW y \in Nat, NEW z \in Nat PROVE (x * y) * z = x * (y * z)
    OBVIOUS
  <2>9. f[a + l] = f[a] * h[l]
    <3>1. f[a] \in Nat /\ h[l - 1] \in Nat /\ w[l] \in Nat /\ q[a + l] = w[l]
      BY <1>9, <1>10, <1>11, <2>4
    <3>2. (f[a] * h[l - 1]) * w[l] = f[a] * (h[l - 1] * w[l])
      BY <2>8, <3>1
    <3> QED
      BY <2>5, <2>7, <3>1, <3>2
  <2> QED
    BY <2>2, <2>9
<1>13. m - a \in Nat /\ a + (m - a) = m
  BY <1>1
<1>14. f[m] = f[a] * h[m - a]
  BY <1>12, <1>13
<1> QED
  BY <1>4, <1>6, <1>7, <1>8, <1>10, <1>13, <1>14 DEF IsSplit, Volume

\* The four dimensions of a convolution's weights, in the order that
\* build_oihw_to_ohwi_elements gives them.
LEMMA ProductOfFour ==
    ASSUME NEW p \in Seq(Nat), Len(p) = 4, NEW q, Len(q) = 4,
           q[1] = p[1], q[2] = p[3], q[3] = p[4], q[4] = p[2]
    PROVE  Product(q) = Product(p)
<1>1. p[1] \in Nat /\ p[2] \in Nat /\ p[3] \in Nat /\ p[4] \in Nat
  <2>1. \A k \in 1 .. Len(p) : p[k] \in Nat
    BY LenProperties
  <2> QED
    BY <2>1
<1>2. ASSUME NEW r, Len(r) = 4, r[1] \in Nat, r[2] \in Nat, r[3] \in Nat, r[4] \in Nat
      PROVE  Product(r) = ((r[1] * r[2]) * r[3]) * r[4]
  <2>1. PICK f : Products(f, 4, r) /\ Product(r) = f[4]
    <3>1. \E f : Products(f, Len(r), r) /\ Product(r) = f[Len(r)]
      <4>1. Len(r) \in Nat
        BY <1>2
      <4> QED
        BY <4>1, ProductSteps
    <3> QED
      BY <1>2, <3>1
  <2>2. f[0] = 1 /\ f[1] = f[0] * r[1] /\ f[2] = f[1] * r[2] /\ f[3] = f[2] * r[3] /\ f[4] = f[3] * r[4]
    BY <2>1 DEF Products
  <2>3. f[1] = r[1]
    BY <1>2, <2>2
  <2> QED
    BY <2>1, <2>2, <2>3
<1>3. ASSUME NEW a \in Nat, NEW b \in Nat, NEW c \in Nat, NEW d \in Nat
      PROVE  ((a * c) * d) * b = ((a * b) * c) * d
  OBVIOUS
<1> QED
  BY <1>1, <1>2, <1>3

-----------------------------------------------------------------------------
(* Shapes *)

\* Shapes of numbers, as the facts of an input have them.
Shaped(f) == f.shape \in Seq(Nat) /\ f.storage \in Seq(Nat)

LEMMA SequenceOfNumbers ==
    ASSUME NEW m \in Nat, NEW q, q = [k \in 1 .. m |-> q[k]], \A k \in 1 .. m : q[k] \in Nat
    PROVE  q \in Seq(Nat) /\ Len(q) = m
<1>1. q \in [1 .. m -> Nat]
  OBVIOUS
<1> QED
  BY <1>1

\* A shape with another length along one axis.
LEMMA ChangedShape ==
    ASSUME NEW p \in Seq(Nat), NEW a \in DOMAIN p, NEW d \in Nat, NEW q, q = [p EXCEPT ![a] = d]
    PROVE  /\ q \in Seq(Nat) /\ Len(q) = Len(p) /\ q[a] = d
           /\ \A b \in 1 .. Len(p) : b # a => q[b] = p[b]
<1>1. Len(p) \in Nat /\ DOMAIN p = 1 .. Len(p) /\ \A k \in 1 .. Len(p) : p[k] \in Nat
  BY LenProperties
<1>2. q = [k \in 1 .. Len(p) |-> q[k]] /\ q[a] = d /\ \A b \in 1 .. Len(p) : b # a => q[b] = p[b]
  BY <1>1
<1>3. \A k \in 1 .. Len(p) : q[k] \in Nat
  BY <1>1, <1>2
<1> QED
  BY <1>1, <1>2, <1>3, SequenceOfNumbers

LEMMA PermutedShaped ==
    ASSUME NEW order \in Seq(Nat), NEW f, f.shape \in Seq(Nat), IsPermutation(order),
           Len(order) = Len(f.shape), NEW q, q = PermutedShape(order, f)
    PROVE  q \in Seq(Nat) /\ Len(q) = Len(order) /\ \A k \in 1 .. Len(order) : q[k] = f.shape[order[k]]
<1> DEFINE m == Len(order)
<1>1. m \in Nat /\ DOMAIN order = 1 .. m
  BY LenProperties
<1>2. \A k \in 1 .. m : f.shape[k] \in Nat
  BY LenProperties
<1>3. \A k \in 1 .. m : order[k] \in 1 .. m
  BY <1>1 DEF IsPermutation, Range
<1>4. q = [k \in 1 .. m |-> f.shape[order[k]]]
  BY <1>1 DEF PermutedShape
<1> HIDE DEF m
<1>5. q = [k \in 1 .. m |-> q[k]] /\ \A k \in 1 .. m : q[k] = f.shape[order[k]] /\ q[k] \in Nat
  BY <1>2, <1>3, <1>4
<1>6. q \in Seq(Nat) /\ Len(q) = m
  BY <1>1, <1>5, SequenceOfNumbers
<1> QED
  BY <1>5, <1>6 DEF m

LEMMA ContiguousShaped ==
    ASSUME NEW shape \in Seq(Nat), NEW dtype, NEW f, f = ContiguousFacts(shape, dtype)
    PROVE  Shaped(f)
<1>1. f.shape = shape /\ f.storage = shape
  BY DEF ContiguousFacts
<1> QED
  BY <1>1 DEF Shaped

LEMMA StorageShaped ==
    ASSUME NEW f, IsFacts(f), Shaped(f), NEW order, NEW storage \in Seq(Nat), NEW layout,
           NEW g, g = StorageFacts(f, order, storage, layout)
    PROVE  Shaped(g)
<1>1. PICK s, b : g = [f EXCEPT !.storage = storage, !.strides = s, !.layout = layout, !.bytes = b]
  BY DEF StorageFacts
<1>2. g.shape = f.shape /\ g.storage = storage
  BY <1>1 DEF IsFacts, FactFields
<1> QED
  BY <1>2 DEF Shaped

LEMMA InferredShaped ==
    ASSUME NEW op \in Operations, NEW fs, IsFacts(fs[1]), Shaped(fs[1]), OperationAccepted(op, fs),
           NEW k \in DOMAIN InferOutputs(op, fs)
    PROVE  Shaped(InferOutputs(op, fs)[k])
<1> DEFINE f == fs[1]
<1>1. op.kind \in {"concat", "permute", "pad", "slice", "split", "reshape", "prepare"}
  BY OperationsAssumption
<1>2. IsFacts(f) /\ Shaped(f) /\ f.shape \in Seq(Nat)
  BY DEF Shaped
<1>3. ASSUME NEW e, InferOutputs(op, fs) = <<e>>, Shaped(e) PROVE Shaped(InferOutputs(op, fs)[k])
  BY <1>3
<1>4. ASSUME NEW shape \in Seq(Nat), NEW dtype, InferOutputs(op, fs) = <<ContiguousFacts(shape, dtype)>>
      PROVE  Shaped(InferOutputs(op, fs)[k])
  BY <1>3, <1>4, ContiguousShaped
<1>5. CASE op.kind = "concat"
  <2> DEFINE d == AxisEnd(op.axis, fs, Len(fs))
  <2>1. op.axis \in DOMAIN f.shape /\ d \in Nat
    BY <1>5, MaxWordAssumption DEF OperationAccepted, ConcatAccepted, Axes
  <2>2. InferOutputs(op, fs) = <<ContiguousFacts(ConcatShape(op, fs), f.dtype)>>
    BY <1>5 DEF InferOutputs, InferConcat
  <2>3. ConcatShape(op, fs) = [f.shape EXCEPT ![op.axis] = d]
    BY DEF ConcatShape
  <2> HIDE DEF d, f
  <2>4. ConcatShape(op, fs) \in Seq(Nat)
    BY <1>2, <2>1, <2>3, ChangedShape
  <2> QED
    BY <1>4, <2>2, <2>4
<1>6. CASE op.kind = "permute"
  <2> DEFINE q == PermutedShape(op.order, f)
  <2>1. IsPermutation(op.order) /\ Len(op.order) = Len(f.shape) /\ op.order \in Seq(Nat)
    BY <1>6, OperationsAssumption DEF OperationAccepted, PermuteAccepted
  <2>2. q \in Seq(Nat)
    BY <1>2, <2>1, PermutedShaped
  <2>3. InferOutputs(op, fs) = IF op.mode = "logical" THEN <<ContiguousFacts(q, f.dtype)>>
                               ELSE <<StorageFacts(f, op.order, q, op.layout)>>
    BY <1>6 DEF InferOutputs, InferPermute
  <2> HIDE DEF q, f
  <2> QED
    BY <1>2, <1>3, <1>4, <2>2, <2>3, StorageShaped
<1>7. CASE op.kind = "pad"
  <2>1. InferOutputs(op, fs) = <<StorageFacts(f, op.order, op.storage, op.layout)>>
    BY <1>7 DEF InferOutputs, InferPad
  <2>2. op.storage \in Seq(Nat)
    BY <1>7, OperationsAssumption
  <2> HIDE DEF f
  <2> QED
    BY <1>2, <1>3, <2>1, <2>2, StorageShaped
<1>8. CASE op.kind = "slice"
  <2> DEFINE q == [a \in DOMAIN op.ranges |-> op.ranges[a][2] - op.ranges[a][1]]
             m == Len(op.ranges)
  <2>1. InferOutputs(op, fs) = <<ContiguousFacts(q, f.dtype)>>
    BY <1>8 DEF InferOutputs, InferSlice
  <2>2. m \in Nat /\ DOMAIN op.ranges = 1 .. m /\ \A a \in 1 .. m : op.ranges[a] \in Nat \X Nat
    BY <1>8, OperationsAssumption, LenProperties
  <2>3. \A a \in 1 .. m : op.ranges[a][1] <= op.ranges[a][2]
    BY <1>8, <2>2 DEF OperationAccepted, SliceAccepted, RangeFits
  <2>4. \A a \in 1 .. m : q[a] = op.ranges[a][2] - op.ranges[a][1] /\ q[a] \in Nat
    BY <2>2, <2>3
  <2>5. q = [a \in 1 .. m |-> q[a]]
    BY <2>2
  <2> HIDE DEF q, m, f
  <2>6. q \in Seq(Nat)
    BY <2>2, <2>4, <2>5, SequenceOfNumbers
  <2> QED
    BY <1>4, <2>1, <2>6
<1>9. CASE op.kind = "split"
  <2> DEFINE d == op.ranges[k][2] - op.ranges[k][1]
  <2>1. /\ InferOutputs(op, fs)[k] = ContiguousFacts(SplitShape(op, f, k), f.dtype)
        /\ k \in DOMAIN op.ranges
    BY <1>9 DEF InferOutputs, InferSplit
  <2>2. op.ranges[k] \in Nat \X Nat
    BY <1>9, <2>1, OperationsAssumption, LenProperties
  <2>3. op.axis \in DOMAIN f.shape /\ op.ranges[k][1] < op.ranges[k][2]
    BY <1>9, <2>1 DEF OperationAccepted, SplitAccepted, Axes
  <2>4. d \in Nat
    BY <2>2, <2>3
  <2>5. SplitShape(op, f, k) = [f.shape EXCEPT ![op.axis] = d]
    BY DEF SplitShape
  <2> HIDE DEF d, f
  <2>6. SplitShape(op, f, k) \in Seq(Nat)
    BY <1>2, <2>3, <2>4, <2>5, ChangedShape
  <2> QED
    BY <2>1, <2>6, ContiguousShaped
<1>10. CASE op.kind = "reshape"
  <2>1. InferOutputs(op, fs) = <<ContiguousFacts(op.shape, f.dtype)>> /\ op.shape \in Seq(Nat)
    BY <1>10, OperationsAssumption DEF InferOutputs, InferReshape
  <2> QED
    BY <1>4, <2>1
<1>11. CASE op.kind = "prepare"
  <2>1. InferOutputs(op, fs) = <<ContiguousFacts(f.shape, op.target.dtype)>>
    BY <1>11 DEF InferOutputs, InferPrepare
  <2> QED
    BY <1>2, <1>4, <2>1
<1> QED
  BY <1>1, <1>5, <1>6, <1>7, <1>8, <1>9, <1>10, <1>11

\* The facts of every value have shapes of numbers.
LEMMA ValuesShaped ==
    ASSUME GraphOK, NEW v, NEW n, Within(v, n)
    PROVE  Shaped(Facts(v))
<1>1. ASSUME NEW i \in DOMAIN inputs PROVE Shaped(inputs[i])
  <2>1. inputs[i] \in InputFacts
    BY DEF GraphOK
  <2>2. inputs[i] \in [shape : Seq(Nat), storage : Seq(Nat), logicalStrides : Seq(Nat),
                       strides : Seq(Nat), dtype : DTypes, layout : STRING, bytes : Nat]
    BY <2>1, InputFactsAssumption
  <2> QED
    BY <2>2 DEF Shaped
<1> DEFINE Good(m) == \A k \in DOMAIN nodes[m].outputs : Shaped(nodes[m].outputs[k])
           T == {m \in Nat : m \in DOMAIN nodes /\ ~Good(m)}
<1>2. T = {}
  <2>1. SUFFICES ASSUME T # {} PROVE FALSE
    OBVIOUS
  <2>2. PICK m \in T : \A d \in T : m <= d
    BY <2>1, LeastNumber
  <2>3. NodeOK(m) /\ 1 \in DOMAIN nodes[m].inputs /\ m \in DOMAIN nodes
    BY <2>2 DEF GraphOK, NodeOK
  <2> DEFINE u == nodes[m].inputs[1]
  <2>4. Within(u, m - 1)
    BY <2>3 DEF NodeOK
  <2>5. Shaped(Facts(u))
    <3>1. CASE \E i \in DOMAIN inputs : u = InputRef(i)
      BY <1>1, <3>1 DEF Facts, InputRef
    <3>2. CASE ~\E i \in DOMAIN inputs : u = InputRef(i)
      <4>1. PICK j \in 1 .. m - 1 : j \in DOMAIN nodes /\ \E k \in DOMAIN nodes[j].outputs : u = NodeRef(j, k)
        BY <2>4, <3>2 DEF Within
      <4>2. PICK k \in DOMAIN nodes[j].outputs : u = NodeRef(j, k)
        BY <4>1
      <4>3. j \notin T /\ j \in Nat
        BY <2>2, <4>1
      <4>4. Facts(u) = nodes[j].outputs[k]
        BY <4>2 DEF Facts, NodeRef
      <4> QED
        BY <4>1, <4>2, <4>3, <4>4
    <3> QED
      BY <3>1, <3>2
  <2>6. InputsFacts(m)[1] = Facts(u) /\ IsFacts(Facts(u))
    BY <2>3, <2>4, ValuesFacts DEF InputsFacts
  <2>7. ASSUME NEW k \in DOMAIN nodes[m].outputs PROVE Shaped(nodes[m].outputs[k])
    <3>1. /\ nodes[m].outputs = InferOutputs(nodes[m].op, InputsFacts(m)) /\ nodes[m].op \in Operations
          /\ OperationAccepted(nodes[m].op, InputsFacts(m))
      BY <2>3 DEF NodeOK
    <3> QED
      BY <2>5, <2>6, <3>1, InferredShaped
  <2> QED
    BY <2>2, <2>7
<1>3. CASE \E i \in DOMAIN inputs : v = InputRef(i)
  BY <1>1, <1>3 DEF Facts, InputRef
<1>4. CASE ~\E i \in DOMAIN inputs : v = InputRef(i)
  <2>1. PICK m \in 1 .. n : m \in DOMAIN nodes /\ \E k \in DOMAIN nodes[m].outputs : v = NodeRef(m, k)
    BY <1>4 DEF Within
  <2>2. PICK k \in DOMAIN nodes[m].outputs : v = NodeRef(m, k)
    BY <2>1
  <2>3. Facts(v) = nodes[m].outputs[k] /\ m \in Nat /\ m \notin T
    BY <1>2, <2>1, <2>2 DEF Facts, NodeRef
  <2> QED
    BY <2>1, <2>2, <2>3
<1> QED
  BY <1>3, <1>4

-----------------------------------------------------------------------------
(* Sequences joined *)

LEMMA ListOf ==
    ASSUME NEW m \in Nat, NEW q, q = [k \in 1 .. m |-> q[k]]
    PROVE  IsSeq(q) /\ Len(q) = m
<1>1. q \in [1 .. m -> Range(q)]
  BY DEF Range
<1> QED
  BY <1>1, FunctionSeq

LEMMA AnySeq ==
    ASSUME NEW S, NEW q \in Seq(S)
    PROVE  IsSeq(q)
<1>1. Len(q) \in Nat /\ q \in [1 .. Len(q) -> S]
  BY LenProperties
<1> QED
  BY <1>1, FunctionSeq

Join(p, q) == p \o q

LEMMA Joined ==
    ASSUME NEW p, IsSeq(p), NEW q, IsSeq(q), NEW r, r = Join(p, q)
    PROVE  IsSeq(r) /\ Len(r) = Len(p) + Len(q)
<1> DEFINE S == Range(p) \cup Range(q)
<1>1. p \in Seq(S) /\ q \in Seq(S)
  BY SeqMonotonic DEF IsSeq
<1> HIDE DEF S
<1>2. r \in Seq(S) /\ Len(r) = Len(p) + Len(q)
  BY <1>1, ConcatProperties DEF Join
<1> QED
  BY <1>2, AnySeq

\* A chunk has the length its bounds say.
ChunkAt(q, i, n) == SubSeq(q, i * n + 1, (i + 1) * n)

LEMMA ChunkLength ==
    ASSUME NEW q, NEW i \in Nat, NEW n \in Nat, NEW r, r = ChunkAt(q, i, n)
    PROVE  IsSeq(r) /\ Len(r) = n
<1> DEFINE l == i * n + 1
           h == (i + 1) * n
           S == {q[k] : k \in l .. h}
<1>1. ASSUME NEW a \in Nat, NEW b \in Nat
      PROVE  a * b + 1 \in Int /\ (a + 1) * b \in Int /\ (a + 1) * b = (a * b + 1) + b - 1
  OBVIOUS
<1>2. l \in Int /\ h \in Int /\ h = l + n - 1 /\ r = SubSeq(q, l, h)
  BY <1>1 DEF ChunkAt
<1> HIDE DEF l, h
<1>3. \A k \in l .. h : q[k] \in S
  OBVIOUS
<1> HIDE DEF S
<1>4. r \in Seq(S) /\ Len(r) = IF l <= h THEN h - l + 1 ELSE 0
  <2>1. SubSeq(q, l, h) \in Seq(S)
    BY <1>2, <1>3, SubSeqProperties
  <2>2. Len(SubSeq(q, l, h)) = IF l <= h THEN h - l + 1 ELSE 0
    BY <1>2, <1>3, SubSeqProperties
  <2> QED
    BY <1>2, <2>1, <2>2, Zenon
<1>5. Len(r) = n
  BY <1>2, <1>4
<1> QED
  BY <1>4, <1>5, AnySeq

IsFlat(f, m, q) == f = [k \in 1 .. m |-> IF k = 1 THEN q[k] ELSE Join(f[k - 1], q[k])]

LEMMA FlatExists ==
    ASSUME NEW q, NEW m \in Nat \ {0}
    PROVE  \E f : IsFlat(f, m, q)
<1> DEFINE T == {l \in Nat : l # 0 /\ ~\E f : IsFlat(f, l, q)}
<1>1. SUFFICES ASSUME T # {} PROVE FALSE
  OBVIOUS
<1>2. PICK l \in T : \A j \in T : l <= j
  BY <1>1, LeastNumber
<1>3. CASE l = 1
  <2> DEFINE f == [k \in 1 .. 1 |-> q[1]]
  <2>1. IsFlat(f, 1, q)
    BY DEF IsFlat
  <2> QED
    BY <1>2, <1>3, <2>1
<1>4. CASE l # 1
  <2>1. l \in Nat /\ l > 1 /\ l - 1 \in Nat /\ l - 1 # 0 /\ l - 1 \notin T
    BY <1>2, <1>4
  <2>2. PICK f : IsFlat(f, l - 1, q)
    BY <2>1
  <2> DEFINE x == Join(f[l - 1], q[l])
             g == [k \in 1 .. l |-> IF k = l THEN x ELSE f[k]]
  <2>3. ASSUME NEW k \in 1 .. l PROVE g[k] = IF k = 1 THEN q[k] ELSE Join(g[k - 1], q[k])
    <3>1. CASE k = l
      <4>1. g[k - 1] = f[l - 1]
        BY <1>4, <2>1, <3>1
      <4> QED
        BY <1>4, <3>1, <4>1
    <3>2. CASE k # l
      <4>1. k \in 1 .. l - 1 /\ g[k] = f[k]
        BY <2>1, <3>2
      <4>2. k # 1 => k - 1 \in 1 .. l /\ k - 1 # l /\ g[k - 1] = f[k - 1]
        BY <2>1, <4>1
      <4> QED
        BY <2>2, <4>1, <4>2 DEF IsFlat
    <3> QED
      BY <3>1, <3>2
  <2>4. IsFlat(g, l, q)
    BY <2>3 DEF IsFlat
  <2> QED
    BY <1>2, <2>1, <2>4
<1> QED
  BY <1>3, <1>4

\* Sequences appended one after the other.
Flattens(f, m, q) == f[1] = q[1] /\ \A k \in 2 .. m : f[k] = Join(f[k - 1], q[k])

LEMMA FlattenSteps ==
    ASSUME NEW q, Len(q) \in Nat \ {0}
    PROVE  \E f : Flattens(f, Len(q), q) /\ FlattenSeq(q) = f[Len(q)]
<1>1. PICK g : IsFlat(g, Len(q), q)
  BY FlatExists
<1> DEFINE f == CHOOSE h : IsFlat(h, Len(q), q)
<1>2. FlattenSeq(q) = f[Len(q)]
  BY DEF FlattenSeq, IsFlat, Join
<1>3. IsFlat(f, Len(q), q)
  BY <1>1
<1> HIDE DEF f
<1>4. f[1] = q[1] /\ \A k \in 2 .. Len(q) : f[k] = Join(f[k - 1], q[k])
  <2>1. PICK m \in Nat \ {0} : m = Len(q)
    OBVIOUS
  <2>2. f = [k \in 1 .. m |-> IF k = 1 THEN q[k] ELSE Join(f[k - 1], q[k])]
    BY <1>3, <2>1 DEF IsFlat
  <2>3. f[1] = q[1] /\ \A k \in 2 .. m : f[k] = Join(f[k - 1], q[k])
    BY <2>2
  <2> QED
    BY <2>1, <2>3
<1> QED
  BY <1>2, <1>4 DEF Flattens

\* Rows of one length make so many times that length.
LEMMA FlatRows ==
    ASSUME NEW q, IsSeq(q), NEW c \in Nat, \A k \in 1 .. Len(q) : IsSeq(q[k]) /\ Len(q[k]) = c,
           NEW r, r = FlattenSeq(q)
    PROVE  IsSeq(r) /\ Len(r) = Len(q) * c
<1> DEFINE m == Len(q)
<1>1. m \in Nat
  BY SeqShape
<1>2. CASE m = 0
  <2>1. r = q
    BY <1>2 DEF FlattenSeq
  <2>2. 0 * c = 0
    OBVIOUS
  <2> QED
    BY <1>2, <2>1, <2>2
<1>3. CASE m # 0
  <2>1. PICK f : Flattens(f, m, q) /\ r = f[m]
    BY <1>1, <1>3, FlattenSteps
  <2> HIDE DEF m
  <2>2. \A k \in 1 .. m : IsSeq(q[k]) /\ Len(q[k]) = c
    BY DEF m
  <2> DEFINE Good(k) == IsSeq(f[k]) /\ Len(f[k]) = k * c
             T == {k \in Nat : k # 0 /\ k <= m /\ ~Good(k)}
  <2>3. Good(1)
    <3>1. f[1] = q[1] /\ 1 * c = c /\ 1 \in 1 .. m
      BY <1>1, <1>3, <2>1 DEF Flattens
    <3> QED
      BY <2>2, <3>1
  <2>4. ASSUME NEW k \in 2 .. m, Good(k - 1) PROVE Good(k)
    <3>1. f[k] = Join(f[k - 1], q[k]) /\ IsSeq(q[k]) /\ Len(q[k]) = c
      BY <1>1, <2>1, <2>2 DEF Flattens
    <3>2. IsSeq(f[k]) /\ Len(f[k]) = Len(f[k - 1]) + Len(q[k])
      BY <2>4, <3>1, Joined
    <3>3. (k - 1) * c + c = k * c
      BY <1>1
    <3> QED
      BY <2>4, <3>1, <3>2, <3>3
  <2> HIDE DEF Good
  <2>5. T = {}
    <3>1. SUFFICES ASSUME T # {} PROVE FALSE
      OBVIOUS
    <3>2. PICK k \in T : \A d \in T : k <= d
      BY <3>1, LeastNumber
    <3>3. k \in 2 .. m /\ k - 1 \in Nat /\ k - 1 # 0 /\ k - 1 \notin T
      BY <1>1, <2>3, <3>2
    <3>4. Good(k - 1)
      BY <1>1, <3>3
    <3> QED
      BY <2>4, <3>2, <3>3, <3>4
  <2>6. Good(m)
    BY <1>1, <1>3, <2>5
  <2> QED
    BY <2>1, <2>6 DEF Good, m
<1> QED
  BY <1>2, <1>3

LEMMA FlatPair ==
    ASSUME NEW q, Len(q) = 2, IsSeq(q[1]), IsSeq(q[2]), NEW r, r = FlattenSeq(q)
    PROVE  IsSeq(r) /\ Len(r) = Len(q[1]) + Len(q[2])
<1>1. Len(q) \in Nat \ {0}
  OBVIOUS
<1>2. PICK f : Flattens(f, Len(q), q) /\ r = f[Len(q)]
  BY <1>1, FlattenSteps
<1>3. f[1] = q[1] /\ f[2] = Join(f[1], q[2]) /\ r = f[2]
  BY <1>2 DEF Flattens
<1> QED
  BY <1>3, Joined

-----------------------------------------------------------------------------
(* How much a kernel makes *)

\* Contents of the length that facts say.
Fits(cells, f) == IsSeq(cells) /\ Len(cells) * Width(f.dtype) = f.bytes

LEMMA CopyLength ==
    ASSUME NEW f, Shaped(f), FactsAccepted(f), NEW source, NEW c, c = CopyElements(f, source)
    PROVE  Fits(c, f)
<1> DEFINE m == Product(f.storage)
<1>1. m \in Nat /\ f.bytes = m * Width(f.dtype)
  BY ElementCount DEF Shaped
<1>2. c = [k \in 1 .. m |-> c[k]]
  BY DEF CopyElements
<1> HIDE DEF m
<1>3. IsSeq(c) /\ Len(c) = m
  BY <1>1, <1>2, ListOf
<1> QED
  BY <1>1, <1>3 DEF Fits

\* The fast kernel of a convolution's weights makes as much as the other.
LEMMA FastPermuteLength ==
    ASSUME NEW fin, Shaped(fin), NEW order, order = <<1, 3, 4, 2>>, Len(order) = Len(fin.shape),
           NEW fout, fout.storage = PermutedShape(order, fin), Shaped(fout), FactsAccepted(fout),
           NEW view, NEW c, c = OihwToOhwi(fin, view)
    PROVE  Fits(c, fout)
<1> DEFINE p == fin.shape
           q == fout.storage
           m == Product(p)
<1>1. p \in Seq(Nat) /\ Len(p) = 4 /\ q \in Seq(Nat)
  BY DEF Shaped
<1>2. q = [k \in 1 .. 4 |-> p[order[k]]]
  BY DEF PermutedShape
<1>3. q[1] = p[1] /\ q[2] = p[3] /\ q[3] = p[4] /\ q[4] = p[2]
  BY <1>2
<1>4. Len(q) = 4
  <2>1. q = [k \in 1 .. 4 |-> q[k]] /\ 4 \in Nat
    BY <1>2
  <2> HIDE DEF q
  <2> QED
    BY <2>1, ListOf
<1>5. Product(q) \in Nat /\ fout.bytes = Product(q) * Width(fout.dtype)
  BY ElementCount DEF Shaped
<1>6. c = [k \in 1 .. m |-> c[k]]
  BY DEF OihwToOhwi
<1> HIDE DEF p, q
<1>7. Product(q) = m
  BY <1>1, <1>3, <1>4, ProductOfFour
<1> HIDE DEF m
<1>8. IsSeq(c) /\ Len(c) = m
  BY <1>5, <1>6, <1>7, ListOf
<1> QED
  BY <1>5, <1>7, <1>8 DEF Fits

IsEnds(e, axis, fs) == e = [j \in 0 .. Len(fs) |-> IF j = 0 THEN 0 ELSE e[j - 1] + fs[j].shape[axis]]

LEMMA AxisEndPair ==
    ASSUME NEW axis, NEW fs, Len(fs) = 2, NEW a \in Nat, a = fs[1].shape[axis],
           NEW b \in Nat, b = fs[2].shape[axis]
    PROVE  AxisEnd(axis, fs, 2) = a + b
<1> DEFINE e == [j \in 0 .. 2 |-> IF j = 0 THEN 0 ELSE IF j = 1 THEN a ELSE a + b]
           f == CHOOSE g : IsEnds(g, axis, fs)
<1>1. IsEnds(e, axis, fs)
  <2>1. ASSUME NEW j \in 0 .. 2 PROVE e[j] = IF j = 0 THEN 0 ELSE e[j - 1] + fs[j].shape[axis]
    <3>1. CASE j = 0
      BY <3>1
    <3>2. CASE j = 1
      <4>1. e[1] = a /\ e[0] = 0
        OBVIOUS
      <4> QED
        BY <3>2, <4>1
    <3>3. CASE j = 2
      <4>1. e[2] = a + b /\ e[1] = a
        OBVIOUS
      <4> QED
        BY <3>3, <4>1
    <3> QED
      BY <3>1, <3>2, <3>3
  <2> QED
    BY <2>1 DEF IsEnds
<1>2. AxisEnd(axis, fs, 2) = f[2]
  BY DEF AxisEnd, IsEnds
<1>3. IsEnds(f, axis, fs)
  BY <1>1
<1> HIDE DEF f
<1>4. f[0] = 0 /\ f[1] = f[0] + fs[1].shape[axis] /\ f[2] = f[1] + fs[2].shape[axis]
  BY <1>3 DEF IsEnds
<1> QED
  BY <1>2, <1>4

RowByRow(o, a, b, i) == o * (a * i + b * i)
AtOnce(o, a, b, i) == Volume(o, a + b, i)
IsChunks(c, o, a, b, i) == IsSeq(c) /\ Len(c) = AtOnce(o, a, b, i)

LEMMA RowsAdd ==
    ASSUME NEW o \in Nat, NEW a \in Nat, NEW b \in Nat, NEW i \in Nat
    PROVE  RowByRow(o, a, b, i) = AtOnce(o, a, b, i)
  BY DEF RowByRow, AtOnce, Volume

\* The chunks of two inputs, outer index by outer index.
LEMMA ChunksLength ==
    ASSUME NEW axis, NEW fs, Len(fs) = 2, DOMAIN fs = 1 .. 2, NEW views,
           NEW a \in Nat, a = fs[1].shape[axis], NEW b \in Nat, b = fs[2].shape[axis],
           NEW o \in Nat, o = Product(SubSeq(fs[1].shape, 1, axis - 1)),
           NEW i \in Nat, i = Product(SubSeq(fs[1].shape, axis + 1, Len(fs[1].shape))),
           NEW c, c = ContiguousConcat(axis, fs, views)
    PROVE  IsChunks(c, o, a, b, i)
<1> DEFINE Chunk(j, k) == ChunkAt(views[k].cells, j, fs[k].shape[axis] * i)
           Row(j) == [k \in DOMAIN fs |-> Chunk(j - 1, k)]
           rows == [j \in 1 .. o |-> FlattenSeq(Row(j))]
           w == a * i + b * i
<1>1. c = FlattenSeq(rows)
  BY DEF ContiguousConcat, ChunkAt
<1>2. a * i \in Nat /\ b * i \in Nat /\ w \in Nat
  <2>1. ASSUME NEW x \in Nat, NEW y \in Nat PROVE x * y \in Nat
    OBVIOUS
  <2>2. a * i \in Nat /\ b * i \in Nat
    BY <2>1
  <2> QED
    BY <2>2
<1>3. ASSUME NEW j \in 1 .. o PROVE IsSeq(rows[j]) /\ Len(rows[j]) = w
  <2> DEFINE q == Row(j)
  <2>1. rows[j] = FlattenSeq(q)
    OBVIOUS
  <2>2. /\ q[1] = ChunkAt(views[1].cells, j - 1, a * i)
        /\ q[2] = ChunkAt(views[2].cells, j - 1, b * i)
    OBVIOUS
  <2>3. q = [k \in 1 .. 2 |-> q[k]] /\ 2 \in Nat /\ j - 1 \in Nat
    OBVIOUS
  <2> HIDE DEF q, Chunk, Row, rows
  <2>4. IsSeq(q[1]) /\ Len(q[1]) = a * i
    BY <1>2, <2>2, <2>3, ChunkLength
  <2>5. IsSeq(q[2]) /\ Len(q[2]) = b * i
    BY <1>2, <2>2, <2>3, ChunkLength
  <2>6. Len(q) = 2
    BY <2>3, ListOf
  <2> QED
    BY <2>1, <2>4, <2>5, <2>6, FlatPair
<1>4. rows = [j \in 1 .. o |-> rows[j]]
  OBVIOUS
<1> HIDE DEF rows, w
<1>5. IsSeq(rows) /\ Len(rows) = o
  BY <1>4, ListOf
<1>6. IsSeq(c) /\ Len(c) = Len(rows) * w
  BY <1>1, <1>2, <1>3, <1>5, FlatRows
<1>7. Len(c) = RowByRow(o, a, b, i)
  BY <1>5, <1>6 DEF w, RowByRow
<1>8. Len(c) = AtOnce(o, a, b, i)
  BY <1>7, RowsAdd
<1> QED
  BY <1>6, <1>8 DEF IsChunks

-----------------------------------------------------------------------------
(* How much a node makes *)

\* Facts that were accepted, with shapes of numbers.
Sound(f) == IsFacts(f) /\ Shaped(f) /\ FactsAccepted(f)

LEMMA OutputSound ==
    ASSUME GraphOK, NEW n \in DOMAIN nodes, NEW k \in DOMAIN nodes[n].outputs
    PROVE  Sound(nodes[n].outputs[k])
<1> DEFINE w == NodeRef(n, k)
<1>1. n \in 1 .. n
  BY SeqShape DEF GraphOK
<1>2. Within(w, n)
  BY <1>1 DEF Within
<1>3. Facts(w) = nodes[n].outputs[k]
  BY DEF Facts, NodeRef
<1> HIDE DEF w
<1>4. IsFacts(Facts(w)) /\ Shaped(Facts(w))
  BY <1>2, ValuesFacts, ValuesShaped
<1> QED
  BY <1>3, <1>4 DEF Sound, GraphOK, NodeOK

LEMMA InputSound ==
    ASSUME GraphOK, NEW n \in DOMAIN nodes, NEW k \in DOMAIN nodes[n].inputs
    PROVE  Sound(InputsFacts(n)[k]) /\ InputsFacts(n)[k] = Facts(nodes[n].inputs[k])
<1> DEFINE v == nodes[n].inputs[k]
<1>1. Within(v, n - 1) /\ InputsFacts(n)[k] = Facts(v)
  BY DEF GraphOK, NodeOK, InputsFacts
<1>2. FactsAccepted(Facts(v))
  BY InputAccepted
<1> HIDE DEF v
<1>3. IsFacts(Facts(v)) /\ Shaped(Facts(v))
  BY <1>1, ValuesFacts, ValuesShaped
<1> QED
  BY <1>1, <1>2, <1>3 DEF Sound, v

LEMMA ConcatFits ==
    ASSUME GraphOK, NEW n \in DOMAIN nodes, nodes[n].op.kind = "concat", NEW views, NEW c,
           \/ c = ContiguousConcat(nodes[n].op.axis, InputsFacts(n), views)
           \/ c = ConcatCells(nodes[n].op.axis, InputsFacts(n), nodes[n].outputs[1], views)
    PROVE  Fits(c, nodes[n].outputs[1])
<1> DEFINE op == nodes[n].op
           fs == InputsFacts(n)
           fout == nodes[n].outputs[1]
           l == Len(nodes[n].inputs)
<1>1. NodeOK(n) /\ ConcatAccepted(op, fs) /\ nodes[n].outputs = InferConcat(op, fs)
  BY DEF GraphOK, NodeOK, OperationAccepted, InferOutputs
<1>2. fout = ContiguousFacts(ConcatShape(op, fs), fs[1].dtype) /\ 1 \in DOMAIN nodes[n].outputs
  BY <1>1 DEF InferConcat
<1>3. Sound(fout)
  BY <1>2, OutputSound
<1>4. l \in 1 .. 2 /\ DOMAIN nodes[n].inputs = 1 .. l
  BY <1>1 DEF NodeOK
<1>5. Len(fs) = 2 /\ DOMAIN fs = 1 .. 2 /\ DOMAIN nodes[n].inputs = 1 .. 2
  <2>1. fs = [k \in 1 .. l |-> fs[k]] /\ l \in Nat
    BY <1>4 DEF InputsFacts
  <2>2. Len(fs) >= 2
    BY <1>1 DEF ConcatAccepted
  <2> HIDE DEF fs, l
  <2>3. Len(fs) = l /\ DOMAIN fs = 1 .. l
    BY <2>1, ListOf
  <2>4. l = 2
    BY <1>4, <2>2, <2>3
  <2> QED
    BY <1>4, <2>3, <2>4
<1>6. Sound(fs[1]) /\ Sound(fs[2])
  BY <1>5, InputSound
<1>7. CASE c = ConcatCells(op.axis, fs, fout, views)
  <2>1. \E source : c = CopyElements(fout, source)
    BY <1>7 DEF ConcatCells
  <2> QED
    BY <1>3, <2>1, CopyLength DEF Sound
<1>8. CASE c = ContiguousConcat(op.axis, fs, views)
  <2> DEFINE p == fs[1].shape
             x == op.axis
             a == fs[1].shape[x]
             b == fs[2].shape[x]
             q == ConcatShape(op, fs)
  <2>1. /\ p \in Seq(Nat) /\ fs[2].shape \in Seq(Nat) /\ Len(fs[2].shape) = Len(p)
        /\ x \in DOMAIN p
    BY <1>1, <1>5, <1>6 DEF Sound, Shaped, ConcatAccepted, Axes
  <2>2. DOMAIN p = 1 .. Len(p) /\ x \in 1 .. Len(p)
    BY <2>1, LenProperties
  <2>3. a \in Nat /\ b \in Nat
    BY <2>1, <2>2, ElementOfSeq
  <2>4. AxisEnd(x, fs, Len(fs)) = a + b /\ a + b \in Nat
    BY <1>5, <2>3, AxisEndPair
  <2>5. q = [p EXCEPT ![x] = a + b]
    BY <2>4 DEF ConcatShape
  <2>6. fout.storage = q
    BY <1>2 DEF ContiguousFacts
  <2>7. Product(q) \in Nat /\ fout.bytes = Product(q) * Width(fout.dtype)
    BY <1>3, <2>6, ElementCount DEF Sound, Shaped
  <2> HIDE DEF q, p, x, a, b
  <2>8. /\ q \in Seq(Nat) /\ Len(q) = Len(p) /\ q[x] = a + b
        /\ \A d \in 1 .. Len(p) : d # x => q[d] = p[d]
    BY <2>1, <2>4, <2>5, ChangedShape
  <2>9. PICK o : o = Product(SubSeq(p, 1, x - 1))
    OBVIOUS
  <2>10. PICK i : i = Product(SubSeq(p, x + 1, Len(p)))
    OBVIOUS
  <2>11. IsSplit(q, o, a + b, i)
    BY <2>1, <2>2, <2>8, <2>9, <2>10, ProductSplit
  <2>12. IsChunks(c, o, a, b, i)
    <3>1. /\ o = Product(SubSeq(fs[1].shape, 1, x - 1)) /\ a = fs[1].shape[x] /\ b = fs[2].shape[x]
          /\ i = Product(SubSeq(fs[1].shape, x + 1, Len(fs[1].shape)))
          /\ c = ContiguousConcat(x, fs, views)
      BY <1>8, <2>9, <2>10 DEF p, x, a, b
    <3>2. o \in Nat /\ i \in Nat
      BY <2>11 DEF IsSplit
    <3> HIDE DEF fs
    <3> QED
      BY <1>5, <2>3, <3>1, <3>2, ChunksLength
  <2>13. Len(c) = Product(q)
    BY <2>11, <2>12 DEF IsSplit, IsChunks, AtOnce
  <2> QED
    BY <2>7, <2>12, <2>13 DEF Fits, IsChunks
<1> QED
  BY <1>7, <1>8

LEMMA PermuteFits ==
    ASSUME GraphOK, NEW n \in DOMAIN nodes, nodes[n].op.kind = "permute", NEW view, NEW c,
           c = PermuteCells(nodes[n].op, InputsFacts(n)[1], nodes[n].outputs[1], view)
    PROVE  Fits(c, nodes[n].outputs[1])
<1> DEFINE op == nodes[n].op
           f == InputsFacts(n)[1]
           fout == nodes[n].outputs[1]
<1>1. /\ NodeOK(n) /\ PermuteAccepted(op, f) /\ nodes[n].outputs = InferPermute(op, f)
      /\ 1 \in DOMAIN nodes[n].inputs
  <2>1. NodeOK(n) /\ 1 \in DOMAIN nodes[n].inputs
    BY DEF GraphOK, NodeOK
  <2>2. OperationAccepted(op, InputsFacts(n)) /\ nodes[n].outputs = InferOutputs(op, InputsFacts(n))
    BY <2>1 DEF NodeOK
  <2>3. PermuteAccepted(op, f)
    BY <2>2 DEF OperationAccepted
  <2>4. nodes[n].outputs = InferPermute(op, f)
    BY <2>2 DEF InferOutputs
  <2> QED
    BY <2>1, <2>3, <2>4
<1>2. Sound(f)
  BY <1>1, InputSound
<1>3. 1 \in DOMAIN nodes[n].outputs
  BY <1>1 DEF InferPermute
<1>4. Sound(fout)
  BY <1>3, OutputSound
<1>5. CASE FastPermute(op, f)
  <2>1. c = OihwToOhwi(f, view)
    BY <1>5 DEF PermuteCells
  <2>2. op.mode = "storage" /\ op.order = <<1, 3, 4, 2>> /\ Len(op.order) = Len(f.shape)
    BY <1>1, <1>5 DEF FastPermute, PermuteAccepted
  <2>3. fout = StorageFacts(f, op.order, PermutedShape(op.order, f), op.layout)
    BY <1>1, <2>2 DEF InferPermute
  <2>4. fout.storage = PermutedShape(op.order, f)
    <3> DEFINE st == PermutedShape(op.order, f)
    <3>1. PICK s, b : fout = [f EXCEPT !.storage = st, !.strides = s, !.layout = op.layout, !.bytes = b]
      BY <2>3 DEF StorageFacts
    <3> HIDE DEF st, f, fout
    <3> QED
      BY <1>2, <3>1 DEF Sound, IsFacts, FactFields, st
  <2> HIDE DEF f, fout
  <2> QED
    BY <1>2, <1>4, <2>1, <2>2, <2>4, FastPermuteLength DEF Sound, fout
<1>6. CASE ~FastPermute(op, f)
  <2>1. \E source : c = CopyElements(fout, source)
    BY <1>6 DEF PermuteCells, StorageCopy, LogicalPermute
  <2> QED
    BY <1>4, <2>1, CopyLength DEF Sound
<1> QED
  BY <1>5, <1>6

\* The built-in provider meets no inconsistency in a request whose lengths
\* are those of its shape, and returns as many elements.
LEMMA BuiltinPrepare ==
    ASSUME NEW r, r.implementation = Builtin, r.scratchBytes = 0, IsSeq(r.view.cells),
           SourceBytes(r) = ByteLen(r.source.dtype, r.shape),
           r.outputBytes = ByteLen(r.target.dtype, r.shape),
           Len(r.view.cells) * Width(r.target.dtype) = r.outputBytes,
           NEW owner, NEW x \in PrepareOutcomes(r, owner)
    PROVE  /\ x.kind \in {"ok", "unsupported", "limit"}
           /\ x.kind = "ok" => IsSeq(x.view.cells) /\ Len(x.view.cells) = Len(r.view.cells)
<1>1. CASE r.implementation \notin Registered
  <2>1. x = [kind |-> "unsupported"]
    BY <1>1 DEF PrepareOutcomes, PrepareError
  <2> QED
    BY <2>1
<1>2. CASE r.implementation \in Registered
  <2>1. PICK strategy \in ContiguousValidate(r) : x \in StrategyOutcomes(r, strategy, owner)
    BY <1>2 DEF PrepareOutcomes, Validate
  <2>2. \/ strategy.kind \in {"unsupported", "limit"}
        \/ strategy.kind = "reuse" /\ r.source.dtype = r.target.dtype
        \/ strategy.kind = "allocate" /\ strategy.output = r.outputBytes /\ strategy.scratch = 0
    BY <2>1 DEF ContiguousValidate
  <2>3. CASE strategy.kind \in {"unsupported", "limit"}
    <3>1. StrategyOutcomes(r, strategy, owner) = {PrepareError(strategy.kind)}
      BY <2>3 DEF StrategyOutcomes
    <3>2. x = [kind |-> strategy.kind]
      BY <2>1, <3>1 DEF PrepareError
    <3> QED
      BY <2>3, <3>2
  <2>4. CASE strategy.kind = "reuse" /\ r.source.dtype = r.target.dtype
    <3>1. ReuseAccepted(r)
      BY <2>4 DEF ReuseAccepted
    <3>2. x = Prepared(r.view)
      BY <2>1, <2>4, <3>1 DEF StrategyOutcomes
    <3>3. x.kind = "ok" /\ x.view = r.view
      BY <3>2 DEF Prepared
    <3> QED
      BY <3>3
  <2>5. CASE strategy.kind = "allocate" /\ strategy.output = r.outputBytes /\ strategy.scratch = 0
    <3> DEFINE c == CastCells(r.target.dtype, r.view.cells)
               y == Prepared(OwnedView(owner, c))
    <3>1. IsSeq(c) /\ Len(c) = Len(r.view.cells)
      <4>1. Len(r.view.cells) \in Nat /\ DOMAIN r.view.cells = 1 .. Len(r.view.cells)
        BY SeqShape
      <4>2. c = [k \in 1 .. Len(r.view.cells) |-> c[k]]
        BY <4>1 DEF CastCells
      <4> HIDE DEF c
      <4> QED
        BY <4>1, <4>2, ListOf
    <3>2. PrepareAllocated(r, owner) = {y}
      BY DEF PrepareAllocated, ContiguousPrepare
    <3> HIDE DEF c
    <3>3. y.kind = "ok" /\ y.view.cells = c
      BY DEF Prepared, OwnedView
    <3> HIDE DEF y
    <3>4. AllocatedOutcome(r, y) = y
      BY <3>1, <3>3 DEF AllocatedOutcome, LengthAccepted
    <3>5. x = y
      BY <2>1, <2>5, <3>2, <3>4 DEF StrategyOutcomes, StorageAccepted
    <3> QED
      BY <3>1, <3>3, <3>5
  <2> QED
    BY <2>2, <2>3, <2>4, <2>5
<1> QED
  BY <1>1, <1>2

LEMMA CancelWidth ==
    ASSUME NEW x \in Nat, NEW y \in Nat, NEW w \in {1, 2, 4}, x * w = y * w
    PROVE  x = y
<1>1. CASE w = 1
  BY <1>1
<1>2. CASE w = 2
  BY <1>2
<1>3. CASE w = 4
  BY <1>3
<1> QED
  BY <1>1, <1>2, <1>3

LEMMA PrepareFits ==
    ASSUME GraphOK, NEW n \in DOMAIN nodes, nodes[n].op.kind = "prepare",
           nodes[n].op.implementation = Builtin, nodes[n].op.scratchBytes = 0,
           NEW view, Fits(view.cells, InputsFacts(n)[1]), NEW owner,
           NEW x \in PrepareOutcomes(PrepareRequest(nodes[n].op, InputsFacts(n)[1], view), owner)
    PROVE  /\ x.kind \in {"ok", "unsupported", "limit"}
           /\ x.kind = "ok" => Fits(x.view.cells, nodes[n].outputs[1])
<1> DEFINE op == nodes[n].op
           f == InputsFacts(n)[1]
           fout == nodes[n].outputs[1]
           r == PrepareRequest(op, f, view)
           m == Len(view.cells)
<1>1. NodeOK(n) /\ 1 \in DOMAIN nodes[n].inputs
  BY DEF GraphOK, NodeOK
<1>2. PrepareAccepted(op, f) /\ nodes[n].outputs = InferPrepare(op, f)
  <2>1. OperationAccepted(op, InputsFacts(n)) /\ nodes[n].outputs = InferOutputs(op, InputsFacts(n))
    BY <1>1 DEF NodeOK
  <2>2. PrepareAccepted(op, f)
    BY <2>1 DEF OperationAccepted
  <2>3. nodes[n].outputs = InferPrepare(op, f)
    BY <2>1 DEF InferOutputs
  <2> QED
    BY <2>2, <2>3
<1>3. Sound(f)
  BY <1>1, InputSound
<1>4. /\ r.implementation = Builtin /\ r.scratchBytes = 0 /\ r.view = view /\ r.shape = f.shape
      /\ r.source = op.source /\ r.target = op.target /\ r.outputBytes = op.outputBytes
      /\ r.width = Width(f.dtype)
  BY DEF PrepareRequest
<1>5. fout.dtype = op.target.dtype /\ fout.bytes = ByteLen(op.target.dtype, f.shape)
  BY <1>2 DEF InferPrepare, ContiguousFacts
<1>6. /\ f.storage = f.shape /\ op.source.dtype = f.dtype
      /\ op.outputBytes = ByteLen(op.target.dtype, f.shape)
  <2>1. op.source = [dtype |-> f.dtype, layout |-> f.layout] /\ f.storage = f.shape
    BY <1>2 DEF PrepareAccepted, CanonicalContiguous
  <2>2. op.outputBytes = ByteLen(op.target.dtype, f.shape)
    BY <1>2 DEF PrepareAccepted
  <2> QED
    BY <2>1, <2>2
<1>7. Product(f.shape) \in Nat /\ f.bytes = Product(f.shape) * Width(f.dtype)
  BY <1>3, <1>6, ElementCount DEF Sound, Shaped
<1>8. IsSeq(view.cells) /\ m * Width(f.dtype) = f.bytes /\ m \in Nat /\ Width(f.dtype) \in {1, 2, 4}
  BY <1>3, SeqShape, Widths DEF Fits, Sound, IsFacts
<1> HIDE DEF r, f, op, fout, m
<1>9. m = Product(f.shape)
  BY <1>7, <1>8, CancelWidth
<1>10. SourceBytes(r) = ByteLen(r.source.dtype, r.shape)
  BY <1>4, <1>6, <1>9 DEF SourceBytes, ByteLen, m
<1>11. /\ r.outputBytes = ByteLen(r.target.dtype, r.shape)
       /\ Len(r.view.cells) * Width(r.target.dtype) = r.outputBytes
  BY <1>4, <1>6, <1>9 DEF ByteLen, m
<1>12. x \in PrepareOutcomes(r, owner)
  BY DEF r, f, op
<1>13. x.kind \in {"ok", "unsupported", "limit"}
  BY <1>4, <1>8, <1>10, <1>11, <1>12, BuiltinPrepare
<1>14. ASSUME x.kind = "ok" PROVE Fits(x.view.cells, fout)
  <2>1. IsSeq(x.view.cells)
    BY <1>4, <1>8, <1>10, <1>11, <1>12, <1>14, BuiltinPrepare
  <2>2. Len(x.view.cells) = Len(r.view.cells)
    BY <1>4, <1>8, <1>10, <1>11, <1>12, <1>14, BuiltinPrepare
  <2> QED
    BY <1>4, <1>5, <1>6, <1>11, <2>1, <2>2 DEF Fits
<1> QED
  BY <1>13, <1>14 DEF fout

\* Only built-in conversions, which need no scratch.
Plain == OnlyBuiltinCasts /\ \A n \in DOMAIN nodes : StaticTransient(nodes[n]) = 0

\* The inputs of node n are there, as long as their facts say.
InputsFit(n) ==
    \A k \in DOMAIN nodes[n].inputs :
        /\ nodes[n].inputs[k] \in DOMAIN runtime
        /\ Fits(runtime[nodes[n].inputs[k]].cells, Facts(nodes[n].inputs[k]))

\* Outputs as many and as long as the facts of node n say.
OutputsFit(n, outs) ==
    /\ Len(outs) = Len(nodes[n].outputs)
    /\ \A k \in DOMAIN outs : Fits(outs[k].view.cells, nodes[n].outputs[k])

LEMMA OneOutputFits ==
    ASSUME NEW n, Len(nodes[n].outputs) = 1, NEW o, Fits(o.view.cells, nodes[n].outputs[1]),
           NEW outs, outs = <<o>>
    PROVE  OutputsFit(n, outs)
<1>1. Len(outs) = 1 /\ DOMAIN outs = {1} /\ outs[1] = o
  BY TupleSeq
<1> QED
  BY <1>1 DEF OutputsFit

LEMMA FreshFits ==
    ASSUME NEW n, NEW k, NEW c, NEW f, Fits(c, f)
    PROVE  Fits(Fresh(n, k, c).view.cells, f)
<1>1. Fresh(n, k, c).view.cells = c
  BY DEF Fresh, OwnedView
<1> QED
  BY <1>1

\* A node of a plain graph meets no inconsistency.
LEMMA PlainOutcome ==
    ASSUME GraphOK, Plain, NEW n \in DOMAIN nodes, InputsFit(n), NEW outcome \in NodeOutcomes(n)
    PROVE  /\ outcome.kind \in {"ok", "unsupported", "limit"}
           /\ outcome.kind = "ok" => OutputsFit(n, outcome.outs)
<1> DEFINE node == nodes[n]
           op == nodes[n].op
           fs == InputsFacts(n)
           views == InputViews(n)
           fout == nodes[n].outputs[1]
<1>1. NodeOK(n) /\ op \in Operations /\ 1 \in DOMAIN nodes[n].inputs
  BY DEF GraphOK, NodeOK
<1>2. op.kind \in {"concat", "permute", "pad", "slice", "split", "reshape", "prepare"}
  BY <1>1, OperationsAssumption
<1>3. Range(nodes[n].inputs) \subseteq DOMAIN runtime
  BY DEF Range, InputsFit
<1>4. /\ op.kind = "concat" => outcome = ConcatOutcome(n, node, fs, views)
      /\ op.kind = "permute" => outcome = PermuteOutcome(n, node, fs, views)
      /\ op.kind = "pad" => outcome = PadOutcome(n, node, fs, views)
      /\ op.kind = "slice" => outcome = SliceOutcome(n, node, fs, views)
      /\ op.kind = "split" => outcome = SplitOutcome(n, node, fs, views)
      /\ op.kind = "reshape" => outcome = ReshapeOutcome(views)
      /\ op.kind = "prepare" => outcome \in PrepareNodeOutcomes(n, node, fs, views)
  BY <1>2, <1>3 DEF NodeOutcomes, InputsFacts, InputViews
<1>5. /\ views[1] = runtime[nodes[n].inputs[1]] /\ fs[1] = Facts(nodes[n].inputs[1])
      /\ Fits(views[1].cells, fs[1])
  BY <1>1 DEF InputViews, InputsFacts, InputsFit
<1>6. op.kind # "split" => Len(nodes[n].outputs) = 1 /\ 1 \in DOMAIN nodes[n].outputs /\ Sound(fout)
  <2>1. SUFFICES ASSUME op.kind # "split"
                 PROVE  Len(nodes[n].outputs) = 1 /\ 1 \in DOMAIN nodes[n].outputs /\ Sound(fout)
    OBVIOUS
  <2>2. IsSeq(nodes[n].outputs) /\ Len(nodes[n].outputs) = 1
    BY <1>1, <2>1, OutputsSeq DEF NodeOK
  <2>3. 1 \in DOMAIN nodes[n].outputs
    BY <2>2, SeqShape
  <2> QED
    BY <2>2, <2>3, OutputSound
<1> HIDE DEF fs, views
<1>7. ASSUME op.kind # "split", NEW c, Fits(c, fout), outcome.kind = "ok", outcome.outs = <<Fresh(n, 1, c)>>
      PROVE  OutputsFit(n, outcome.outs)
  <2>1. Fits(Fresh(n, 1, c).view.cells, fout)
    BY <1>7, FreshFits
  <2> QED
    BY <1>6, <1>7, <2>1, OneOutputFits
<1>8. ASSUME op.kind # "split", NEW view, Fits(view.cells, fout), outcome.outs = <<Alias(view)>>
      PROVE  OutputsFit(n, outcome.outs)
  <2>1. Alias(view).view = view
    BY DEF Alias
  <2> QED
    BY <1>6, <1>8, <2>1, OneOutputFits
<1>9. CASE op.kind = "concat"
  <2>1. PICK c : /\ outcome = NodeDone(<<Fresh(n, 1, c)>>, 0)
                 /\ \/ c = ContiguousConcat(op.axis, fs, views)
                    \/ c = ConcatCells(op.axis, fs, fout, views)
    BY <1>4, <1>9 DEF ConcatOutcome
  <2>2. outcome.kind = "ok" /\ outcome.outs = <<Fresh(n, 1, c)>>
    BY <2>1 DEF NodeDone
  <2>3. Fits(c, fout)
    BY <1>9, <2>1, ConcatFits DEF fs
  <2> QED
    BY <1>7, <1>9, <2>2, <2>3
<1>10. CASE op.kind = "pad" \/ op.kind = "slice"
  <2>1. \E source : outcome = NodeDone(<<Fresh(n, 1, CopyElements(fout, source))>>, 0)
    BY <1>4, <1>10 DEF PadOutcome, SliceOutcome, StorageCopy, SliceCells
  <2>2. PICK source : outcome = NodeDone(<<Fresh(n, 1, CopyElements(fout, source))>>, 0)
    BY <2>1
  <2> DEFINE c == CopyElements(fout, source)
  <2>3. Fits(c, fout)
    BY <1>6, <1>10, CopyLength DEF Sound
  <2> HIDE DEF c
  <2>4. outcome.kind = "ok" /\ outcome.outs = <<Fresh(n, 1, c)>>
    BY <2>2 DEF NodeDone, c
  <2> QED
    BY <1>7, <1>10, <2>3, <2>4
<1>11. CASE op.kind = "split"
  <2> DEFINE D == nodes[n].outputs
             q == outcome.outs
  <2>1. outcome.kind = "ok" /\ q = [k \in DOMAIN D |-> q[k]]
    BY <1>4, <1>11 DEF SplitOutcome, NodeDone
  <2>2. DOMAIN D = 1 .. Len(D) /\ Len(D) \in Nat
    BY <1>1, SeqShape DEF NodeOK
  <2>3. ASSUME NEW k \in DOMAIN D PROVE Fits(q[k].view.cells, D[k])
    <3> DEFINE made == SliceCells(SplitRanges(op, fs[1], k), fs[1], D[k], views[1])
    <3>0. q[k] = Fresh(n, k, made)
      BY <1>4, <1>11 DEF SplitOutcome, NodeDone
    <3>1. PICK source : made = CopyElements(D[k], source)
      BY DEF SliceCells
    <3> HIDE DEF made
    <3>2. Sound(D[k])
      BY OutputSound
    <3> DEFINE c == CopyElements(D[k], source)
    <3>3. Fits(c, D[k])
      BY <3>2, CopyLength DEF Sound
    <3> HIDE DEF c
    <3> QED
      BY <3>0, <3>1, <3>3, FreshFits DEF c
  <2> HIDE DEF D, q
  <2>4. Len(q) = Len(D) /\ DOMAIN q = DOMAIN D
    BY <2>1, <2>2, ListOf
  <2> QED
    BY <2>1, <2>3, <2>4 DEF OutputsFit, D, q
<1>12. ASSUME op.kind # "split", StaticAlias(nodes[n], 1), fout.dtype = fs[1].dtype,
              outcome = NodeDone(<<Alias(views[1])>>, 0)
       PROVE  outcome.kind = "ok" /\ OutputsFit(n, outcome.outs)
  <2>1. outcome.kind = "ok" /\ outcome.outs = <<Alias(views[1])>>
    BY <1>12 DEF NodeDone
  <2>2. fout.bytes = fs[1].bytes
    BY <1>5, <1>12, StaticAliasBytes
  <2>3. Fits(views[1].cells, fout)
    BY <1>5, <1>12, <2>2 DEF Fits
  <2> QED
    BY <1>8, <1>12, <2>1, <2>3
<1>13. CASE op.kind = "reshape"
  <2>1. Len(nodes[n].inputs) = 1
    BY <1>13, OneInput
  <2>2. StaticAlias(nodes[n], 1)
    BY <1>6, <1>13, <2>1 DEF StaticAlias
  <2>3. nodes[n].outputs = InferReshape(op, fs[1])
    BY <1>1, <1>13 DEF NodeOK, InferOutputs, fs
  <2>4. fout.dtype = fs[1].dtype
    BY <2>3 DEF InferReshape, ContiguousFacts
  <2>5. outcome = NodeDone(<<Alias(views[1])>>, 0)
    BY <1>4, <1>13 DEF ReshapeOutcome
  <2> QED
    BY <1>12, <1>13, <2>2, <2>4, <2>5
<1>14. CASE op.kind = "permute"
  <2>1. CASE IsIdentityOrder(op.order) /\ fs[1] = fout
    <3>1. Len(nodes[n].inputs) = 1
      BY <1>14, OneInput
    <3>2. StaticAlias(nodes[n], 1)
      BY <1>5, <1>6, <1>14, <2>1, <3>1 DEF StaticAlias
    <3>3. outcome = NodeDone(<<Alias(views[1])>>, 0)
      BY <1>4, <1>14, <2>1 DEF PermuteOutcome
    <3> QED
      BY <1>12, <1>14, <2>1, <3>2, <3>3
  <2>2. CASE ~(IsIdentityOrder(op.order) /\ fs[1] = fout)
    <3> DEFINE c == PermuteCells(op, fs[1], fout, views[1])
    <3>1. outcome = NodeDone(<<Fresh(n, 1, c)>>, 0)
      BY <1>4, <1>14, <2>2 DEF PermuteOutcome
    <3>2. Fits(c, fout)
      BY <1>14, PermuteFits DEF fs
    <3> HIDE DEF c
    <3>3. outcome.kind = "ok" /\ outcome.outs = <<Fresh(n, 1, c)>>
      BY <3>1 DEF NodeDone
    <3> QED
      BY <1>7, <1>14, <3>2, <3>3
  <2> QED
    BY <2>1, <2>2
<1>15. CASE op.kind = "prepare"
  <2>1. PICK x \in PrepareOutcomes(PrepareRequest(op, fs[1], views[1]), NodeRef(n, 1)) :
            outcome = PreparedOutcome(n, op, views[1], x)
    BY <1>4, <1>15 DEF PrepareNodeOutcomes
  <2>2. op.implementation = Builtin /\ op.scratchBytes = 0
    BY <1>15 DEF Plain, OnlyBuiltinCasts, StaticTransient
  <2>3. x.kind \in {"ok", "unsupported", "limit"}
    BY <1>5, <1>15, <2>1, <2>2, PrepareFits DEF fs
  <2>4. x.kind = "ok" => Fits(x.view.cells, fout)
    BY <1>5, <1>15, <2>1, <2>2, PrepareFits DEF fs
  <2>5. CASE x.kind # "ok"
    <3>1. outcome = [kind |-> x.kind]
      BY <2>1, <2>5 DEF PreparedOutcome
    <3> QED
      BY <2>3, <2>5, <3>1
  <2>6. CASE x.kind = "ok"
    <3>1. \E o : outcome.kind = "ok" /\ outcome.outs = <<o>> /\ o.view = x.view
      BY <2>1, <2>6 DEF PreparedOutcome, NodeDone, Alias
    <3>2. PICK o : outcome.kind = "ok" /\ outcome.outs = <<o>> /\ o.view = x.view
      BY <3>1
    <3> QED
      BY <1>6, <1>15, <2>4, <2>6, <3>2, OneOutputFits
  <2> QED
    BY <2>5, <2>6
<1> QED
  BY <1>2, <1>9, <1>10, <1>11, <1>13, <1>14, <1>15

-----------------------------------------------------------------------------
(* No inconsistency *)

\* Between two nodes the schedule is ready for the next one, and the views
\* of a plain graph are as long as their facts say.
Waiting == phase = "running" => Ready(sched, next, 0, 0, 0, output)
ContentsFit == phase = "running" /\ Plain => \A v \in DOMAIN runtime : Fits(runtime[v].cells, Facts(v))

SafeInv == AliasInv /\ Waiting /\ ContentsFit /\ NoInternalError

LEMMA PlainKept ==
    ASSUME nodes' = nodes
    PROVE  Plain' <=> Plain
  BY DEF Plain, OnlyBuiltinCasts, StaticTransient

LEMMA ReadyKept ==
    ASSUME UNCHANGED <<inputs, nodes>>, NEW s, NEW n, NEW out, Ready(s, n, 0, 0, 0, out)
    PROVE  Ready(s, n, 0, 0, 0, out)'
<1>1. Values' = Values
  BY DEF Values
<1>2. \A v : UsePlaces(v)' = UsePlaces(v)
  BY DEF UsePlaces
<1>3. \A v : Uses(v, out)' = Uses(v, out)
  BY <1>2 DEF Uses
<1>4. \A v : UsesLeft(v, n, 0)' = UsesLeft(v, n, 0)
  BY <1>2 DEF UsesLeft
<1>5. \A v : Present(v, n, 0)' <=> Present(v, n, 0)
  BY DEF Present, Within
<1>6. Counted(s, n, 0, out)'
  BY <1>1, <1>3, <1>4 DEF Ready, Counted
<1>7. Kept(s, n, 0, 0, 0, out)'
  BY <1>4, <1>5 DEF Ready, Kept, Wanted
<1> QED
  BY <1>6, <1>7 DEF Ready

\* The schedule that new() makes is ready for the first node.
LEMMA StartReady ==
    ASSUME GraphOK, NEW out, NEW s, s = NewSchedule(out)
    PROVE  Ready(s, 1, 0, 0, 0, out)
<1>1. /\ s.uses = [v \in {w \in Values : Uses(w, out) > 0} |-> Uses(v, out)]
      /\ DOMAIN s.values = InputRefs
  BY DEF NewSchedule, InputRefs
<1>2. ASSUME NEW v PROVE UsesLeft(v, 1, 0) = UsePlaces(v)
  <2>1. DOMAIN nodes = 1 .. Len(nodes) /\ Len(nodes) \in Nat
    BY SeqShape DEF GraphOK
  <2>2. ASSUME NEW u \in UsePlaces(v) PROVE u[1] > 1 \/ (u[1] = 1 /\ u[2] > 0)
    <3>1. u[1] \in 1 .. Len(nodes) /\ u[2] \in 1 .. 2
      BY <2>1 DEF UsePlaces
    <3> QED
      BY <2>1, <3>1
  <2> QED
    BY <2>2 DEF UsesLeft
<1>3. Counted(s, 1, 0, out)
  BY <1>1, <1>2 DEF Counted, Uses
<1>4. ASSUME NEW v PROVE Present(v, 1, 0) <=> v \in InputRefs
  BY DEF Present, Within, InputRefs
<1>5. Kept(s, 1, 0, 0, 0, out)
  BY <1>1, <1>4 DEF Kept
<1> QED
  BY <1>3, <1>5 DEF Ready

\* No input of the next node was dropped.
LEMMA InputsThere ==
    ASSUME Inv, Waiting, phase = "running", next \in DOMAIN nodes, NEW k \in DOMAIN nodes[next].inputs
    PROVE  nodes[next].inputs[k] \in DOMAIN runtime
<1> DEFINE v == nodes[next].inputs[k]
           j == k - 1
<1>1. GraphOK /\ DOMAIN runtime = DOMAIN sched.values /\ Ready(sched, next, 0, 0, 0, output)
  BY DEF Inv, Accounted, Waiting
<1>2. k \in 1 .. 2
  BY <1>1 DEF GraphOK, NodeOK
<1>3. j \in Nat /\ j + 1 = k
  BY <1>2
<1>4. Wanted(v, next, j, output) /\ Present(v, next, 0)
  <2> HIDE DEF j
  <2>1. j + 1 \in DOMAIN nodes[next].inputs /\ nodes[next].inputs[j + 1] = v
    BY <1>3
  <2>2. Wanted(nodes[next].inputs[j + 1], next, j, output) /\ Present(nodes[next].inputs[j + 1], next, 0)
    BY <1>1, <1>3, <2>1, InputWanted
  <2> QED
    BY <2>1, <2>2
<1>5. UsesLeft(v, next, j) \subseteq UsesLeft(v, next, 0)
  <2>1. ASSUME NEW u \in UsePlaces(v), u[2] > j PROVE u[2] > 0
    <3>1. u[2] \in 1 .. 2
      BY DEF UsePlaces
    <3> QED
      BY <3>1
  <2> QED
    BY <2>1 DEF UsesLeft
<1>6. Wanted(v, next, 0, output)
  BY <1>4, <1>5 DEF Wanted
<1> QED
  BY <1>1, <1>4, <1>6 DEF Ready, Kept

LEMMA InputsLong ==
    ASSUME SafeInv, Plain, phase = "running", next \in DOMAIN nodes
    PROVE  InputsFit(next)
<1>1. Inv /\ Waiting /\ ContentsFit
  BY DEF SafeInv, AliasInv
<1>2. ASSUME NEW k \in DOMAIN nodes[next].inputs PROVE nodes[next].inputs[k] \in DOMAIN runtime
  BY <1>1, InputsThere
<1> QED
  BY <1>1, <1>2 DEF InputsFit, ContentsFit

\* A node of a plain graph does not end the execution with an inconsistency.
LEMMA PlainExecutes ==
    ASSUME SafeInv, ExecuteNode, Plain, phase' = "done"
    PROVE  result'.kind # "integrity"
<1>1. phase = "running" /\ next \in DOMAIN nodes
  BY DEF ExecuteNode
<1>2. Inv /\ GraphOK /\ Exact(sched) /\ sched.err = "none" /\ Ready(sched, next, 0, 0, 0, output)
  BY <1>1 DEF SafeInv, AliasInv, Inv, Accounted, Waiting
<1>3. InputsFit(next)
  BY <1>1, InputsLong
<1>4. PICK outcome \in NodeOutcomes(next) :
          IF outcome.kind # "ok"
          THEN Return([kind |-> outcome.kind])
          ELSE IF ~OutputLengthsHold(nodes[next], outcome.outs)
          THEN Return([kind |-> "integrity"])
          ELSE LET s == ScheduleNode(sched, next, [k \in DOMAIN outcome.outs |-> outcome.outs[k].origin],
                                     outcome.transient)
               IN  IF s.err # "none" THEN Return([kind |-> s.err]) ELSE UNCHANGED phase
  BY DEF ExecuteNode
<1>5. ASSUME NEW kind, Return([kind |-> kind]) PROVE result'.kind = kind
  BY <1>5 DEF Return
<1>6. /\ outcome.kind \in {"ok", "unsupported", "limit"}
      /\ outcome.kind = "ok" => OutputsFit(next, outcome.outs)
  BY <1>1, <1>2, <1>3, PlainOutcome
<1>7. CASE outcome.kind # "ok"
  BY <1>4, <1>5, <1>6, <1>7
<1>8. CASE outcome.kind = "ok"
  <2>1. OutputLengthsHold(nodes[next], outcome.outs)
    BY <1>6, <1>8 DEF OutputsFit, Fits, OutputLengthsHold
  <2> DEFINE origins == [k \in DOMAIN outcome.outs |-> outcome.outs[k].origin]
             s == ScheduleNode(sched, next, origins, outcome.transient)
  <2>2. s.err # "none" /\ Return([kind |-> s.err])
    BY <1>1, <1>4, <1>8, <2>1
  <2>3. outcome.transient \in Nat
    BY <1>1, <1>2, <1>8, OutcomeShape
  <2> HIDE DEF origins
  <2>4. s.err \in {"none", "limit"}
    BY <1>1, <1>2, <2>3, NodeReady
  <2> HIDE DEF s
  <2> QED
    BY <1>5, <2>2, <2>4
<1> QED
  BY <1>7, <1>8

LEMMA RanWaiting ==
    ASSUME SafeInv, phase = "running", next \in DOMAIN nodes, NEW outcome, NodeRan(outcome)
    PROVE  Waiting'
<1>1. Inv /\ GraphOK /\ Exact(sched) /\ sched.err = "none" /\ Ready(sched, next, 0, 0, 0, output)
  BY DEF SafeInv, AliasInv, Inv, Accounted, Waiting
<1>2. outcome.transient \in Nat
  BY <1>1, RanOutputs
<1> DEFINE origins == [k \in DOMAIN outcome.outs |-> outcome.outs[k].origin]
           t == ScheduleNode(sched, next, origins, outcome.transient)
<1>3. /\ t.err = "none" /\ sched' = t /\ next' = next + 1
      /\ UNCHANGED <<inputs, nodes, output>>
  BY DEF NodeRan
<1> HIDE DEF origins
<1>4. Ready(t, next + 1, 0, 0, 0, output)
  BY <1>1, <1>2, <1>3, NodeReady
<1> HIDE DEF t
<1>5. PICK s, m, o : s = t /\ m = next + 1 /\ o = output
  OBVIOUS
<1>6. Ready(s, m, 0, 0, 0, o)
  BY <1>4, <1>5
<1>7. Ready(s, m, 0, 0, 0, o)'
  BY <1>3, <1>6, ReadyKept
<1>8. s = sched' /\ m = next' /\ o = output'
  BY <1>3, <1>5
<1> QED
  BY <1>7, <1>8 DEF Waiting

LEMMA RanContents ==
    ASSUME SafeInv, phase = "running", next \in DOMAIN nodes, NEW outcome, NodeRan(outcome)
    PROVE  ContentsFit'
<1>1. UNCHANGED <<inputs, nodes>> /\ Inv /\ GraphOK /\ ContentsFit
  BY DEF NodeRan, SafeInv, AliasInv, Inv
<1>2. SUFFICES ASSUME Plain, NEW v \in DOMAIN runtime' PROVE Fits(runtime'[v].cells, Facts(v))
  <2>1. \A v : Facts(v)' = Facts(v)
    BY <1>1 DEF Facts
  <2>2. Plain' <=> Plain
    BY <1>1, PlainKept
  <2> QED
    BY <2>1, <2>2 DEF ContentsFit
<1>3. OutputsFit(next, outcome.outs)
  <2>1. InputsFit(next)
    BY <1>2, InputsLong
  <2> QED
    BY <1>1, <1>2, <2>1, PlainOutcome DEF NodeRan
<1>4. /\ {NodeRef(next, k) : k \in DOMAIN outcome.outs} = Made(next)
      /\ DOMAIN outcome.outs = DOMAIN nodes[next].outputs
  BY <1>1, RanOutputs
<1> DEFINE made == Made(next)
           views == [u \in DOMAIN runtime \cup made |->
                        IF u \in made THEN outcome.outs[u[3]].view ELSE runtime[u]]
<1>5. runtime' = StillLive(views, sched')
  BY <1>4 DEF NodeRan
<1>6. /\ v \in DOMAIN runtime \cup made
      /\ runtime'[v] = IF v \in made THEN outcome.outs[v[3]].view ELSE runtime[v]
  BY <1>5 DEF StillLive, Restrict
<1>7. CASE v \notin made
  <2>1. v \in DOMAIN runtime /\ runtime'[v] = runtime[v]
    BY <1>6, <1>7
  <2> QED
    BY <1>1, <1>2, <2>1 DEF ContentsFit
<1>8. CASE v \in made
  <2>1. PICK k \in DOMAIN nodes[next].outputs : v = NodeRef(next, k)
    BY <1>8 DEF Made
  <2>2. v[3] = k /\ Facts(v) = nodes[next].outputs[k]
    BY <2>1 DEF NodeRef, Facts
  <2>3. runtime'[v] = outcome.outs[k].view
    BY <1>6, <1>8, <2>2
  <2>4. Fits(outcome.outs[k].view.cells, nodes[next].outputs[k])
    BY <1>3, <1>4 DEF OutputsFit
  <2> QED
    BY <2>2, <2>3, <2>4
<1> QED
  BY <1>7, <1>8

\* An execution begins ready, with the inputs as long as their facts say.
LEMMA StartSafe ==
    ASSUME Inv, Start, phase' = "running"
    PROVE  Waiting' /\ ContentsFit'
<1>1. PICK short \in {0} \cup DOMAIN inputs :
          LET Elements(i) == Product(inputs[i].storage) - (IF i = short THEN 1 ELSE 0)
          IN  IF short # 0
              THEN Return([kind |-> "length"])
              ELSE /\ phase' = "running"
                   /\ sched' = NewSchedule(output)
                   /\ runtime' = [v \in {InputRef(i) : i \in DOMAIN inputs} |->
                                    InputView(v[2], Elements(v[2]))]
                   /\ next' = 1
                   /\ UNCHANGED result
  BY DEF Start
<1>2. short = 0
  BY <1>1 DEF Return
<1>3. UNCHANGED <<inputs, nodes, output>> /\ next' = 1 /\ sched' = NewSchedule(output) /\ GraphOK
  BY <1>1, <1>2 DEF Start, Inv
<1>4. Waiting'
  <2>1. PICK s, o : s = sched' /\ o = output
    OBVIOUS
  <2>2. Ready(s, 1, 0, 0, 0, o)
    BY <1>3, <2>1, StartReady
  <2>3. Ready(s, 1, 0, 0, 0, o)'
    BY <1>3, <2>2, ReadyKept
  <2> QED
    BY <1>3, <2>1, <2>3 DEF Waiting
<1>5. ASSUME NEW i \in DOMAIN inputs PROVE i # 0 /\ i \in Nat
  BY SeqShape DEF Inv, GraphOK
<1>6. DOMAIN runtime' = InputRefs
  BY <1>1, <1>2 DEF InputRefs
<1>7. ASSUME NEW i \in DOMAIN inputs
      PROVE  Fits(runtime'[InputRef(i)].cells, inputs[i])
  <2> DEFINE m == Product(inputs[i].storage)
             c == InputView(i, m).cells
  <2>1. InputRef(i) \in InputRefs /\ InputRef(i)[2] = i /\ i # short
    BY <1>2, <1>5 DEF InputRefs, InputRef
  <2>2. runtime'[InputRef(i)] = InputView(i, m - 0)
    BY <1>1, <1>2, <2>1 DEF InputRefs
  <2>3. m \in Nat /\ Len(c) * Width(inputs[i].dtype) = inputs[i].bytes
    BY <1>3, InputLength
  <2>4. runtime'[InputRef(i)].cells = c
    BY <2>2, <2>3
  <2>5. c = [k \in 1 .. m |-> c[k]]
    BY DEF InputView
  <2> HIDE DEF c, m
  <2>6. IsSeq(c)
    BY <2>3, <2>5, ListOf
  <2> QED
    BY <2>3, <2>4, <2>6 DEF Fits
<1>8. ASSUME NEW v \in DOMAIN runtime' PROVE Fits(runtime'[v].cells, Facts(v)')
  <2>1. PICK i \in DOMAIN inputs : v = InputRef(i)
    BY <1>6 DEF InputRefs
  <2>2. Facts(v)' = inputs[i]
    BY <1>3, <2>1 DEF Facts, InputRef
  <2> QED
    BY <1>7, <2>1, <2>2
<1>9. ContentsFit'
  BY <1>8 DEF ContentsFit
<1> QED
  BY <1>4, <1>9

LEMMA NextSafeInv ==
    ASSUME SafeInv, [Next]_vars
    PROVE  SafeInv'
<1>0. AliasInv /\ AliasInv' /\ Inv /\ Waiting /\ ContentsFit /\ NoInternalError
  BY NextAliasInv DEF SafeInv, AliasInv
<1>1. CASE AddInput \/ AddOperation \/ Build
  <2>1. phase' = "building" \/ phase' = "built"
    BY <1>1 DEF AddInput, AddOperation, Build
  <2> QED
    BY <1>0, <2>1 DEF SafeInv, Waiting, ContentsFit, NoInternalError
<1>2. ASSUME phase' = "done", Plain' => result'.kind # "integrity" PROVE SafeInv'
  <2>1. NoInternalError'
    BY <1>2 DEF NoInternalError, Plain
  <2> QED
    BY <1>0, <1>2, <2>1 DEF SafeInv, Waiting, ContentsFit
<1>3. CASE Start
  <2>1. CASE phase' = "done"
    <3>1. result'.kind # "integrity"
      BY <1>3, <2>1 DEF Start, Return
    <3> QED
      BY <1>2, <2>1, <3>1
  <2>2. CASE phase' # "done"
    <3>1. phase' = "running"
      BY <1>3, <2>2 DEF Start, Return
    <3>2. Waiting' /\ ContentsFit'
      BY <1>0, <1>3, <3>1, StartSafe
    <3> QED
      BY <1>0, <3>1, <3>2 DEF SafeInv, NoInternalError
  <2> QED
    BY <2>1, <2>2
<1>4. CASE RejectNode \/ SeeCancellation
  <2>1. phase' = "done" /\ result'.kind # "integrity"
    BY <1>4 DEF RejectNode, SeeCancellation, Return
  <2> QED
    BY <1>2, <2>1
<1>5. CASE ExecuteNode
  <2>1. UNCHANGED <<inputs, nodes, output>> /\ phase = "running" /\ next \in DOMAIN nodes
    BY <1>0, <1>5, ExecuteCases
  <2>2. CASE phase' = "done"
    <3>1. Plain' => Plain
      BY <2>1, PlainKept
    <3> QED
      BY <1>2, <1>5, <2>2, <3>1, PlainExecutes
  <2>3. CASE phase' # "done"
    <3>1. PICK outcome : NodeRan(outcome)
      BY <1>0, <1>5, <2>3, ExecuteCases
    <3>2. Waiting' /\ ContentsFit'
      BY <2>1, <3>1, RanWaiting, RanContents
    <3> QED
      BY <1>0, <2>3, <3>2 DEF SafeInv, NoInternalError
  <2> QED
    BY <2>2, <2>3
<1>6. CASE Finish
  <2>1. /\ phase = "running" /\ next = Len(nodes) + 1 /\ phase' = "done"
        /\ output \in DOMAIN runtime => result'.kind = "ok"
    BY <1>6 DEF Finish, Return
  <2>2. output \in DOMAIN runtime
    <3>1. /\ Within(output, Len(nodes)) /\ DOMAIN runtime = DOMAIN sched.values
          /\ Ready(sched, next, 0, 0, 0, output)
      BY <1>0, <2>1 DEF AliasInv, OutputSelected, Inv, Accounted, Waiting
    <3>2. next - 1 = Len(nodes)
      BY <1>0, <2>1, SeqShape DEF Inv, GraphOK
    <3>3. Present(output, next, 0) /\ Wanted(output, next, 0, output)
      BY <3>1, <3>2 DEF Present, Wanted
    <3> QED
      BY <3>1, <3>3 DEF Ready, Kept
  <2> QED
    BY <1>2, <2>1, <2>2
<1>7. CASE UNCHANGED vars
  <2>1. UNCHANGED <<inputs, nodes, output, phase, result, runtime, sched, next>>
    BY <1>7 DEF vars
  <2>2. Waiting'
    <3>1. SUFFICES ASSUME phase = "running" PROVE Waiting'
      BY <2>1 DEF Waiting
    <3>2. PICK s, n, o : s = sched /\ n = next /\ o = output
      OBVIOUS
    <3>3. Ready(s, n, 0, 0, 0, o)
      BY <1>0, <3>1, <3>2 DEF Waiting
    <3>4. Ready(s, n, 0, 0, 0, o)'
      BY <2>1, <3>3, ReadyKept
    <3> QED
      BY <2>1, <3>2, <3>4 DEF Waiting
  <2>3. Plain' <=> Plain
    BY <2>1, PlainKept
  <2>4. ContentsFit'
    <3>1. \A v : Facts(v)' = Facts(v)
      BY <2>1 DEF Facts
    <3> QED
      BY <1>0, <2>1, <2>3, <3>1 DEF ContentsFit
  <2>5. NoInternalError'
    BY <1>0, <2>1, <2>3 DEF NoInternalError, Plain
  <2> QED
    BY <1>0, <2>2, <2>4, <2>5 DEF SafeInv
<1> QED
  BY <1>1, <1>3, <1>4, <1>5, <1>6, <1>7 DEF Next

\* execute_host of a graph that was built, on inputs of the recorded lengths,
\* never ends with an integrity error when its conversions are the built-in
\* provider's: every value is there when it is used and dropped only after
\* its last use, no use count runs out, and what each kernel makes is as long
\* as the facts inferred for it, whichever of its two copy paths it takes.
THEOREM NoInternalErrorEver == Spec => []NoInternalError
<1>1. Init => SafeInv
  BY InitInv DEF Init, SafeInv, AliasInv, OutputSelected, AliasesKept, Waiting, ContentsFit, NoInternalError
<1>2. SafeInv => NoInternalError
  BY DEF SafeInv
<1> QED
  BY <1>1, <1>2, NextSafeInv, PTL DEF Spec

=============================================================================
