------------------------- MODULE MaterializerProofs -------------------------
(***************************************************************************)
(* What sessions of Materializer deliver and share, for any number of      *)
(* sessions, requests, files, overlays and changes of the cache root.      *)
(***************************************************************************)
EXTENDS Materializer, PlanProofs

-----------------------------------------------------------------------------
(* The bytes after each transform *)

\* The values of the first n steps.
IsChain(f, n, t, bytes) ==
    f = [k \in 0 .. n |-> IF k = 0 THEN bytes
                          ELSE Transformed(t.transforms[k], t.shape, f[k - 1])]

\* There are such values for any number of steps.
LEMMA ChainExists ==
    ASSUME NEW t, NEW bytes, NEW n \in Nat
    PROVE  \E f : IsChain(f, n, t, bytes)
<1> DEFINE T == {m \in Nat : ~\E f : IsChain(f, m, t, bytes)}
<1>1. SUFFICES ASSUME T # {} PROVE FALSE
  OBVIOUS
<1>2. PICK m \in T : \A l \in T : m <= l
  BY <1>1, LeastNumber
<1>3. CASE m = 0
  <2> DEFINE f == [k \in 0 .. 0 |-> bytes]
  <2>1. IsChain(f, 0, t, bytes)
    BY DEF IsChain
  <2> QED
    BY <1>2, <1>3, <2>1
<1>4. CASE m # 0
  <2>1. m \in Nat /\ m - 1 \in Nat /\ m - 1 \notin T
    BY <1>2, <1>4
  <2>2. PICK f : IsChain(f, m - 1, t, bytes)
    BY <2>1
  <2> DEFINE g == [k \in 0 .. m |-> IF k = m THEN Transformed(t.transforms[m], t.shape, f[m - 1])
                                    ELSE f[k]]
  <2>3. ASSUME NEW k \in 0 .. m
        PROVE  g[k] = IF k = 0 THEN bytes ELSE Transformed(t.transforms[k], t.shape, g[k - 1])
    <3>1. CASE k = m
      <4>1. g[k - 1] = f[m - 1]
        BY <1>4, <2>1, <3>1
      <4> QED
        BY <1>4, <3>1, <4>1
    <3>2. CASE k # m
      <4>1. k \in 0 .. m - 1 /\ g[k] = f[k]
        BY <2>1, <3>2
      <4>2. k # 0 => k - 1 \in 0 .. m /\ k - 1 # m /\ g[k - 1] = f[k - 1]
        BY <2>1, <4>1
      <4> QED
        BY <2>2, <4>1, <4>2 DEF IsChain
    <3> QED
      BY <3>1, <3>2
  <2>4. IsChain(g, m, t, bytes)
    BY <2>3 DEF IsChain
  <2> QED
    BY <1>2, <2>4
<1> QED
  BY <1>3, <1>4

\* What prepare_chain has after each step is what the step makes of what was
\* there before.
LEMMA ChainSteps ==
    ASSUME NEW t, NEW bytes, Len(t.transforms) \in Nat
    PROVE  /\ Chained(t, bytes)[0] = bytes
           /\ \A k \in 1 .. Len(t.transforms) :
                 Chained(t, bytes)[k] =
                     Transformed(t.transforms[k], t.shape, Chained(t, bytes)[k - 1])
<1> DEFINE C == Chained(t, bytes)
<1>1. PICK f : IsChain(f, Len(t.transforms), t, bytes)
  BY ChainExists
<1>2. C = CHOOSE g : IsChain(g, Len(t.transforms), t, bytes)
  BY DEF Chained, IsChain
<1>3. IsChain(C, Len(t.transforms), t, bytes)
  BY <1>1, <1>2
<1> HIDE DEF C
<1>4. C[0] = bytes
  BY <1>3 DEF IsChain
<1>5. ASSUME NEW k \in 1 .. Len(t.transforms)
      PROVE  C[k] = Transformed(t.transforms[k], t.shape, C[k - 1])
  BY <1>3 DEF IsChain
<1> QED
  BY <1>4, <1>5 DEF C

-----------------------------------------------------------------------------
(* What an address says *)

\* The bytes of a storage depend on the files it lies in.
LEMMA ReadsAgree ==
    ASSUME NEW c, NEW d, NEW storage,
           \A file \in FileOrdinals(storage) : c[file] = d[file]
    PROVE  ReadBytes(c, storage) = ReadBytes(d, storage)
<1>1. ASSUME NEW k \in DOMAIN Spans(storage)
      PROVE  Bytes(c, Spans(storage)[k]) = Bytes(d, Spans(storage)[k])
  BY DEF FileOrdinals, Range, Bytes
<1> QED
  BY <1>1 DEF ReadBytes

\* The sources in an address and their digests are the bytes of an opened
\* checkpoint that they name.
LEMMA SourcesAgree ==
    ASSUME NEW q, NEW plan, NEW b, NEW r, NEW p, NEW c,
           Opens(q, plan), Opens(r, p), SourceContent(plan, b) = SourceContent(p, c)
    PROVE  /\ DOMAIN b.sources = DOMAIN c.sources
           /\ \A k \in DOMAIN b.sources : b.sources[k] = c.sources[k]
           /\ SourceBytes(q, b) = SourceBytes(r, c)
<1> DEFINE Part(x, y, k) ==
             [source |-> y.sources[k],
              digests |-> [file \in FileOrdinals(y.sources[k].storage) |-> x.inputs.digests[file]]]
<1>1. /\ SourceContent(plan, b) = [k \in DOMAIN b.sources |-> Part(plan, b, k)]
      /\ SourceContent(p, c) = [k \in DOMAIN c.sources |-> Part(p, c, k)]
  BY DEF SourceContent
<1> HIDE DEF Part
<1>2. DOMAIN b.sources = DOMAIN c.sources
  <2>1. /\ DOMAIN SourceContent(plan, b) = DOMAIN b.sources
        /\ DOMAIN SourceContent(p, c) = DOMAIN c.sources
    BY <1>1
  <2> QED
    BY <2>1
<1>3. ASSUME NEW k \in DOMAIN b.sources
      PROVE  /\ b.sources[k] = c.sources[k]
             /\ \A file \in FileOrdinals(b.sources[k].storage) :
                   plan.inputs.digests[file] = p.inputs.digests[file]
  <2>1. Part(plan, b, k) = Part(p, c, k)
    BY <1>1, <1>2
  <2> DEFINE D(x, y) == [file \in FileOrdinals(y.sources[k].storage) |-> x.inputs.digests[file]]
  <2>2. b.sources[k] = c.sources[k] /\ D(plan, b) = D(p, c)
    BY <2>1 DEF Part
  <2>3. ASSUME NEW file \in FileOrdinals(b.sources[k].storage)
        PROVE  plan.inputs.digests[file] = p.inputs.digests[file]
    <3>1. D(plan, b)[file] = D(p, c)[file]
      BY <2>2
    <3> QED
      BY <2>2, <3>1
  <2> QED
    BY <2>2, <2>3
<1>4. \A k \in DOMAIN b.sources :
        ReadBytes(q.checkpoint.contents, b.sources[k].storage)
        = ReadBytes(r.checkpoint.contents, c.sources[k].storage)
  BY <1>3, ReadsAgree DEF Opens
<1> QED
  BY <1>2, <1>3, <1>4 DEF SourceBytes

\* The digest of a target determines what its overlay makes of a base.
LEMMA OverlaysAgree ==
    ASSUME NEW o, NEW p, NEW name, NEW base, TargetDigest(o, name) = TargetDigest(p, name)
    PROVE  Applied(o, name, base) = Applied(p, name, base)
<1> DEFINE Refs(x) == OperationRefs(x, Resolve(AliasTable(x.aliases), name))
           Layer(x, k) == x.layers[Refs(x)[k][1]]
           Op(x, k) == Layer(x, k).operations[Refs(x)[k][2]]
           Reads(x, k) == {ReadBytes(Layer(x, k).digests, source.storage) :
                             source \in OperationSources(Op(x, k))}
<1>1. ASSUME NEW x
      PROVE  /\ TargetOperations(x, name) =
                  [k \in DOMAIN Refs(x) |-> OperationIdentity(Layer(x, k), Op(x, k))]
             /\ Applied(x, name, base) =
                  <<"overlay", base, [k \in DOMAIN Refs(x) |-> <<Op(x, k), Reads(x, k)>>]>>
  BY DEF TargetOperations, Applied
<1>2. TargetOperations(o, name) = TargetOperations(p, name)
  BY DEF TargetDigest
<1> HIDE DEF Refs, Layer, Op
<1>3. DOMAIN Refs(o) = DOMAIN Refs(p)
  <2>1. \A x : DOMAIN TargetOperations(x, name) = DOMAIN Refs(x)
    BY <1>1
  <2> QED
    BY <1>2, <2>1
<1>4. ASSUME NEW k \in DOMAIN Refs(o)
      PROVE  Op(o, k) = Op(p, k) /\ Reads(o, k) = Reads(p, k)
  <2>1. OperationIdentity(Layer(o, k), Op(o, k)) = OperationIdentity(Layer(p, k), Op(p, k))
    BY <1>1, <1>2, <1>3
  <2> DEFINE D(x) == [file \in OperationFiles(Op(x, k)) |-> Layer(x, k).digests[file]]
  <2>2. Op(o, k) = Op(p, k) /\ D(o) = D(p)
    BY <2>1 DEF OperationIdentity
  <2>3. ASSUME NEW source \in OperationSources(Op(o, k))
        PROVE  ReadBytes(Layer(o, k).digests, source.storage)
               = ReadBytes(Layer(p, k).digests, source.storage)
    <3>1. ASSUME NEW file \in FileOrdinals(source.storage)
          PROVE  Layer(o, k).digests[file] = Layer(p, k).digests[file]
      <4>1. file \in OperationFiles(Op(o, k))
        BY DEF OperationFiles
      <4>2. D(o)[file] = D(p)[file]
        BY <2>2
      <4> QED
        BY <2>2, <4>1, <4>2
    <3> QED
      BY <3>1, ReadsAgree
  <2> QED
    BY <2>2, <2>3
<1>5. [k \in DOMAIN Refs(o) |-> <<Op(o, k), Reads(o, k)>>]
      = [k \in DOMAIN Refs(p) |-> <<Op(p, k), Reads(p, k)>>]
  BY <1>3, <1>4
<1> QED
  BY <1>1, <1>5

\* A request whose plan is obtained, opened and overlaid, and a binding of it.
Admitted(q, plan, b) ==
    /\ q \in Requests /\ plan = PlanObtained(q.from) /\ plan # Absent
    /\ Opens(q, plan) /\ OverlayAttaches(q, plan)
    /\ b \in Range(plan.bindings)

\* The lists of what is asked.
LEMMA RequestAsked ==
    ASSUME NEW q \in Requests
    PROVE  /\ Asked(AskedOf(q.from)) /\ q.from.kind \in {"build", "parse", "lookup"}
           /\ q.from.kind # "build" =>
                 LET p == q.from.wire.plan
                 IN  p = [inputs |-> p.inputs, policy |-> p.policy, sources |-> p.sources,
                          targets |-> p.targets, bindings |-> p.bindings, missing |-> p.missing,
                          unused |-> p.unused]
  BY RequestAssumption DEF Asked, Entries

\* A plan, however it was obtained, is one that planning makes of targets that
\* were accepted, with no error.
LEMMA PlanBuilt ==
    ASSUME NEW q \in Requests, PlanObtained(q.from) # Absent
    PROVE  LET r == AskedOf(q.from)
           IN  /\ Asked(r) /\ PlanValid(r) /\ PlanObtained(q.from) = BuiltPlan(r)
               /\ \A t \in Range(r.targets) : TargetAccepted(t)
<1> DEFINE r == AskedOf(q.from)
<1>0. Asked(r) /\ q.from.kind \in {"build", "parse", "lookup"}
  BY RequestAsked
<1>1. CASE q.from.kind = "build"
  BY <1>0, <1>1 DEF PlanObtained, AskedOf
<1>2. CASE q.from.kind \in {"parse", "lookup"}
  <2>1. PlanObtained(q.from) = q.from.wire.plan /\ Parses(q.from.wire)
    BY <1>2 DEF PlanObtained
  <2>2. r = RequestOf(q.from.wire.plan)
    BY <1>2 DEF AskedOf
  <2>3. r.targets = q.from.wire.plan.targets
    BY <2>2 DEF RequestOf
  <2>4. \A t \in Range(r.targets) : TargetAccepted(t)
    BY <2>1, <2>3 DEF Parses
  <2>5. PlanValid(r) /\ BuiltPlan(r) = q.from.wire.plan
    BY <1>0, <1>2, <2>1, <2>2, RequestAsked, ParsedPlan
  <2> QED
    BY <1>0, <2>1, <2>4, <2>5
<1> QED
  BY <1>0, <1>1, <1>2

\* The sources of a binding are a sequence of its own.
LEMMA BindingSources ==
    ASSUME NEW q, NEW plan, NEW b, Admitted(q, plan, b)
    PROVE  b.sources = [k \in DOMAIN b.sources |-> b.sources[k]]
<1>1. PICK r : plan.bindings = BuiltPlan(r).bindings
  BY PlanBuilt DEF Admitted
<1>2. \E t : b = [sources |-> Selected(r, t), target |-> t]
  BY <1>1 DEF Admitted, Range, BuiltPlan
<1>3. PICK t : b = [sources |-> Selected(r, t), target |-> t]
  BY <1>2
<1>4. b.sources = Selected(r, t)
  BY <1>3
<1> QED
  BY <1>4 DEF Selected

\* Whether it is the composed tensor or the base that is addressed.
Layers(q, b) == {FALSE, Overlaid(q, b)}

\* Bindings with one address have one fresh value and one length, in whichever
\* sessions, of whichever files, overlays and backends they are.
LEMMA AddressDetermines ==
    ASSUME NEW q, NEW plan, NEW b, Admitted(q, plan, b),
           NEW r, NEW p, NEW c, Admitted(r, p, c),
           NEW ov \in Layers(q, b), NEW ow \in Layers(r, c),
           CacheAddress(q, plan, b, ov) # Absent,
           CacheAddress(q, plan, b, ov) = CacheAddress(r, p, c, ow)
    PROVE  Fresh(q, plan, b, ov) = Fresh(r, p, c, ow) /\ b.target.out = c.target.out
<1> DEFINE Digest(x, y, o) == IF o THEN TargetDigest(x.overlay, y.target.name) ELSE Absent
<1>1. /\ b.target = c.target
      /\ Digest(q, b, ov) = Digest(r, c, ow)
      /\ plan.inputs.backend = p.inputs.backend
      /\ SourceContent(plan, b) = SourceContent(p, c)
  BY DEF CacheAddress
<1>2. /\ (Overlaid(q, b) => TargetDigest(q.overlay, b.target.name) # Absent)
      /\ (Overlaid(r, c) => TargetDigest(r.overlay, c.target.name) # Absent)
  BY RequestAssumption DEF Admitted
<1>3. (ov <=> ow) /\ (ov => TargetDigest(q.overlay, b.target.name)
                            = TargetDigest(r.overlay, c.target.name))
  BY <1>1, <1>2 DEF Layers
<1>4. b.sources = c.sources /\ SourceBytes(q, b) = SourceBytes(r, c)
  <2>1. /\ DOMAIN b.sources = DOMAIN c.sources
        /\ \A k \in DOMAIN b.sources : b.sources[k] = c.sources[k]
        /\ SourceBytes(q, b) = SourceBytes(r, c)
    BY <1>1, SourcesAgree DEF Admitted
  <2>2. /\ b.sources = [k \in DOMAIN b.sources |-> b.sources[k]]
        /\ c.sources = [k \in DOMAIN c.sources |-> c.sources[k]]
    BY BindingSources
  <2> QED
    BY <2>1, <2>2
<1>5. FreshBase(q, plan, b) = FreshBase(r, p, c)
  BY <1>1, <1>4 DEF FreshBase, BaseValue, GraphValue, ProviderValue
<1>6. Fresh(q, plan, b, ov) = Fresh(r, p, c, ow)
  <2>1. CASE ov
    <3>1. \A base : Applied(q.overlay, b.target.name, base) = Applied(r.overlay, b.target.name, base)
      BY <1>1, <1>3, <2>1, OverlaysAgree
    <3> QED
      BY <1>1, <1>3, <1>5, <2>1, <3>1 DEF Fresh
  <2>2. CASE ~ov
    BY <1>3, <1>5, <2>2 DEF Fresh
  <2> QED
    BY <2>1, <2>2
<1> QED
  BY <1>1, <1>6

-----------------------------------------------------------------------------
(* Sizes *)

LEMMA SpanBytesFinite ==
    ASSUME NEW S, IsFiniteSet(S), \A span \in S : span.len \in Nat
    PROVE  IsFiniteSet(UNION {{span} \X (1 .. span.len) : span \in S})
<1> DEFINE Of == [span \in S |-> {span} \X (1 .. span.len)]
           T == {{span} \X (1 .. span.len) : span \in S}
<1>1. Of \in Surjection(S, T)
  BY DEF Surjection
<1> HIDE DEF Of
<1>2. IsFiniteSet(T)
  BY <1>1, FS_Surjection
<1>3. \A span \in S : IsFiniteSet({span} \X (1 .. span.len))
  <2>1. SUFFICES ASSUME NEW span \in S PROVE IsFiniteSet({span} \X (1 .. span.len))
    OBVIOUS
  <2>2. IsFiniteSet({span})
    BY FS_Singleton, Zenon
  <2>3. IsFiniteSet(1 .. span.len)
    BY FS_Interval
  <2> QED
    BY <2>2, <2>3, FS_Product
<1> QED
  BY <1>2, <1>3, FS_UNION

\* Fewer spans are fewer bytes.
LEMMA FewerSpans ==
    ASSUME NEW S, IsFiniteSet(S), \A span \in S : span.len \in Nat, NEW T \in SUBSET S
    PROVE  TotalLen(T) \in Nat /\ TotalLen(S) \in Nat /\ TotalLen(T) <= TotalLen(S)
<1> DEFINE U(X) == UNION {{span} \X (1 .. span.len) : span \in X}
<1>1. IsFiniteSet(U(S)) /\ U(T) \in SUBSET U(S)
  BY SpanBytesFinite
<1>2. IsFiniteSet(U(T)) /\ Cardinality(U(T)) <= Cardinality(U(S))
  BY <1>1, FS_Subset
<1>3. Cardinality(U(T)) \in Nat /\ Cardinality(U(S)) \in Nat
  BY <1>1, <1>2, FS_CardinalityType
<1> QED
  BY <1>2, <1>3 DEF TotalLen

LEMMA OneSpan ==
    ASSUME NEW span, span.len \in Nat
    PROVE  TotalLen({span}) = span.len
<1>1. UNION {{s} \X (1 .. s.len) : s \in {span}} = {span} \X (1 .. span.len)
  OBVIOUS
<1>2. IsFiniteSet({span}) /\ Cardinality({span}) = 1
  BY FS_Singleton, Zenon
<1>3. IsFiniteSet(1 .. span.len) /\ Cardinality(1 .. span.len) = span.len
  BY FS_Interval
<1>4. Cardinality({span} \X (1 .. span.len)) = 1 * span.len
  BY <1>2, <1>3, FS_Product
<1> QED
  BY <1>1, <1>4 DEF TotalLen

\* The largest of the first n numbers.
IsPeak(f, n, live) ==
    f = [k \in 0 .. n |-> IF k = 0 THEN 0 ELSE Larger(f[k - 1], live[k])]

LEMMA PeakExists ==
    ASSUME NEW live, NEW n \in Nat
    PROVE  \E f : IsPeak(f, n, live)
<1> DEFINE T == {m \in Nat : ~\E f : IsPeak(f, m, live)}
<1>1. SUFFICES ASSUME T # {} PROVE FALSE
  OBVIOUS
<1>2. PICK m \in T : \A l \in T : m <= l
  BY <1>1, LeastNumber
<1>3. CASE m = 0
  <2> DEFINE f == [k \in 0 .. 0 |-> 0]
  <2>1. IsPeak(f, 0, live)
    BY DEF IsPeak
  <2> QED
    BY <1>2, <1>3, <2>1
<1>4. CASE m # 0
  <2>1. m \in Nat /\ m - 1 \in Nat /\ m - 1 \notin T
    BY <1>2, <1>4
  <2>2. PICK f : IsPeak(f, m - 1, live)
    BY <2>1
  <2> DEFINE g == [k \in 0 .. m |-> IF k = m THEN Larger(f[m - 1], live[m]) ELSE f[k]]
  <2>3. ASSUME NEW k \in 0 .. m
        PROVE  g[k] = IF k = 0 THEN 0 ELSE Larger(g[k - 1], live[k])
    <3>1. CASE k = m
      <4>1. g[k - 1] = f[m - 1]
        BY <1>4, <2>1, <3>1
      <4> QED
        BY <1>4, <3>1, <4>1
    <3>2. CASE k # m
      <4>1. k \in 0 .. m - 1 /\ g[k] = f[k]
        BY <2>1, <3>2
      <4>2. k # 0 => k - 1 \in 0 .. m /\ k - 1 # m /\ g[k - 1] = f[k - 1]
        BY <2>1, <4>1
      <4> QED
        BY <2>2, <4>1, <4>2 DEF IsPeak
    <3> QED
      BY <3>1, <3>2
  <2>4. IsPeak(g, m, live)
    BY <2>3 DEF IsPeak
  <2> QED
    BY <1>2, <2>4
<1> QED
  BY <1>3, <1>4

\* No number is larger than the peak.
LEMMA PeakBounds ==
    ASSUME NEW live \in Seq(Nat)
    PROVE  Peak(live) \in Nat /\ \A k \in 1 .. Len(live) : live[k] <= Peak(live)
<1> DEFINE n == Len(live)
           P == CHOOSE g : IsPeak(g, n, live)
<1>0. n \in Nat /\ \A j \in 1 .. n : live[j] \in Nat
  OBVIOUS
<1>1. IsPeak(P, n, live)
  BY <1>0, PeakExists
<1>2. Peak(live) = P[n]
  BY DEF Peak, IsPeak
<1> HIDE DEF P, n
<1>3. P[0] = 0 /\ \A j \in 1 .. n : P[j] = Larger(P[j - 1], live[j])
  BY <1>0, <1>1 DEF IsPeak
<1> DEFINE T == {m \in 0 .. n : ~(P[m] \in Nat /\ \A j \in 1 .. m : live[j] <= P[m])}
<1>4. T = {}
  <2>1. SUFFICES ASSUME T # {} PROVE FALSE
    OBVIOUS
  <2>2. T \subseteq Nat
    BY <1>0
  <2>3. PICK m \in T : \A l \in T : m <= l
    BY <2>1, <2>2, LeastNumber
  <2>4. m # 0
    BY <1>3, <2>3
  <2>5. m \in 1 .. n /\ m - 1 \in 0 .. n /\ m - 1 \notin T
    BY <1>0, <2>3, <2>4
  <2>6. P[m - 1] \in Nat /\ \A j \in 1 .. m - 1 : live[j] <= P[m - 1]
    BY <2>5
  <2>7. live[m] \in Nat /\ P[m] = Larger(P[m - 1], live[m])
    BY <1>0, <1>3, <2>5
  <2>8. P[m] \in Nat /\ P[m] >= P[m - 1] /\ P[m] >= live[m]
    BY <2>6, <2>7 DEF Larger
  <2>9. ASSUME NEW j \in 1 .. m PROVE live[j] <= P[m]
    <3>1. CASE j = m
      BY <2>7, <2>8, <3>1
    <3>2. CASE j # m
      <4>1. j \in 1 .. m - 1 /\ live[j] \in Nat
        BY <1>0, <2>5, <3>2
      <4> QED
        BY <2>6, <2>8, <4>1
    <3> QED
      BY <3>1, <3>2
  <2> QED
    BY <2>3, <2>8, <2>9
<1>5. n \in 0 .. n
  BY <1>0
<1> QED
  BY <1>0, <1>2, <1>4, <1>5 DEF n

\* What is live during each of the transforms of an opened binding.
Live(steps) ==
    [k \in 1 .. Len(steps) |->
        (IF k > 1 THEN steps[k - 1].out ELSE 0) + (IF k < Len(steps) THEN steps[k].out ELSE 0)
        + steps[k].scratch]

LEMMA LiveSizes ==
    ASSUME NEW q, NEW plan, NEW b, Admitted(q, plan, b)
    PROVE  LET steps == b.target.transforms
           IN  /\ Len(steps) \in Nat
               /\ \A k \in 1 .. Len(steps) : steps[k].out \in Nat /\ steps[k].scratch \in Nat
               /\ Live(steps) \in Seq(Nat) /\ Len(Live(steps)) = Len(steps)
               /\ PeakTransformScratch(steps) = Peak(Live(steps))
<1> DEFINE steps == b.target.transforms
           n == Len(steps)
           Of(j) == (IF j > 1 THEN steps[j - 1].out ELSE 0) + (IF j < n THEN steps[j].out ELSE 0)
                    + steps[j].scratch
<1>1. steps \in Seq(Range(steps)) /\ \A step \in Range(steps) : step.out \in Nat /\ step.scratch \in Nat
  BY RequestAssumption DEF Admitted
<1>2. n \in Nat /\ DOMAIN steps = 1 .. n
  BY <1>1
<1>3. \A j \in 1 .. n : steps[j].out \in Nat /\ steps[j].scratch \in Nat
  BY <1>1, <1>2 DEF Range
<1>4. \A j \in 1 .. n : j > 1 => j - 1 \in 1 .. n
  BY <1>2
<1> HIDE DEF steps, n
<1>5. \A j \in 1 .. n : Of(j) \in Nat
  BY <1>2, <1>3, <1>4
<1>6. Live(steps) = [j \in 1 .. n |-> Of(j)]
  BY DEF Live, n
<1> HIDE DEF Of
<1>7. Live(steps) \in [1 .. n -> Nat]
  BY <1>5, <1>6
<1>8. Live(steps) \in Seq(Nat) /\ Len(Live(steps)) = n
  BY <1>2, <1>7
<1>9. PeakTransformScratch(steps) = Peak(Live(steps))
  BY DEF PeakTransformScratch, Live
<1> QED
  BY <1>2, <1>3, <1>8, <1>9 DEF n, steps

\* resource_weights are numbers of bytes.
LEMMA WeightsAreSizes ==
    ASSUME NEW q, NEW plan, NEW b, Admitted(q, plan, b)
    PROVE  ResourceWeights(q, b) \in [source : Nat, scratch : Nat, prepared : Nat]
<1>1. /\ IsFiniteSet(UniqueSpans(b)) /\ \A span \in UniqueSpans(b) : span.len \in Nat
      /\ b.target.out \in Nat
      /\ b.target.graph # Absent => b.target.graph.estimate \in Nat
  BY RequestAssumption DEF Admitted
<1>2. \A T \in SUBSET UniqueSpans(b) : TotalLen(T) \in Nat
  BY <1>1, FewerSpans
<1>3. TotalLen(UniqueSpans(b)) \in Nat
  BY <1>2
<1>4. TotalLen({span \in UniqueSpans(b) : ~GuaranteedMapped(q, span)}) \in Nat
  BY <1>2
<1>5. PeakTransformScratch(b.target.transforms) \in Nat
  BY LiveSizes, PeakBounds
<1> QED
  BY <1>1, <1>3, <1>4, <1>5 DEF ResourceWeights, Weights

-----------------------------------------------------------------------------
(* The inductive invariant *)

Sizes == [source : Nat, scratch : Nat, prepared : Nat]

\* The fields of a task and of a session.
TaskFields ==
    {"pc", "stage", "handle", "reserved", "held", "step", "value", "len", "delivery",
     "error", "grew", "published"}
TaskShape(t) == t = [f \in TaskFields |-> t[f]]
SessionFields == {"phase", "request", "plan", "tasks", "error"}
SessionShape(x) == x = [f \in SessionFields |-> x[f]]

\* Until the sources are read, an item has reserved what any route that is
\* still open delivers, as far as the limit admits it.
Enough(q, b, t) ==
    t.pc \in {"lookup", "read", "evict"} =>
        /\ t.reserved.prepared >= Smaller(ResourceWeights(q, b).prepared, Limits.prepared)
        /\ q.cached /\ FinalHostOutput(b, t.stage = "overlay") =>
              t.reserved.prepared >= Smaller(b.target.out, Limits.prepared)

ReservedInv(q, b, t) ==
    /\ t.reserved \in Sizes /\ ~t.grew
    /\ Enough(q, b, t)

\* A target that is a chain of transforms of its source.
Straight(b) ==
    /\ b.target.graph = Absent /\ b.target.recipe = Absent
    /\ b.sources[1].storage.kind # "quantized"

\* Only the lookup of the composed tensor comes before that of the base, and
\* the transforms begin with the first.
StageInv(q, b, t) ==
    /\ t.stage \in {"overlay", "base"}
    /\ t.stage = "overlay" =>
          Overlaid(q, b) /\ t.pc \in {"lookup", "read", "evict", "done", "failed"}
    /\ t.pc \in {"lookup", "read", "evict", "source"} => t.step = 1

\* What a task has in hand is a part of the way to the fresh value.
ValueInv(q, plan, b, t) ==
    /\ t.pc = "read" =>
          /\ q.validation = "trusted" => t.handle.intact
          /\ t.handle.intact => t.handle.value = Fresh(q, plan, b, t.stage = "overlay")
    /\ t.pc = "transform" =>
          /\ Straight(b) /\ t.step \in 1 .. Len(b.target.transforms)
          /\ t.value = Chained(b.target, SourceBytes(q, b)[1][1])[t.step - 1]
    /\ t.pc = "graph" => b.target.graph # Absent /\ t.value = SourceBytes(q, b)
    /\ t.pc = "compare" => b.target.graph # Absent
    /\ t.pc \in {"compare", "publish"} => t.value = FreshBase(q, plan, b)
    /\ t.pc = "done" =>
          /\ t.delivery.wrapped = (t.stage = "base" /\ Overlaid(q, b))
          /\ IF t.delivery.kind = "prepared"
             THEN t.delivery.value = Fresh(q, plan, b, t.stage = "overlay")
             ELSE t.stage = "base" /\ t.delivery.value = SourceBytes(q, b)

TaskInv(q, plan, b, t) ==
    /\ TaskShape(t) /\ StageInv(q, b, t)
    /\ ReservedInv(q, b, t) /\ ValueInv(q, plan, b, t)

\* A session works on an opened plan of its request.
SessionInv(x) ==
    /\ SessionShape(x)
    /\ x.phase \in {"planned", "open", "running"} =>
          x.request \in Requests /\ x.plan = PlanObtained(x.request.from) /\ x.plan # Absent
    /\ x.phase \in {"open", "running"} =>
          Opens(x.request, x.plan) /\ OverlayAttaches(x.request, x.plan)
    /\ x.phase # "running" => x.tasks = <<>>
    /\ x.phase = "running" =>
          /\ x.tasks = [i \in DOMAIN x.plan.bindings |-> x.tasks[i]]
          /\ \A i \in DOMAIN x.plan.bindings :
                TaskInv(x.request, x.plan, x.plan.bindings[i], x.tasks[i])

\* An intact entry is what every request with a binding at its address makes,
\* whether a session has asked it yet or not.
EntryInv(a, e) ==
    e.intact /\ a # Absent =>
        \A q, plan, b : Admitted(q, plan, b) =>
            \A overlaid \in Layers(q, b) :
                CacheAddress(q, plan, b, overlaid) = a =>
                    e.value = Fresh(q, plan, b, overlaid) /\ e.len = b.target.out

SessionsInv ==
    /\ session = [s \in Sessions |-> session[s]]
    /\ \A s \in Sessions : SessionInv(session[s])
CacheInv ==
    \A a \in DOMAIN cache :
        EntryInv(a, cache[a]) /\ (tampering = 0 => cache[a].intact)
TrustInv == tampering \in Nat /\ (Protected => tampering = 0)

MaterializerInv == SessionsInv /\ CacheInv /\ TrustInv

\* Nobody has asked for anything.
LEMMA InitInv == Init => MaterializerInv
<1> SUFFICES ASSUME Init PROVE MaterializerInv
  OBVIOUS
<1>1. SessionInv(Idle)
  BY DEF SessionInv, SessionShape, SessionFields, Idle
<1>2. SessionsInv
  BY <1>1 DEF Init, SessionsInv
<1>3. CacheInv
  BY DEF Init, CacheInv
<1>4. TrustInv
  BY DEF Init, TrustInv, Protected, Idle
<1> QED
  BY <1>2, <1>3, <1>4 DEF MaterializerInv

\* A binding of a running session.
LEMMA RunningTask ==
    ASSUME SessionsInv, NEW s \in Sessions, NEW i \in Tasks(s)
    PROVE  /\ session[s].phase = "running" /\ i \in DOMAIN Bindings(s)
           /\ Admitted(Request(s), session[s].plan, Bindings(s)[i])
           /\ TaskInv(Request(s), session[s].plan, Bindings(s)[i], Task(s, i))
<1>1. SessionInv(session[s])
  BY DEF SessionsInv
<1>2. session[s].phase = "running"
  BY <1>1 DEF SessionInv, Tasks
<1>3. i \in DOMAIN session[s].plan.bindings
  BY <1>1, <1>2 DEF SessionInv, Tasks
<1> QED
  BY <1>1, <1>2, <1>3 DEF SessionInv, Bindings, Request, Task, Admitted, Range

\* What changes when a task does.
LEMMA SetTaskKeeps ==
    ASSUME SessionsInv, NEW s \in Sessions, NEW i \in Tasks(s), NEW t, SetTask(s, i, t),
           TaskInv(Request(s), session[s].plan, Bindings(s)[i], t)
    PROVE  SessionsInv' /\ (Protected' <=> Protected)
<1> DEFINE x == session[s]
           y == session'[s]
<1>1. SessionInv(x) /\ x.phase = "running" /\ i \in DOMAIN x.plan.bindings
  BY RunningTask DEF SessionsInv, Bindings
<1>2. /\ session' = [r \in Sessions |-> session'[r]]
      /\ \A r \in Sessions \ {s} : session'[r] = session[r]
      /\ y = [x EXCEPT !.tasks = [x.tasks EXCEPT ![i] = t]]
  BY DEF SetTask, SessionsInv
<1> HIDE DEF x, y
<1>3. /\ SessionShape(y) /\ y.phase = x.phase /\ y.request = x.request
      /\ y.plan = x.plan /\ y.tasks = [x.tasks EXCEPT ![i] = t]
  BY <1>1, <1>2 DEF SessionInv, SessionShape, SessionFields
<1>4. /\ y.tasks = [j \in DOMAIN y.plan.bindings |-> y.tasks[j]]
      /\ \A j \in DOMAIN x.plan.bindings : y.tasks[j] = IF j = i THEN t ELSE x.tasks[j]
  BY <1>1, <1>3 DEF SessionInv
<1>5. TaskInv(x.request, x.plan, x.plan.bindings[i], t)
  BY DEF Request, Bindings, x
<1>6. SessionInv(y)
  BY <1>1, <1>3, <1>4, <1>5 DEF SessionInv
<1>7. SessionsInv'
  BY <1>2, <1>6 DEF SessionsInv, y
<1>8. \A r \in Sessions : session'[r].request = session[r].request
  BY <1>2, <1>3 DEF x, y
<1>9. Protected' <=> Protected
  BY <1>8 DEF Protected, Request
<1> QED
  BY <1>7, <1>9

-----------------------------------------------------------------------------
(* One binding *)

\* What is assumed of the sizes of a binding.
LEMMA AdmittedFacts ==
    ASSUME NEW q, NEW plan, NEW b, Admitted(q, plan, b)
    PROVE  /\ b.target.out \in Nat /\ ResourceWeights(q, b) \in Sizes
           /\ Len(b.target.transforms) \in Nat
           /\ b.target.transforms = <<>> <=> Len(b.target.transforms) = 0
           /\ q.validation \in {"full", "trusted"}
           /\ \A overlaid \in {FALSE, Overlaid(q, b)} :
                 FinalHostOutput(b, overlaid) <=> CacheAddress(q, plan, b, overlaid) # Absent
<1>1. /\ b.target.out \in Nat /\ ResourceWeights(q, b) \in Sizes
      /\ b.target.transforms \in Seq(Range(b.target.transforms))
      /\ q.validation \in {"full", "trusted"}
      /\ \A overlaid \in {FALSE, Overlaid(q, b)} :
            FinalHostOutput(b, overlaid) => CacheAddress(q, plan, b, overlaid) # Absent
  BY RequestAssumption, WeightsAreSizes DEF Admitted, Sizes
<1>2. \A overlaid : ~FinalHostOutput(b, overlaid) => CacheAddress(q, plan, b, overlaid) = Absent
  BY DEF CacheAddress
<1>3. /\ Len(b.target.transforms) \in Nat
      /\ b.target.transforms = <<>> <=> Len(b.target.transforms) = 0
  BY <1>1
<1> QED
  BY <1>1, <1>2, <1>3

\* A task that failed.
LEMMA FailedTask ==
    ASSUME NEW q, NEW plan, NEW b, NEW t, NEW error, TaskInv(q, plan, b, t)
    PROVE  TaskInv(q, plan, b, Failed(t, error))
<1> DEFINE u == Failed(t, error)
<1>1. /\ TaskShape(u) /\ u.pc = "failed" /\ u.stage = t.stage /\ u.grew = t.grew
      /\ u.reserved = Nothing
  BY DEF TaskInv, TaskShape, TaskFields, Failed
<1>2. Nothing \in Sizes
  BY DEF Nothing, Weights, Sizes
<1> HIDE DEF u
<1> QED
  BY <1>1, <1>2 DEF TaskInv, StageInv, ReservedInv, Enough, ValueInv, u

\* An acquisition that fails, or does not grow the prepared bytes.
LEMMA Acquires ==
    ASSUME NEW t, TaskShape(t), t.reserved \in Sizes, ~t.grew,
           NEW required \in Sizes, NEW pc, NEW w, w = WithResources(t, required, pc),
           \/ required.prepared <= t.reserved.prepared
           \/ required.prepared > Limits.prepared
    PROVE  \/ w = Failed(t, "limit")
           \/ /\ TaskShape(w) /\ w.pc = pc /\ w.reserved \in Sizes /\ ~w.grew
              /\ w.reserved.prepared >= t.reserved.prepared
              /\ w.stage = t.stage /\ w.handle = t.handle /\ w.step = t.step
<1> USE DEF Sizes
<1>0. Limits \in Sizes
  BY MaterializerAssumption
<1>1. CASE required.prepared > t.reserved.prepared
  <2> DEFINE missing == Missed(required, [t.reserved EXCEPT !.prepared = 0])
  <2>1. "prepared" \in DOMAIN missing /\ missing["prepared"] = required.prepared
    BY <1>1 DEF Missed
  <2>2. ~Covered(missing, Limits)
    BY <1>0, <1>1, <2>1 DEF Covered
  <2> QED
    BY <1>1, <2>2 DEF WithResources
<1>2. CASE ~(required.prepared > t.reserved.prepared)
  <2> DEFINE u == [t EXCEPT !.pc = pc, !.reserved = MaxWeights(@, required),
                            !.grew = @ \/ required.prepared > t.reserved.prepared]
  <2>1. WithResources(t, required, pc) \in {u, Failed(t, "limit")}
    BY DEF WithResources
  <2>2. /\ TaskShape(u) /\ u.pc = pc /\ u.reserved = MaxWeights(t.reserved, required)
        /\ ~u.grew
        /\ u.stage = t.stage /\ u.handle = t.handle /\ u.step = t.step
    BY <1>2 DEF TaskShape, TaskFields
  <2>3. /\ MaxWeights(t.reserved, required) \in Sizes
        /\ MaxWeights(t.reserved, required).prepared >= t.reserved.prepared
    BY DEF MaxWeights
  <2> HIDE DEF u
  <2> QED
    BY <2>1, <2>2, <2>3
<1> QED
  BY <1>1, <1>2

\* What has no final bytes of its own has none under an overlay either.
LEMMA FinalUnderOverlay ==
    ASSUME NEW b, FinalHostOutput(b, FALSE) PROVE FinalHostOutput(b, TRUE)
BY DEF FinalHostOutput

\* The step after a lookup without success.
LEMMA MissKeeps ==
    ASSUME NEW s, NEW i, NEW t,
           Admitted(Request(s), session[s].plan, Bindings(s)[i]),
           TaskInv(Request(s), session[s].plan, Bindings(s)[i], t),
           t.pc \in {"lookup", "evict"}
    PROVE  TaskInv(Request(s), session[s].plan, Bindings(s)[i], AfterMiss(s, i, t))
<1> DEFINE q == Request(s)
           plan == session[s].plan
           b == Bindings(s)[i]
<1> HIDE DEF q, plan, b
<1>0. /\ b.target.out \in Nat /\ ResourceWeights(q, b) \in Sizes /\ Limits \in Sizes
      /\ TaskInv(q, plan, b, t) /\ TaskShape(t)
  BY AdmittedFacts, MaterializerAssumption DEF q, plan, b, Sizes, TaskInv
<1>1. CASE t.stage = "overlay"
  <2> DEFINE u == [t EXCEPT !.stage = "base", !.pc = "lookup", !.handle = Absent]
  <2>1. AfterMiss(s, i, t) = u
    BY <1>1 DEF AfterMiss
  <2>2. /\ TaskShape(u) /\ u.stage = "base" /\ u.pc = "lookup" /\ u.reserved = t.reserved
        /\ u.grew = t.grew /\ u.step = t.step
    BY <1>0 DEF TaskShape, TaskFields
  <2> HIDE DEF u
  <2>3. /\ u.reserved.prepared >= Smaller(ResourceWeights(q, b).prepared, Limits.prepared)
        /\ q.cached /\ FinalHostOutput(b, FALSE) =>
              u.reserved.prepared >= Smaller(b.target.out, Limits.prepared)
    BY <1>0, <1>1, <2>2, FinalUnderOverlay DEF TaskInv, ReservedInv, Enough
  <2>4. Enough(q, b, u)
    BY <2>2, <2>3 DEF Enough
  <2> QED
    BY <1>0, <2>1, <2>2, <2>4 DEF TaskInv, StageInv, ReservedInv, ValueInv, q, plan, b
<1>2. CASE t.stage # "overlay"
  <2> DEFINE v == [t EXCEPT !.handle = Absent]
             u == WithResources(v, ResourceWeights(q, b), "source")
  <2>1. AfterMiss(s, i, t) = u
    BY <1>2 DEF AfterMiss, q, b
  <2>2. TaskShape(v) /\ v.pc = t.pc /\ v.reserved = t.reserved /\ v.grew = t.grew
        /\ v.stage = t.stage /\ v.step = t.step
    BY <1>0 DEF TaskShape, TaskFields
  <2>3. \/ ResourceWeights(q, b).prepared <= v.reserved.prepared
        \/ ResourceWeights(q, b).prepared > Limits.prepared
    <3>1. t.reserved.prepared >= Smaller(ResourceWeights(q, b).prepared, Limits.prepared)
      BY <1>0 DEF TaskInv, ReservedInv, Enough
    <3>2. /\ t.reserved.prepared \in Nat /\ Limits.prepared \in Nat
          /\ ResourceWeights(q, b).prepared \in Nat
      BY <1>0 DEF TaskInv, ReservedInv, Sizes
    <3> QED
      BY <2>2, <3>1, <3>2 DEF Smaller
  <2>4. v.reserved \in Sizes /\ ~v.grew
    BY <1>0, <2>2 DEF TaskInv, ReservedInv
  <2>5. TaskInv(q, plan, b, v)
    BY <1>0, <2>2 DEF TaskInv, StageInv, ReservedInv, Enough, ValueInv
  <2> HIDE DEF v, u
  <2>6. \/ u = Failed(v, "limit")
        \/ /\ TaskShape(u) /\ u.pc = "source" /\ u.reserved \in Sizes /\ ~u.grew
           /\ u.stage = v.stage /\ u.step = v.step
    <3>1. u = WithResources(v, ResourceWeights(q, b), "source")
      BY DEF u
    <3>2. /\ TaskShape(v) /\ v.reserved \in Sizes /\ ~v.grew
          /\ ResourceWeights(q, b) \in Sizes
      BY <1>0, <2>2, <2>4
    <3> QED
      BY <2>3, <3>1, <3>2, Acquires
  <2>7. TaskInv(q, plan, b, u)
    <3>1. CASE u = Failed(v, "limit")
      BY <2>5, <3>1, FailedTask
    <3>2. CASE u # Failed(v, "limit")
      <4>1. u.stage = "base" /\ u.step = 1
        BY <1>0, <1>2, <2>2, <2>6, <3>2 DEF TaskInv, StageInv
      <4> QED
        BY <2>6, <3>2, <4>1 DEF TaskInv, StageInv, ReservedInv, Enough, ValueInv
    <3> QED
      BY <3>1, <3>2
  <2> QED
    BY <2>1, <2>7 DEF q, plan, b
<1> QED
  BY <1>1, <1>2

\* A step of a task that leaves the cache alone.
LEMMA TaskStep ==
    ASSUME MaterializerInv, NEW s \in Sessions, NEW i \in Tasks(s), NEW t, SetTask(s, i, t),
           TaskInv(Request(s), session[s].plan, Bindings(s)[i], t),
           UNCHANGED <<cache, tampering>>
    PROVE  MaterializerInv'
<1>1. SessionsInv' /\ (Protected' <=> Protected)
  BY SetTaskKeeps DEF MaterializerInv
<1>2. CacheInv' /\ TrustInv'
  BY <1>1 DEF MaterializerInv, CacheInv, TrustInv
<1> QED
  BY <1>1, <1>2 DEF MaterializerInv

\* What the entry at the address of a task says.
LEMMA EntryIsFresh ==
    ASSUME MaterializerInv, NEW s \in Sessions, NEW i \in Tasks(s),
           Address(s, i) # Absent, Address(s, i) \in DOMAIN cache
    PROVE  LET e == cache[Address(s, i)]
           IN  /\ Request(s).validation = "trusted" => e.intact
               /\ e.intact => e.value = Fresh(Request(s), session[s].plan, Bindings(s)[i],
                                              Task(s, i).stage = "overlay")
<1> DEFINE q == Request(s)
           plan == session[s].plan
           b == Bindings(s)[i]
           t == Task(s, i)
           a == Address(s, i)
<1>1. Admitted(q, plan, b) /\ TaskInv(q, plan, b, t)
  BY RunningTask DEF MaterializerInv
<1>2. (t.stage = "overlay") \in {FALSE, Overlaid(q, b)}
  BY <1>1 DEF TaskInv, StageInv, Overlaid
<1>3. EntryInv(a, cache[a]) /\ (tampering = 0 => cache[a].intact)
  BY DEF MaterializerInv, CacheInv
<1>4. a = CacheAddress(q, plan, b, t.stage = "overlay")
  BY DEF Address
<1>5. cache[a].intact => cache[a].value = Fresh(q, plan, b, t.stage = "overlay")
  <2> HIDE DEF q, plan, b, t, a
  <2>1. PICK ov \in Layers(q, b) : ov = (t.stage = "overlay")
    BY <1>2 DEF Layers
  <2>2. a # Absent /\ a = CacheAddress(q, plan, b, ov)
    BY <1>4, <2>1 DEF a
  <2>3. cache[a].intact => cache[a].value = Fresh(q, plan, b, ov)
    BY <1>1, <1>3, <2>2 DEF EntryInv
  <2> QED
    BY <2>1, <2>3
<1>6. q.validation = "trusted" => tampering = 0
  <2>1. q # Absent
    BY <1>1, RequestAssumption DEF Admitted
  <2> QED
    BY <2>1 DEF MaterializerInv, TrustInv, Protected, Request
<1> QED
  BY <1>3, <1>5, <1>6

\* A lookup: a hit's entry is what this binding makes, and a session that
\* trusts metadata meets only intact ones.
LEMMA LookupKeeps ==
    ASSUME MaterializerInv, NEW s \in Sessions, NEW i \in Tasks(s), Lookup(s, i)
    PROVE  MaterializerInv'
<1> DEFINE q == Request(s)
           plan == session[s].plan
           b == Bindings(s)[i]
           t == Task(s, i)
           a == Address(s, i)
           out == b.target.out
<1>0. /\ Admitted(q, plan, b) /\ TaskInv(q, plan, b, t) /\ t.pc = "lookup"
      /\ UNCHANGED <<cache, tampering>>
  BY RunningTask DEF MaterializerInv, Lookup
<1>1. CASE ~q.cached \/ a = Absent \/ a \notin DOMAIN cache
  <2>1. SetTask(s, i, AfterMiss(s, i, t))
    BY <1>1 DEF Lookup
  <2>2. TaskInv(q, plan, b, AfterMiss(s, i, t))
    BY <1>0, MissKeeps
  <2> QED
    BY <1>0, <2>1, <2>2, TaskStep
<1>2. CASE q.cached /\ a # Absent /\ a \in DOMAIN cache /\ cache[a].len # out
  <2> DEFINE u == [t EXCEPT !.pc = "evict"]
  <2>1. SetTask(s, i, u)
    BY <1>2 DEF Lookup
  <2>2. /\ TaskShape(u) /\ u.pc = "evict" /\ u.stage = t.stage
        /\ u.reserved = t.reserved /\ u.grew = t.grew /\ u.step = t.step
    BY <1>0 DEF TaskInv, TaskShape, TaskFields
  <2> HIDE DEF u
  <2>3. TaskInv(q, plan, b, u)
    BY <1>0, <2>2 DEF TaskInv, StageInv, ReservedInv, Enough, ValueInv
  <2> QED
    BY <1>0, <2>1, <2>3, TaskStep
<1>3. CASE q.cached /\ a # Absent /\ a \in DOMAIN cache /\ cache[a].len = out
  <2> DEFINE v == [t EXCEPT !.handle = cache[a]]
             u == WithResources(v, Weights(0, 0, out), "read")
  <2>1. SetTask(s, i, u)
    BY <1>3 DEF Lookup
  <2>2. /\ TaskShape(v) /\ v.pc = t.pc /\ v.stage = t.stage /\ v.reserved = t.reserved
        /\ v.grew = t.grew /\ v.handle = cache[a] /\ v.step = t.step
    BY <1>0 DEF TaskInv, TaskShape, TaskFields
  <2>3. TaskInv(q, plan, b, v)
    BY <1>0, <2>2 DEF TaskInv, StageInv, ReservedInv, Enough, ValueInv
  <2>4. out \in Nat /\ Weights(0, 0, out) \in Sizes /\ Weights(0, 0, out).prepared = out
        /\ Limits.prepared \in Nat
    BY <1>0, AdmittedFacts, MaterializerAssumption DEF Weights, Sizes
  <2>5. v.reserved.prepared >= Smaller(out, Limits.prepared)
    <3>1. FinalHostOutput(b, t.stage = "overlay")
      BY <1>3 DEF Address, CacheAddress
    <3> QED
      BY <1>0, <1>3, <2>2, <3>1 DEF TaskInv, ReservedInv, Enough
  <2>6. /\ v.reserved \in Sizes /\ ~v.grew /\ v.reserved.prepared \in Nat
    BY <1>0, <2>2 DEF TaskInv, ReservedInv, Sizes
  <2>7. out <= v.reserved.prepared \/ out > Limits.prepared
    BY <2>4, <2>5, <2>6 DEF Smaller
  <2> HIDE DEF v, u
  <2>8. \/ u = Failed(v, "limit")
        \/ /\ TaskShape(u) /\ u.pc = "read" /\ u.reserved \in Sizes /\ ~u.grew
           /\ u.reserved.prepared >= v.reserved.prepared
           /\ u.stage = v.stage /\ u.handle = v.handle /\ u.step = v.step
    <3>1. u = WithResources(v, Weights(0, 0, out), "read")
      BY DEF u
    <3> QED
      BY <2>2, <2>4, <2>6, <2>7, <3>1, Acquires
  <2>9. TaskInv(q, plan, b, u)
    <3>1. CASE u = Failed(v, "limit")
      BY <2>3, <3>1, FailedTask
    <3>2. CASE u # Failed(v, "limit")
      <4>1. ReservedInv(q, b, u)
        <5>1. u.reserved.prepared \in Nat
          BY <2>8, <3>2 DEF Sizes
        <5>2. /\ ResourceWeights(q, b).prepared \in Nat
          BY <1>0, AdmittedFacts DEF Sizes
        <5>3. v.reserved.prepared >= Smaller(ResourceWeights(q, b).prepared, Limits.prepared)
          BY <1>0, <2>2 DEF TaskInv, ReservedInv, Enough
        <5>4. /\ u.reserved.prepared >= Smaller(ResourceWeights(q, b).prepared, Limits.prepared)
              /\ u.reserved.prepared >= Smaller(out, Limits.prepared)
          BY <2>4, <2>5, <2>6, <2>8, <3>2, <5>1, <5>2, <5>3 DEF Smaller
        <5> QED
          BY <2>8, <3>2, <5>4 DEF ReservedInv, Enough
      <4>2. StageInv(q, b, u)
        BY <1>0, <2>2, <2>8, <3>2 DEF TaskInv, StageInv
      <4>3. ValueInv(q, plan, b, u)
        <5>1. /\ q.validation = "trusted" => cache[a].intact
              /\ cache[a].intact => cache[a].value = Fresh(q, plan, b, t.stage = "overlay")
          BY <1>3, EntryIsFresh
        <5>2. u.pc = "read" /\ u.handle = cache[a] /\ u.stage = t.stage
          BY <2>2, <2>8, <3>2
        <5> QED
          BY <5>1, <5>2 DEF ValueInv
      <4> QED
        BY <2>8, <3>2, <4>1, <4>2, <4>3 DEF TaskInv
    <3> QED
      BY <3>1, <3>2
  <2> QED
    BY <1>0, <2>1, <2>9, TaskStep
<1> QED
  BY <1>1, <1>2, <1>3

\* A delivery of the fresh value, or of the bytes a provider is to prepare.
LEMMA DeliverKeeps ==
    ASSUME NEW s, NEW i, NEW t, NEW kind, NEW value, NEW resident,
           TaskShape(t), StageInv(Request(s), Bindings(s)[i], t), t.reserved \in Sizes, ~t.grew,
           IF kind = "prepared"
           THEN value = Fresh(Request(s), session[s].plan, Bindings(s)[i], t.stage = "overlay")
           ELSE t.stage = "base" /\ value = SourceBytes(Request(s), Bindings(s)[i])
    PROVE  TaskInv(Request(s), session[s].plan, Bindings(s)[i],
                   Deliver(s, i, t, kind, value, resident))
<1> DEFINE q == Request(s)
           plan == session[s].plan
           b == Bindings(s)[i]
           u == Deliver(s, i, t, kind, value, resident)
<1>1. /\ TaskShape(u) /\ u.pc = "done" /\ u.stage = t.stage /\ u.grew = t.grew
      /\ u.reserved = Weights(0, 0, t.reserved.prepared)
  BY DEF Deliver, TaskShape, TaskFields
<1>2. /\ u.delivery.kind = kind /\ u.delivery.value = value
      /\ u.delivery.wrapped = (t.stage = "base" /\ Overlaid(q, b))
  BY DEF Deliver, TaskShape, TaskFields
<1>3. u.reserved \in Sizes
  BY <1>1 DEF Weights, Sizes
<1> HIDE DEF q, plan, b, u
<1>4. StageInv(q, b, u)
  BY <1>1 DEF StageInv, q, b
<1>5. ReservedInv(q, b, u)
  BY <1>1, <1>3 DEF ReservedInv, Enough
<1>6. ValueInv(q, plan, b, u)
  BY <1>1, <1>2 DEF ValueInv, q, plan, b
<1> QED
  BY <1>1, <1>4, <1>5, <1>6 DEF TaskInv, q, plan, b, u

\* A read: what is validated in full, or cannot have been changed, is fresh.
LEMMA ReadEntryKeeps ==
    ASSUME MaterializerInv, NEW s \in Sessions, NEW i \in Tasks(s), ReadEntry(s, i)
    PROVE  MaterializerInv'
<1> DEFINE q == Request(s)
           plan == session[s].plan
           b == Bindings(s)[i]
           t == Task(s, i)
<1>0. /\ Admitted(q, plan, b) /\ TaskInv(q, plan, b, t) /\ t.pc = "read"
      /\ UNCHANGED <<cache, tampering>>
  BY RunningTask DEF MaterializerInv, ReadEntry
<1>1. CASE q.validation = "full" /\ ~t.handle.intact
  <2> DEFINE u == [t EXCEPT !.pc = "evict", !.handle = Absent]
  <2>1. SetTask(s, i, u)
    BY <1>1 DEF ReadEntry
  <2>2. /\ TaskShape(u) /\ u.pc = "evict" /\ u.stage = t.stage
        /\ u.reserved = t.reserved /\ u.grew = t.grew /\ u.step = t.step
    BY <1>0 DEF TaskInv, TaskShape, TaskFields
  <2> HIDE DEF u
  <2>3. TaskInv(q, plan, b, u)
    BY <1>0, <2>2 DEF TaskInv, StageInv, ReservedInv, Enough, ValueInv
  <2> QED
    BY <1>0, <2>1, <2>3, TaskStep
<1>2. CASE ~(q.validation = "full" /\ ~t.handle.intact)
  <2> DEFINE v == [t EXCEPT !.handle = Absent]
  <2>1. SetTask(s, i, Deliver(s, i, v, "prepared", t.handle.value, b.target.out))
    BY <1>2 DEF ReadEntry
  <2>2. /\ TaskShape(v) /\ v.pc = t.pc /\ v.stage = t.stage
        /\ v.reserved = t.reserved /\ v.grew = t.grew /\ v.step = t.step
    BY <1>0 DEF TaskInv, TaskShape, TaskFields
  <2>3. t.handle.value = Fresh(q, plan, b, t.stage = "overlay")
    <3>1. q.validation \in {"full", "trusted"}
      BY <1>0, AdmittedFacts
    <3> QED
      BY <1>0, <1>2, <3>1 DEF TaskInv, ValueInv
  <2> HIDE DEF v
  <2>4. StageInv(q, b, v) /\ v.reserved \in Sizes /\ ~v.grew
    BY <1>0, <2>2 DEF TaskInv, StageInv, ReservedInv
  <2>5. TaskInv(q, plan, b, Deliver(s, i, v, "prepared", t.handle.value, b.target.out))
    <3> DEFINE value == t.handle.value
               resident == b.target.out
    <3>1. value = Fresh(q, plan, b, v.stage = "overlay")
      BY <2>2, <2>3
    <3> HIDE DEF value, resident
    <3>2. TaskInv(q, plan, b, Deliver(s, i, v, "prepared", value, resident))
      BY <2>2, <2>4, <3>1, DeliverKeeps
    <3> QED
      BY <3>2 DEF value, resident
  <2> QED
    BY <1>0, <2>1, <2>5, TaskStep
<1> QED
  BY <1>1, <1>2

\* A step of a task that changes the cache.
LEMMA TaskAndCacheStep ==
    ASSUME MaterializerInv, NEW s \in Sessions, NEW i \in Tasks(s), NEW t, SetTask(s, i, t),
           TaskInv(Request(s), session[s].plan, Bindings(s)[i], t),
           CacheInv', UNCHANGED tampering
    PROVE  MaterializerInv'
<1>1. SessionsInv' /\ (Protected' <=> Protected)
  BY SetTaskKeeps DEF MaterializerInv
<1>2. TrustInv'
  BY <1>1 DEF MaterializerInv, TrustInv
<1> QED
  BY <1>1, <1>2 DEF MaterializerInv

\* An eviction.
LEMMA CacheShrinks ==
    ASSUME CacheInv, NEW D \in SUBSET DOMAIN cache, cache' = Restrict(cache, D), UNCHANGED tampering
    PROVE  CacheInv'
<1>1. DOMAIN cache' = D /\ \A a \in D : cache'[a] = cache[a]
  BY DEF Restrict
<1> QED
  BY <1>1 DEF CacheInv

\* The eviction of a corrupt entry, and of what has replaced it.
LEMMA EvictCorruptKeeps ==
    ASSUME MaterializerInv, NEW s \in Sessions, NEW i \in Tasks(s), EvictCorrupt(s, i)
    PROVE  MaterializerInv'
<1> DEFINE t == Task(s, i)
<1>1. /\ Admitted(Request(s), session[s].plan, Bindings(s)[i])
      /\ TaskInv(Request(s), session[s].plan, Bindings(s)[i], t) /\ t.pc = "evict"
      /\ SetTask(s, i, AfterMiss(s, i, t)) /\ UNCHANGED tampering
  BY RunningTask DEF MaterializerInv, EvictCorrupt
<1>2. TaskInv(Request(s), session[s].plan, Bindings(s)[i], AfterMiss(s, i, t))
  BY <1>1, MissKeeps
<1>3. CacheInv'
  <2> DEFINE D == DOMAIN cache \ {Address(s, i)}
  <2>1. D \in SUBSET DOMAIN cache /\ cache' = Restrict(cache, D)
    BY DEF EvictCorrupt
  <2> HIDE DEF D
  <2> QED
    BY <1>1, <2>1, CacheShrinks DEF MaterializerInv
<1> QED
  BY <1>1, <1>2, <1>3, TaskAndCacheStep

\* A publication of the fresh bytes of a binding at its address.
LEMMA PublishedKeeps ==
    ASSUME CacheInv, NEW q, NEW plan, NEW b, Admitted(q, plan, b),
           NEW ov \in Layers(q, b), NEW a, a # Absent, a = CacheAddress(q, plan, b, ov),
           NEW value, value = Fresh(q, plan, b, ov), NEW len, len = b.target.out,
           cache' = Published(a, value, len), UNCHANGED tampering
    PROVE  CacheInv'
<1> DEFINE e == [value |-> value, len |-> len, intact |-> TRUE]
<1>1. EntryInv(a, e)
  <2>1. SUFFICES ASSUME NEW r, NEW p, NEW c, Admitted(r, p, c), NEW ow \in Layers(r, c),
                        CacheAddress(r, p, c, ow) = a
                 PROVE  e.value = Fresh(r, p, c, ow) /\ e.len = c.target.out
    BY DEF EntryInv
  <2>2. Fresh(q, plan, b, ov) = Fresh(r, p, c, ow) /\ b.target.out = c.target.out
    <3>1. /\ CacheAddress(q, plan, b, ov) # Absent
          /\ CacheAddress(q, plan, b, ov) = CacheAddress(r, p, c, ow)
      BY <2>1
    <3> QED
      BY <2>1, <3>1, AddressDetermines
  <2> QED
    BY <2>2
<1>2. e.intact
  OBVIOUS
<1>3. ASSUME NEW x \in DOMAIN cache'
      PROVE  (cache'[x] = e /\ x = a) \/ (cache'[x] = cache[x] /\ x \in DOMAIN cache)
  <2> HIDE DEF e
  <2>1. \/ cache' = cache
        \/ cache' = [y \in DOMAIN cache \cup {a} |-> IF y = a THEN e ELSE cache[y]]
    BY DEF Published, e
  <2>2. CASE cache' = cache
    BY <2>2
  <2>3. CASE cache' = [y \in DOMAIN cache \cup {a} |-> IF y = a THEN e ELSE cache[y]]
    BY <2>3
  <2> QED
    BY <2>1, <2>2, <2>3
<1> HIDE DEF e
<1> QED
  BY <1>1, <1>2, <1>3 DEF CacheInv

\* What a route makes of the bytes of the sources.
LEMMA RouteKeeps ==
    ASSUME NEW s, NEW i, NEW t, NEW bytes, NEW resident,
           Admitted(Request(s), session[s].plan, Bindings(s)[i]),
           TaskShape(t), StageInv(Request(s), Bindings(s)[i], t), t.reserved \in Sizes, ~t.grew,
           t.pc = "source", bytes = SourceBytes(Request(s), Bindings(s)[i])
    PROVE  TaskInv(Request(s), session[s].plan, Bindings(s)[i], Route(s, i, t, bytes, resident))
<1> DEFINE q == Request(s)
           plan == session[s].plan
           b == Bindings(s)[i]
           u == Route(s, i, t, bytes, resident)
<1>1. t.stage = "base" /\ t.step = 1
  BY DEF StageInv
<1>2. ASSUME NEW kind, kind # "prepared"
      PROVE  TaskInv(q, plan, b, Deliver(s, i, t, kind, bytes, resident))
  BY <1>1, <1>2, DeliverKeeps
<1>3. CASE b.target.graph # Absent
  <2>1. CASE q.mode = "delegate"
    BY <1>2, <1>3, <2>1 DEF Route, GraphRoute
  <2>2. CASE q.mode # "delegate"
    <3>1. u = [t EXCEPT !.pc = "graph", !.value = bytes]
      BY <1>3, <2>2 DEF Route, GraphRoute
    <3>2. /\ TaskShape(u) /\ u.pc = "graph" /\ u.stage = t.stage /\ u.value = bytes
          /\ u.reserved = t.reserved /\ u.grew = t.grew
      BY <3>1 DEF TaskShape, TaskFields
    <3> HIDE DEF u
    <3>3. TaskInv(q, plan, b, u)
      BY <1>1, <1>3, <3>2 DEF TaskInv, StageInv, ReservedInv, Enough, ValueInv
    <3> QED
      BY <3>3 DEF u
  <2> QED
    BY <2>1, <2>2
<1>4. CASE b.target.graph = Absent /\ b.sources[1].storage.kind = "quantized"
  BY <1>2, <1>4 DEF Route, QuantizedRoute
<1>5. CASE /\ b.target.graph = Absent /\ b.sources[1].storage.kind # "quantized"
           /\ b.target.recipe # Absent
  BY <1>2, <1>5 DEF Route, ConversionRoute
<1>6. CASE Straight(b)
  <2> DEFINE pc == IF b.target.transforms = <<>> THEN "publish" ELSE "transform"
             first == bytes[1][1]
  <2>1. u = [t EXCEPT !.pc = pc, !.value = first, !.len = resident]
    BY <1>6 DEF Route, PlainRoute, Straight
  <2>2. /\ Len(b.target.transforms) \in Nat
        /\ b.target.transforms = <<>> <=> Len(b.target.transforms) = 0
    BY AdmittedFacts
  <2>3. Chained(b.target, first)[0] = first
    BY <2>2, ChainSteps
  <2>4. FreshBase(q, plan, b) = Chained(b.target, first)[Len(b.target.transforms)]
    BY <1>6 DEF FreshBase, BaseValue, Straight
  <2> HIDE DEF pc, first
  <2>5. /\ TaskShape(u) /\ u.pc = pc /\ u.stage = t.stage /\ u.value = first
        /\ u.reserved = t.reserved /\ u.grew = t.grew /\ u.step = t.step
    BY <2>1 DEF TaskShape, TaskFields
  <2> HIDE DEF u
  <2>6. ValueInv(q, plan, b, u)
    <3>1. CASE b.target.transforms = <<>>
      BY <2>2, <2>3, <2>4, <2>5, <3>1 DEF ValueInv, pc
    <3>2. CASE b.target.transforms # <<>>
      <4>1. u.pc = "transform" /\ 1 \in 1 .. Len(b.target.transforms) /\ u.step = 1
        BY <1>1, <2>2, <2>5, <3>2 DEF pc
      <4>2. u.value = Chained(b.target, SourceBytes(q, b)[1][1])[u.step - 1]
        BY <2>3, <2>5, <4>1 DEF first
      <4> QED
        BY <1>6, <4>1, <4>2 DEF ValueInv
    <3> QED
      BY <3>1, <3>2
  <2>7. StageInv(q, b, u) /\ ReservedInv(q, b, u)
    BY <1>1, <2>5 DEF StageInv, ReservedInv, Enough, pc
  <2> QED
    BY <2>5, <2>6, <2>7 DEF TaskInv, u
<1> QED
  BY <1>3, <1>4, <1>5, <1>6 DEF Straight

\* The bytes that are read are those of the opened files.
LEMMA ReadSourcesKeeps ==
    ASSUME MaterializerInv, NEW s \in Sessions, NEW i \in Tasks(s), ReadSources(s, i)
    PROVE  MaterializerInv'
<1> DEFINE q == Request(s)
           plan == session[s].plan
           b == Bindings(s)[i]
           t == Task(s, i)
<1>1. /\ Admitted(q, plan, b) /\ TaskInv(q, plan, b, t) /\ t.pc = "source"
      /\ UNCHANGED <<cache, tampering>>
  BY RunningTask DEF MaterializerInv, ReadSources
<1>2. PICK held : SetTask(s, i, Route(s, i, [t EXCEPT !.held = held], SourceBytes(q, b),
                                      TotalLen(UniqueSpans(b))))
  BY DEF ReadSources
<1> DEFINE v == [t EXCEPT !.held = held]
<1>3. /\ TaskShape(v) /\ v.pc = "source" /\ v.stage = t.stage /\ v.step = t.step
      /\ v.reserved = t.reserved /\ v.grew = t.grew
  BY <1>1 DEF TaskInv, TaskShape, TaskFields
<1> HIDE DEF v
<1>4. StageInv(q, b, v) /\ v.reserved \in Sizes /\ ~v.grew
  BY <1>1, <1>3 DEF TaskInv, StageInv, ReservedInv
<1>5. TaskInv(q, plan, b, Route(s, i, v, SourceBytes(q, b), TotalLen(UniqueSpans(b))))
  BY <1>1, <1>3, <1>4, RouteKeeps
<1> QED
  BY <1>1, <1>2, <1>5, TaskStep DEF v

\* A transform makes the next value of the chain.
LEMMA TransformStepKeeps ==
    ASSUME MaterializerInv, NEW s \in Sessions, NEW i \in Tasks(s), TransformStep(s, i)
    PROVE  MaterializerInv'
<1> DEFINE q == Request(s)
           plan == session[s].plan
           b == Bindings(s)[i]
           t == Task(s, i)
           n == Len(b.target.transforms)
           step == b.target.transforms[t.step]
           first == SourceBytes(q, b)[1][1]
<1>1. /\ Admitted(q, plan, b) /\ TaskInv(q, plan, b, t) /\ t.pc = "transform"
      /\ UNCHANGED <<cache, tampering>>
  BY RunningTask DEF MaterializerInv, TransformStep
<1>2. CASE ~Conforms(step, t.len)
  <2>1. SetTask(s, i, Failed(t, "provider"))
    BY <1>2 DEF TransformStep
  <2> QED
    BY <1>1, <2>1, FailedTask, TaskStep
<1>3. CASE Conforms(step, t.len)
  <2>1. PICK held, len :
          SetTask(s, i, [t EXCEPT !.pc = IF t.step = n THEN "publish" ELSE "transform",
                                  !.step = @ + 1,
                                  !.value = Transformed(step, b.target.shape, @),
                                  !.len = len, !.held = held])
    BY <1>3 DEF TransformStep
  <2> DEFINE pc == IF t.step = n THEN "publish" ELSE "transform"
             u == [t EXCEPT !.pc = pc, !.step = @ + 1,
                            !.value = Transformed(step, b.target.shape, @),
                            !.len = len, !.held = held]
  <2>2. /\ TaskShape(u) /\ u.pc = pc /\ u.stage = t.stage /\ u.step = t.step + 1
        /\ u.value = Transformed(step, b.target.shape, t.value)
        /\ u.reserved = t.reserved /\ u.grew = t.grew
    BY <1>1 DEF TaskInv, TaskShape, TaskFields
  <2>3. n \in Nat
    BY <1>1, AdmittedFacts
  <2>4. /\ Straight(b) /\ t.step \in 1 .. n
        /\ t.value = Chained(b.target, first)[t.step - 1]
    BY <1>1 DEF TaskInv, ValueInv
  <2>5. u.value = Chained(b.target, first)[t.step]
    BY <2>2, <2>3, <2>4, ChainSteps
  <2>6. FreshBase(q, plan, b) = Chained(b.target, first)[n]
    BY <2>4 DEF FreshBase, BaseValue, Straight
  <2> HIDE DEF u, n, first, step, q, plan, b, t
  <2>7. ValueInv(q, plan, b, u)
    <3>1. CASE t.step = n
      BY <2>2, <2>5, <2>6, <3>1 DEF ValueInv
    <3>2. CASE t.step # n
      <4>1. u.pc = "transform" /\ u.step \in 1 .. n /\ u.step - 1 = t.step
        BY <2>2, <2>3, <2>4, <3>2
      <4> QED
        BY <2>4, <2>5, <4>1 DEF ValueInv, n, first
    <3> QED
      BY <3>1, <3>2
  <2>8. StageInv(q, b, u) /\ ReservedInv(q, b, u)
    BY <1>1, <2>2 DEF TaskInv, StageInv, ReservedInv, Enough
  <2>9. TaskInv(q, plan, b, u)
    BY <2>2, <2>7, <2>8 DEF TaskInv
  <2>10. SetTask(s, i, u)
    BY <2>1 DEF u, t, n, step, b
  <2> QED
    BY <1>1, <2>9, <2>10, TaskStep DEF q, plan, b
<1> QED
  BY <1>2, <1>3

\* A graph makes the base of what was read.
LEMMA RunGraphKeeps ==
    ASSUME MaterializerInv, NEW s \in Sessions, NEW i \in Tasks(s), RunGraph(s, i)
    PROVE  MaterializerInv'
<1> DEFINE q == Request(s)
           plan == session[s].plan
           b == Bindings(s)[i]
           t == Task(s, i)
<1>1. /\ Admitted(q, plan, b) /\ TaskInv(q, plan, b, t) /\ t.pc = "graph"
      /\ UNCHANGED <<cache, tampering>>
  BY RunningTask DEF MaterializerInv, RunGraph
<1>2. PICK held, len :
        SetTask(s, i, [t EXCEPT !.pc = "compare", !.len = len,
                                !.value = GraphValue(b.target.graph, t.value), !.held = held])
  BY DEF RunGraph
<1> DEFINE u == [t EXCEPT !.pc = "compare", !.len = len,
                          !.value = GraphValue(b.target.graph, t.value), !.held = held]
<1>3. /\ TaskShape(u) /\ u.pc = "compare" /\ u.stage = t.stage
      /\ u.value = GraphValue(b.target.graph, t.value)
      /\ u.reserved = t.reserved /\ u.grew = t.grew
  BY <1>1 DEF TaskInv, TaskShape, TaskFields
<1>4. b.target.graph # Absent /\ u.value = FreshBase(q, plan, b)
  BY <1>1, <1>3 DEF TaskInv, ValueInv, FreshBase, BaseValue
<1> HIDE DEF u
<1>5. TaskInv(q, plan, b, u)
  BY <1>1, <1>3, <1>4 DEF TaskInv, StageInv, ReservedInv, Enough, ValueInv
<1>6. SetTask(s, i, u)
  BY <1>2 DEF u
<1> QED
  BY <1>1, <1>5, <1>6, TaskStep

\* The comparison with the estimate keeps the bytes or fails.
LEMMA CompareScratchKeeps ==
    ASSUME MaterializerInv, NEW s \in Sessions, NEW i \in Tasks(s), CompareScratch(s, i)
    PROVE  MaterializerInv'
<1> DEFINE q == Request(s)
           plan == session[s].plan
           b == Bindings(s)[i]
           t == Task(s, i)
           held == [t.held EXCEPT !.scratch = 0]
           u == [t EXCEPT !.pc = "publish", !.held = held]
<1>1. /\ Admitted(q, plan, b) /\ TaskInv(q, plan, b, t) /\ t.pc = "compare"
      /\ UNCHANGED <<cache, tampering>>
  BY RunningTask DEF MaterializerInv, CompareScratch
<1>2. SetTask(s, i, IF b.target.graph.peak > b.target.graph.estimate THEN Failed(t, "estimate") ELSE u)
  <2>1. u = [t EXCEPT !.pc = "publish", !.held = [@ EXCEPT !.scratch = 0]]
    BY <1>1 DEF TaskInv, TaskShape, TaskFields
  <2> QED
    BY <2>1 DEF CompareScratch
<1>3. /\ TaskShape(u) /\ u.pc = "publish" /\ u.stage = t.stage /\ u.value = t.value
      /\ u.reserved = t.reserved /\ u.grew = t.grew
  BY <1>1 DEF TaskInv, TaskShape, TaskFields
<1> HIDE DEF u
<1>4. TaskInv(q, plan, b, u)
  BY <1>1, <1>3 DEF TaskInv, StageInv, ReservedInv, Enough, ValueInv
<1>5. CASE b.target.graph.peak > b.target.graph.estimate
  BY <1>1, <1>2, <1>5, FailedTask, TaskStep
<1>6. CASE ~(b.target.graph.peak > b.target.graph.estimate)
  BY <1>1, <1>2, <1>4, <1>6, TaskStep
<1> QED
  BY <1>5, <1>6

\* A host publishes and delivers the fresh base.
LEMMA PublishOwnKeeps ==
    ASSUME MaterializerInv, NEW s \in Sessions, NEW i \in Tasks(s), PublishOwn(s, i)
    PROVE  MaterializerInv'
<1> DEFINE q == Request(s)
           plan == session[s].plan
           b == Bindings(s)[i]
           t == Task(s, i)
           a == Address(s, i)
<1>1. /\ Admitted(q, plan, b) /\ TaskInv(q, plan, b, t) /\ t.pc = "publish"
      /\ UNCHANGED tampering
  BY RunningTask DEF MaterializerInv, PublishOwn
<1>2. CASE t.len # b.target.out
  <2>1. SetTask(s, i, Failed(t, "integrity")) /\ UNCHANGED cache
    BY <1>2 DEF PublishOwn
  <2> QED
    BY <1>1, <2>1, FailedTask, TaskStep
<1>3. CASE t.len = b.target.out
  <2>1. /\ SetTask(s, i, Deliver(s, i, t, "prepared", t.value, t.len))
        /\ cache' = IF q.cached /\ a # Absent THEN Published(a, t.value, t.len) ELSE cache
    BY <1>3 DEF PublishOwn
  <2>2. /\ t.stage = "base" /\ TaskShape(t) /\ StageInv(q, b, t) /\ t.reserved \in Sizes
        /\ ~t.grew /\ t.value = FreshBase(q, plan, b)
    BY <1>1 DEF TaskInv, StageInv, ReservedInv, ValueInv
  <2>3. /\ t.value = Fresh(q, plan, b, t.stage = "overlay")
        /\ t.value = Fresh(q, plan, b, FALSE)
        /\ a = CacheAddress(q, plan, b, FALSE)
    BY <2>2 DEF Fresh, Address
  <2>4. TaskInv(q, plan, b, Deliver(s, i, t, "prepared", t.value, t.len))
    <3> DEFINE value == t.value
               resident == t.len
    <3>1. value = Fresh(q, plan, b, t.stage = "overlay")
      BY <2>3
    <3> HIDE DEF value, resident
    <3>2. TaskInv(q, plan, b, Deliver(s, i, t, "prepared", value, resident))
      BY <2>2, <3>1, DeliverKeeps
    <3> QED
      BY <3>2 DEF value, resident
  <2>5. CacheInv'
    <3>1. CASE q.cached /\ a # Absent
      <4>1. cache' = Published(a, t.value, t.len) /\ FALSE \in Layers(q, b)
        BY <2>1, <3>1 DEF Layers
      <4> QED
        BY <1>1, <1>3, <2>3, <3>1, <4>1, PublishedKeeps DEF MaterializerInv
    <3>2. CASE ~(q.cached /\ a # Absent)
      BY <1>1, <2>1, <3>2 DEF MaterializerInv, CacheInv
    <3> QED
      BY <3>1, <3>2
  <2> QED
    BY <1>1, <2>1, <2>4, <2>5, TaskAndCacheStep
<1> QED
  BY <1>2, <1>3

\* A provider publishes what the binding, composed if it is overlaid, is.
LEMMA ProviderPublishKeeps ==
    ASSUME MaterializerInv, NEW s \in Sessions, NEW i \in Tasks(s), ProviderPublish(s, i)
    PROVE  MaterializerInv'
<1> DEFINE q == Request(s)
           plan == session[s].plan
           b == Bindings(s)[i]
           t == Task(s, i)
           ov == Overlaid(q, b)
           a == CacheAddress(q, plan, b, ov)
           base == IF t.delivery.kind = "prepared" THEN t.delivery.value
                   ELSE BaseValue(plan, b, t.delivery.value)
           value == IF t.delivery.wrapped THEN Applied(q.overlay, b.target.name, base) ELSE base
           u == [t EXCEPT !.published = TRUE]
<1>1. /\ Admitted(q, plan, b) /\ TaskInv(q, plan, b, t) /\ t.pc = "done"
      /\ UNCHANGED tampering
  BY RunningTask DEF MaterializerInv, ProviderPublish
<1>2. /\ t.delivery.kind # "prepared" \/ t.delivery.wrapped
      /\ a # Absent /\ cache' = Published(a, value, b.target.out) /\ SetTask(s, i, u)
  BY DEF ProviderPublish
<1>3. t.stage = "base"
  BY <1>1, <1>2 DEF TaskInv, StageInv, ValueInv
<1>4. base = FreshBase(q, plan, b)
  <2>1. CASE t.delivery.kind = "prepared"
    BY <1>1, <1>3, <2>1 DEF TaskInv, ValueInv, Fresh
  <2>2. CASE t.delivery.kind # "prepared"
    BY <1>1, <2>2 DEF TaskInv, ValueInv, FreshBase
  <2> QED
    BY <2>1, <2>2
<1>5. value = Fresh(q, plan, b, ov)
  BY <1>1, <1>3, <1>4 DEF TaskInv, ValueInv, Fresh
<1>6. CacheInv'
  <2>1. ov \in Layers(q, b)
    BY DEF Layers
  <2> HIDE DEF value, ov, a
  <2>2. a = CacheAddress(q, plan, b, ov)
    BY DEF a
  <2> QED
    BY <1>1, <1>2, <1>5, <2>1, <2>2, PublishedKeeps DEF MaterializerInv
<1>7. TaskInv(q, plan, b, u)
  <2>1. /\ TaskShape(u) /\ u.pc = t.pc /\ u.stage = t.stage /\ u.delivery = t.delivery
        /\ u.reserved = t.reserved /\ u.grew = t.grew
    BY <1>1 DEF TaskInv, TaskShape, TaskFields
  <2> HIDE DEF u
  <2> QED
    BY <1>1, <2>1 DEF TaskInv, StageInv, ReservedInv, Enough, ValueInv
<1> QED
  BY <1>1, <1>2, <1>6, <1>7, TaskAndCacheStep

-----------------------------------------------------------------------------
(* Plans, sessions and the world around *)

\* What changes when a session does.
LEMMA SessionStep ==
    ASSUME SessionsInv, NEW s \in Sessions, NEW x, session' = [session EXCEPT ![s] = x], SessionInv(x)
    PROVE  /\ SessionsInv' /\ session'[s] = x
           /\ \A r \in Sessions \ {s} : session'[r] = session[r]
<1>1. session'[s] = x /\ \A r \in Sessions \ {s} : session'[r] = session[r]
  BY DEF SessionsInv
<1>2. session' = [r \in Sessions |-> session'[r]]
  BY DEF SessionsInv
<1> QED
  BY <1>1, <1>2 DEF SessionsInv

\* A plan is obtained, and the root promised to be protected.
LEMMA ObtainPlanKeeps ==
    ASSUME MaterializerInv, NEW s \in Sessions, ObtainPlan(s)
    PROVE  MaterializerInv'
<1>1. PICK q \in Requests :
        /\ q.validation = "trusted" => tampering = 0
        /\ session' = [session EXCEPT ![s] =
               [@ EXCEPT !.request = q, !.plan = PlanObtained(q.from),
                         !.phase = IF PlanObtained(q.from) = Absent THEN "rejected" ELSE "planned"]]
  BY DEF ObtainPlan
<1> DEFINE x == session[s]
           phase == IF PlanObtained(q.from) = Absent THEN "rejected" ELSE "planned"
           y == [x EXCEPT !.request = q, !.plan = PlanObtained(q.from), !.phase = phase]
<1>2. SessionInv(x) /\ x.phase = "idle" /\ SessionsInv /\ UNCHANGED <<cache, tampering>>
  BY DEF MaterializerInv, SessionsInv, ObtainPlan
<1>3. session' = [session EXCEPT ![s] = y]
  BY <1>1, <1>2 DEF SessionsInv
<1>4. /\ SessionShape(y) /\ y.request = q /\ y.plan = PlanObtained(q.from) /\ y.phase = phase
      /\ y.tasks = x.tasks
  BY <1>2 DEF SessionInv, SessionShape, SessionFields
<1>5. x.tasks = <<>>
  BY <1>2 DEF SessionInv
<1> HIDE DEF y, x
<1>6. SessionInv(y)
  BY <1>1, <1>4, <1>5 DEF SessionInv
<1>7. /\ SessionsInv' /\ session'[s] = y
      /\ \A r \in Sessions \ {s} : session'[r] = session[r]
  BY <1>2, <1>3, <1>6, SessionStep
<1>8. TrustInv'
  <2>1. ASSUME NEW r \in Sessions, session'[r].request # Absent,
               session'[r].request.validation = "trusted"
        PROVE  tampering = 0
    <3>1. CASE r = s
      BY <1>1, <1>4, <1>7, <2>1, <3>1
    <3>2. CASE r # s
      BY <1>7, <2>1, <3>2 DEF MaterializerInv, TrustInv, Protected, Request
    <3> QED
      BY <3>1, <3>2
  <2> QED
    BY <1>2, <2>1 DEF MaterializerInv, TrustInv, Protected, Request
<1>9. CacheInv'
  BY <1>2 DEF MaterializerInv, CacheInv
<1> QED
  BY <1>7, <1>8, <1>9 DEF MaterializerInv

\* A session that keeps its request.
LEMMA RequestKept ==
    ASSUME MaterializerInv, NEW s \in Sessions, NEW x, session' = [session EXCEPT ![s] = x],
           SessionInv(x), x.request = session[s].request, UNCHANGED <<cache, tampering>>
    PROVE  MaterializerInv'
<1>1. /\ SessionsInv' /\ session'[s] = x
      /\ \A r \in Sessions \ {s} : session'[r] = session[r]
  BY SessionStep DEF MaterializerInv
<1>2. \A r \in Sessions : session'[r].request = session[r].request
  BY <1>1
<1>3. CacheInv' /\ TrustInv'
  BY <1>2 DEF MaterializerInv, CacheInv, TrustInv, Protected, Request
<1> QED
  BY <1>1, <1>3 DEF MaterializerInv

\* A session opens what matches its files.
LEMMA OpenSessionKeeps ==
    ASSUME MaterializerInv, NEW s \in Sessions, OpenSession(s)
    PROVE  MaterializerInv'
<1> DEFINE x == session[s]
           opened == Opens(x.request, x.plan) /\ OverlayAttaches(x.request, x.plan)
           phase == IF opened THEN "open" ELSE "rejected"
           y == [x EXCEPT !.phase = phase]
<1>1. SessionInv(x) /\ x.phase = "planned" /\ SessionsInv /\ UNCHANGED <<cache, tampering>>
  BY DEF MaterializerInv, SessionsInv, OpenSession
<1>2. session' = [session EXCEPT ![s] = y]
  BY <1>1 DEF OpenSession, SessionsInv, Request
<1>3. /\ SessionShape(y) /\ y.request = x.request /\ y.plan = x.plan /\ y.phase = phase
      /\ y.tasks = x.tasks
  BY <1>1 DEF SessionInv, SessionShape, SessionFields
<1> HIDE DEF y, x
<1>4. SessionInv(y)
  BY <1>1, <1>3 DEF SessionInv
<1>5. y.request = session[s].request
  BY <1>3 DEF x
<1> QED
  BY <1>1, <1>2, <1>4, <1>5, RequestKept

\* What execute reserves for a binding is enough for each of its routes.
LEMMA NewTaskInv ==
    ASSUME NEW q, NEW plan, NEW b, Admitted(q, plan, b)
    PROVE  TaskInv(q, plan, b, NewTask(q, plan, b))
<1> DEFINE u == NewTask(q, plan, b)
           w == ResourceWeights(q, b)
           ov == Overlaid(q, b)
<1>1. /\ TaskShape(u) /\ u.pc = "lookup" /\ u.reserved = Scheduled(q, plan, b)
      /\ u.stage = (IF ov THEN "overlay" ELSE "base") /\ u.step = 1 /\ ~u.grew
  BY DEF NewTask, TaskShape, TaskFields
<1> HIDE DEF u
<1>2. /\ b.target.out \in Nat /\ w \in Sizes /\ Limits \in Sizes
      /\ FinalHostOutput(b, ov) <=> CacheAddress(q, plan, b, ov) # Absent
  BY AdmittedFacts, MaterializerAssumption DEF Sizes
<1>3. FinalHostOutput(b, u.stage = "overlay") <=> FinalHostOutput(b, ov)
  BY <1>1 DEF FinalHostOutput
<1> HIDE DEF w, ov
<1>4. w.prepared \in Nat /\ Limits.prepared \in Nat
  BY <1>2 DEF Sizes
<1>5. u.reserved \in Sizes /\ Enough(q, b, u)
  <2>1. CASE q.cached /\ CacheAddress(q, plan, b, ov) # Absent
    <3> DEFINE n == Smaller(Larger(w.prepared, b.target.out), Limits.prepared)
    <3>1. u.reserved = Weights(0, 0, n)
      BY <1>1, <2>1 DEF Scheduled, w, ov
    <3>2. /\ n \in Nat /\ n >= Smaller(w.prepared, Limits.prepared)
          /\ n >= Smaller(b.target.out, Limits.prepared)
      BY <1>2, <1>4 DEF Smaller, Larger
    <3> HIDE DEF n
    <3>3. u.reserved \in Sizes /\ u.reserved.prepared = n
      BY <3>1, <3>2 DEF Weights, Sizes
    <3> QED
      BY <3>2, <3>3 DEF Enough, w
  <2>2. CASE ~(q.cached /\ CacheAddress(q, plan, b, ov) # Absent)
    <3>1. u.reserved = w
      BY <1>1, <2>2 DEF Scheduled, w, ov
    <3>2. w.prepared >= Smaller(w.prepared, Limits.prepared)
      BY <1>4 DEF Smaller
    <3> QED
      BY <1>2, <1>3, <2>2, <3>1, <3>2 DEF Enough, w
  <2> QED
    BY <2>1, <2>2
<1>6. StageInv(q, b, u)
  BY <1>1 DEF StageInv, ov
<1>7. ValueInv(q, plan, b, u)
  BY <1>1 DEF ValueInv
<1> QED
  BY <1>1, <1>5, <1>6, <1>7 DEF TaskInv, ReservedInv, u

\* An execution starts all its bindings, or none.
LEMMA ExecuteKeeps ==
    ASSUME MaterializerInv, NEW s \in Sessions, Execute(s)
    PROVE  MaterializerInv'
<1> DEFINE x == session[s]
           q == x.request
           plan == x.plan
           tasks == [i \in DOMAIN plan.bindings |-> NewTask(q, plan, plan.bindings[i])]
           y == [x EXCEPT !.phase = "running", !.tasks = tasks]
           z == [x EXCEPT !.phase = "rejected", !.error = "limit"]
<1>1. SessionInv(x) /\ x.phase = "open" /\ SessionsInv /\ UNCHANGED <<cache, tampering>>
  BY DEF MaterializerInv, SessionsInv, Execute
<1>2. session' = [session EXCEPT ![s] = y] \/ session' = [session EXCEPT ![s] = z]
  BY <1>1 DEF Execute, SessionsInv, Request
<1>3. /\ SessionShape(y) /\ y.request = q /\ y.plan = plan /\ y.phase = "running"
      /\ y.tasks = tasks
  BY <1>1 DEF SessionInv, SessionShape, SessionFields
<1>4. /\ SessionShape(z) /\ z.request = q /\ z.plan = plan /\ z.phase = "rejected"
      /\ z.tasks = x.tasks
  BY <1>1 DEF SessionInv, SessionShape, SessionFields
<1> HIDE DEF y, z
<1>5. SessionInv(z) /\ z.request = session[s].request
  BY <1>1, <1>4 DEF SessionInv
<1>6. \A i \in DOMAIN plan.bindings : Admitted(q, plan, plan.bindings[i])
  BY <1>1 DEF SessionInv, Admitted, Range
<1>7. \A i \in DOMAIN plan.bindings : TaskInv(q, plan, plan.bindings[i], NewTask(q, plan, plan.bindings[i]))
  BY <1>6, NewTaskInv
<1>8. \A i \in DOMAIN plan.bindings : tasks[i] = NewTask(q, plan, plan.bindings[i])
  OBVIOUS
<1>9. tasks = [i \in DOMAIN plan.bindings |-> tasks[i]]
  OBVIOUS
<1>10. y.request = session[s].request
  BY <1>3
<1>11. SessionInv(y)
  <2>1. /\ q \in Requests /\ plan = PlanObtained(q.from) /\ plan # Absent
        /\ Opens(q, plan) /\ OverlayAttaches(q, plan)
    BY <1>1 DEF SessionInv
  <2> HIDE DEF tasks, x, q, plan
  <2>2. /\ y.tasks = [i \in DOMAIN y.plan.bindings |-> y.tasks[i]]
        /\ \A i \in DOMAIN y.plan.bindings :
              TaskInv(y.request, y.plan, y.plan.bindings[i], y.tasks[i])
    BY <1>3, <1>7, <1>8, <1>9
  <2> QED
    BY <1>3, <2>1, <2>2 DEF SessionInv
<1> QED
  BY <1>1, <1>2, <1>5, <1>10, <1>11, RequestKept

\* What is changed in the root is not intact, and nobody trusts it.
LEMMA TamperKeeps ==
    ASSUME MaterializerInv, Tamper
    PROVE  MaterializerInv'
<1>1. PICK a \in DOMAIN cache : \E len \in {cache[a].len, cache[a].len + 1} :
        cache' = [cache EXCEPT ![a] = [value |-> <<"garbage">>, len |-> len, intact |-> FALSE]]
  BY DEF Tamper
<1>2. /\ ~Protected /\ tampering' = tampering + 1 /\ UNCHANGED session
      /\ tampering \in Nat
  BY DEF Tamper, MaterializerInv, TrustInv
<1>3. SessionsInv'
  BY <1>2 DEF MaterializerInv, SessionsInv
<1>4. TrustInv'
  BY <1>2 DEF TrustInv, Protected, Request
<1>5. CacheInv'
  <2>1. \E e : ~e.intact /\ cache' = [cache EXCEPT ![a] = e]
    BY <1>1
  <2>2. PICK e : ~e.intact /\ cache' = [cache EXCEPT ![a] = e]
    BY <2>1
  <2>3. EntryInv(a, e)
    BY <2>2 DEF EntryInv
  <2>4. DOMAIN cache' = DOMAIN cache
    BY <2>2
  <2>5. \A c \in DOMAIN cache : EntryInv(c, cache'[c])
    BY <2>2, <2>3 DEF MaterializerInv, CacheInv
  <2> QED
    BY <1>2, <2>4, <2>5 DEF CacheInv
<1> QED
  BY <1>3, <1>4, <1>5 DEF MaterializerInv

\* Every step keeps the invariant.
LEMMA NextInv ==
    ASSUME MaterializerInv, [Next]_vars
    PROVE  MaterializerInv'
<1>1. CASE \E s \in Sessions : ObtainPlan(s) \/ OpenSession(s) \/ Execute(s)
  BY <1>1, ObtainPlanKeeps, OpenSessionKeeps, ExecuteKeeps
<1>2. CASE \E s \in Sessions : \E i \in Tasks(s) :
             \/ Lookup(s, i) \/ ReadEntry(s, i) \/ EvictCorrupt(s, i) \/ ReadSources(s, i)
             \/ TransformStep(s, i) \/ RunGraph(s, i) \/ CompareScratch(s, i)
             \/ PublishOwn(s, i) \/ ProviderPublish(s, i)
  BY <1>2, LookupKeeps, ReadEntryKeeps, EvictCorruptKeeps, ReadSourcesKeeps,
     TransformStepKeeps, RunGraphKeeps, CompareScratchKeeps, PublishOwnKeeps, ProviderPublishKeeps
<1>3. CASE EvictForSpace
  <2>1. PICK a \in DOMAIN cache : cache' = Restrict(cache, DOMAIN cache \ {a})
    BY <1>3 DEF EvictForSpace
  <2>2. UNCHANGED <<session, tampering>>
    BY <1>3 DEF EvictForSpace
  <2>3. CacheInv'
    BY <2>1, <2>2, CacheShrinks DEF MaterializerInv
  <2> QED
    BY <2>2, <2>3 DEF MaterializerInv, SessionsInv, TrustInv, Protected, Request
<1>4. CASE Tamper
  BY <1>4, TamperKeeps
<1>5. CASE UNCHANGED vars
  BY <1>5 DEF vars, MaterializerInv, SessionsInv, CacheInv, TrustInv, Protected, Request
<1> QED
  BY <1>1, <1>2, <1>3, <1>4, <1>5 DEF Next

\* The invariant of the sessions and of the cache they share: each has in hand
\* what its files, contract and overlay make, and so has each intact entry.
THEOREM MaterializerInvariant == Spec => []MaterializerInv
<1>1. Init => MaterializerInv
  BY InitInv
<1>2. MaterializerInv /\ [Next]_vars => MaterializerInv'
  BY NextInv
<1> QED
  BY <1>1, <1>2, PTL DEF Spec

-----------------------------------------------------------------------------
(* The properties *)

\* A session that is opened, its request and its bindings.
LEMMA OpenedAdmits ==
    ASSUME MaterializerInv, NEW s \in Opened
    PROVE  \A b \in Range(Bindings(s)) : Admitted(Request(s), session[s].plan, b)
<1>1. SessionInv(session[s]) /\ session[s].phase \in {"open", "running"}
  BY DEF MaterializerInv, SessionsInv, Opened
<1> QED
  BY <1>1 DEF SessionInv, Admitted, Request, Bindings

\* prepared_cache_address: for any sessions and requests that share a root, an
\* intact entry is what every binding at its address makes.
THEOREM AddressesDetermineBytesAlways == Spec => []AddressesDetermineBytes
<1>1. ASSUME MaterializerInv PROVE AddressesDetermineBytes
  <2>1. SUFFICES ASSUME NEW s \in Opened, NEW b \in Range(Bindings(s)),
                        NEW ov \in {FALSE, Overlaid(Request(s), b)},
                        NEW a, a = CacheAddress(Request(s), session[s].plan, b, ov),
                        a # Absent, a \in DOMAIN cache, cache[a].intact
                 PROVE  /\ cache[a].value = Fresh(Request(s), session[s].plan, b, ov)
                        /\ cache[a].len = b.target.out
    BY DEF AddressesDetermineBytes
  <2>2. ov \in Layers(Request(s), b)
    BY <2>1 DEF Layers
  <2>3. Admitted(Request(s), session[s].plan, b)
    BY <1>1, <2>1, OpenedAdmits
  <2>4. EntryInv(a, cache[a])
    BY <1>1, <2>1 DEF MaterializerInv, CacheInv
  <2> QED
    BY <2>1, <2>2, <2>3, <2>4 DEF EntryInv
<1> QED
  BY <1>1, MaterializerInvariant, PTL

\* try_cached_prepared, read_cache_entry and materialize_base_binding: what is
\* delivered as prepared bytes is what this session's files, contract, overlay
\* and backend make it, whatever other sessions published or tampering changed.
THEOREM DeliveredIsFreshAlways == Spec => []DeliveredIsFresh
<1>1. ASSUME MaterializerInv PROVE DeliveredIsFresh
  <2>1. SUFFICES ASSUME NEW s \in Opened, NEW i \in Tasks(s),
                        Task(s, i).pc = "done", Task(s, i).delivery.kind = "prepared"
                 PROVE  Task(s, i).delivery.value =
                          Fresh(Request(s), session[s].plan, Bindings(s)[i],
                                /\ Overlaid(Request(s), Bindings(s)[i])
                                /\ ~Task(s, i).delivery.wrapped)
    BY DEF DeliveredIsFresh
  <2>2. TaskInv(Request(s), session[s].plan, Bindings(s)[i], Task(s, i))
    BY <1>1, <2>1, RunningTask DEF MaterializerInv, Opened
  <2> QED
    BY <2>1, <2>2 DEF TaskInv, StageInv, ValueInv, Fresh
<1> QED
  BY <1>1, MaterializerInvariant, PTL

\* execute and with_resources: what is reserved for an item covers the prepared
\* bytes of whichever route it takes, so no deferred acquisition grows them.
THEOREM PreparedNeverGrowsAlways == Spec => []PreparedNeverGrows
<1>1. ASSUME MaterializerInv PROVE PreparedNeverGrows
  <2>1. SUFFICES ASSUME NEW s \in Opened, NEW i \in Tasks(s) PROVE ~Task(s, i).grew
    BY DEF PreparedNeverGrows
  <2> QED
    BY <1>1, <2>1, RunningTask DEF MaterializerInv, Opened, TaskInv, ReservedInv
<1> QED
  BY <1>1, MaterializerInvariant, PTL

-----------------------------------------------------------------------------
(* Plans *)

\* A session that has a plan, also one that was rejected, has the plan of a
\* request.
PlansInv ==
    \A s \in Sessions : session[s].plan # Absent =>
        \E q \in Requests : session[s].plan = PlanObtained(q.from)

\* Only ObtainPlan gives a session a plan.
LEMMA PlansKept ==
    ASSUME MaterializerInv, PlansInv, [Next]_vars
    PROVE  PlansInv'
<1>0. session = [s \in Sessions |-> session[s]] /\ \A s \in Sessions : SessionShape(session[s])
  BY DEF MaterializerInv, SessionsInv, SessionInv
<1>1. ASSUME NEW s \in Sessions, ObtainPlan(s)
      PROVE  PlansInv'
  <2>1. PICK q \in Requests : session' = [session EXCEPT ![s] =
               [@ EXCEPT !.request = q, !.plan = PlanObtained(q.from),
                         !.phase = IF PlanObtained(q.from) = Absent THEN "rejected" ELSE "planned"]]
    BY <1>1 DEF ObtainPlan
  <2>2. session'[s].plan = PlanObtained(q.from)
    BY <1>0, <2>1 DEF SessionShape, SessionFields
  <2>3. \A r \in Sessions \ {s} : session'[r] = session[r]
    BY <1>0, <2>1
  <2> QED
    BY <2>2, <2>3 DEF PlansInv
<1>2. ASSUME NEW s \in Sessions, NEW x, session' = [session EXCEPT ![s] = x], x.plan = session[s].plan
      PROVE  PlansInv'
  BY <1>0, <1>2 DEF PlansInv
<1>3. ASSUME NEW s \in Sessions, OpenSession(s)
      PROVE  PlansInv'
  <2>1. \E phase : session' = [session EXCEPT ![s] = [@ EXCEPT !.phase = phase]]
    BY <1>3 DEF OpenSession
  <2>2. PICK phase : session' = [session EXCEPT ![s] = [session[s] EXCEPT !.phase = phase]]
    BY <1>0, <2>1
  <2>3. [session[s] EXCEPT !.phase = phase].plan = session[s].plan
    BY <1>0 DEF SessionShape, SessionFields
  <2> QED
    BY <1>2, <2>2, <2>3
<1>4. ASSUME NEW s \in Sessions, Execute(s)
      PROVE  PlansInv'
  <2>1. \/ \E tasks : session' = [session EXCEPT ![s] =
                [session[s] EXCEPT !.phase = "running", !.tasks = tasks]]
        \/ session' = [session EXCEPT ![s] = [session[s] EXCEPT !.phase = "rejected", !.error = "limit"]]
    BY <1>0, <1>4 DEF Execute
  <2>2. /\ \A tasks : [session[s] EXCEPT !.phase = "running", !.tasks = tasks].plan = session[s].plan
        /\ [session[s] EXCEPT !.phase = "rejected", !.error = "limit"].plan = session[s].plan
    BY <1>0 DEF SessionShape, SessionFields
  <2> QED
    BY <1>2, <2>1, <2>2
<1>5. ASSUME NEW s \in Sessions, NEW i, NEW t, SetTask(s, i, t)
      PROVE  PlansInv'
  <2>1. session' = [session EXCEPT ![s] = [session[s] EXCEPT !.tasks = [session[s].tasks EXCEPT ![i] = t]]]
    BY <1>0, <1>5 DEF SetTask
  <2>2. [session[s] EXCEPT !.tasks = [session[s].tasks EXCEPT ![i] = t]].plan = session[s].plan
    BY <1>0 DEF SessionShape, SessionFields
  <2> QED
    BY <1>2, <2>1, <2>2
<1>6. ASSUME UNCHANGED session
      PROVE  PlansInv'
  BY <1>6 DEF PlansInv
<1>7. CASE \E s \in Sessions : ObtainPlan(s) \/ OpenSession(s) \/ Execute(s)
  BY <1>1, <1>3, <1>4, <1>7
<1>8. CASE \E s \in Sessions : \E i \in Tasks(s) :
             \/ Lookup(s, i) \/ ReadEntry(s, i) \/ EvictCorrupt(s, i) \/ ReadSources(s, i)
             \/ TransformStep(s, i) \/ RunGraph(s, i) \/ CompareScratch(s, i)
             \/ PublishOwn(s, i) \/ ProviderPublish(s, i)
  <2>1. PICK s \in Sessions : \E i \in Tasks(s) :
             \/ Lookup(s, i) \/ ReadEntry(s, i) \/ EvictCorrupt(s, i) \/ ReadSources(s, i)
             \/ TransformStep(s, i) \/ RunGraph(s, i) \/ CompareScratch(s, i)
             \/ PublishOwn(s, i) \/ ProviderPublish(s, i)
    BY <1>8
  <2>2. PICK i \in Tasks(s) :
             \/ Lookup(s, i) \/ ReadEntry(s, i) \/ EvictCorrupt(s, i) \/ ReadSources(s, i)
             \/ TransformStep(s, i) \/ RunGraph(s, i) \/ CompareScratch(s, i)
             \/ PublishOwn(s, i) \/ ProviderPublish(s, i)
    BY <2>1
  <2>3. CASE Lookup(s, i)
    BY <1>5, <2>3 DEF Lookup
  <2>4. CASE ReadEntry(s, i)
    BY <1>5, <2>4 DEF ReadEntry
  <2>5. CASE EvictCorrupt(s, i)
    BY <1>5, <2>5 DEF EvictCorrupt
  <2>6. CASE ReadSources(s, i)
    BY <1>5, <2>6 DEF ReadSources
  <2>7. CASE TransformStep(s, i)
    BY <1>5, <2>7 DEF TransformStep
  <2>8. CASE RunGraph(s, i)
    BY <1>5, <2>8 DEF RunGraph
  <2>9. CASE CompareScratch(s, i)
    BY <1>5, <2>9 DEF CompareScratch
  <2>10. CASE PublishOwn(s, i)
    BY <1>5, <2>10 DEF PublishOwn
  <2>11. CASE ProviderPublish(s, i)
    BY <1>5, <2>11 DEF ProviderPublish
  <2> QED
    BY <2>2, <2>3, <2>4, <2>5, <2>6, <2>7, <2>8, <2>9, <2>10, <2>11
<1>9. CASE EvictForSpace \/ Tamper \/ UNCHANGED vars
  BY <1>6, <1>9 DEF EvictForSpace, Tamper, vars
<1> QED
  BY <1>7, <1>8, <1>9 DEF Next

LEMMA PlansInvariant == Spec => []PlansInv
<1>1. Init => PlansInv
  BY DEF Init, Idle, PlansInv
<1>2. MaterializerInv /\ PlansInv /\ [Next]_vars => PlansInv'
  BY PlansKept
<1> QED
  BY <1>1, <1>2, MaterializerInvariant, PTL DEF Spec

\* resolve_bindings: in a plan of any sources and targets, built, parsed or
\* looked up, two bindings share a source only within one tied-weight group.
THEOREM SharedOnlyWhenTiedAlways == Spec => []SharedOnlyWhenTied
<1>1. ASSUME PlansInv PROVE SharedOnlyWhenTied
  <2>1. SUFFICES ASSUME NEW s \in Sessions, session[s].plan # Absent,
                        NEW b \in Range(session[s].plan.bindings),
                        NEW c \in Range(session[s].plan.bindings),
                        b # c, Range(b.sources) \cap Range(c.sources) # {}
                 PROVE  b.target.group = c.target.group /\ b.target.group # Absent
    BY DEF SharedOnlyWhenTied
  <2>2. PICK q \in Requests : session[s].plan = PlanObtained(q.from)
    BY <1>1, <2>1 DEF PlansInv
  <2>3. \E r : Asked(r) /\ PlanValid(r) /\ session[s].plan = BuiltPlan(r)
    BY <2>1, <2>2, PlanBuilt
  <2>4. PICK r : Asked(r) /\ PlanValid(r) /\ session[s].plan = BuiltPlan(r)
    BY <2>3
  <2> QED
    BY <2>1, <2>4, BindingsTied
<1> QED
  BY <1>1, PlansInvariant, PTL

\* A list in one of its orders.
LEMMA ReorderedArranged ==
    ASSUME NEW e, Entries(e), NEW f \in Reordered(e)
    PROVE  Entries(f) /\ \E p : Arranged(e, f, p)
<1> DEFINE D == DOMAIN e
<1>1. PICK p \in Bijection(D, D) : f = [k \in D |-> e[p[k]]]
  BY DEF Reordered
<1>2. p \in [D -> D] /\ \A w \in D : \E v \in D : p[v] = w
  BY <1>1 DEF Bijection, Surjection, Injection
<1>3. \A i, j \in D : p[i] = p[j] => i = j
  BY <1>1 DEF Bijection, Injection, IsInjective
<1>4. Arranged(e, f, p)
  BY <1>1, <1>2, <1>3 DEF Arranged
<1>5. f = [k \in DOMAIN f |-> f[k]]
  BY <1>1
<1> QED
  BY <1>4, <1>5, ArrangedEntries

\* PlanBuilder::build and BindingPlan::from_canonical_json: a plan of any
\* sources and targets is what planning makes of them in every order.
THEOREM PlanIsCanonicalAlways == Spec => []PlanIsCanonical
<1>1. ASSUME PlansInv PROVE PlanIsCanonical
  <2>1. SUFFICES ASSUME NEW s \in Sessions, session[s].plan # Absent,
                        NEW p, p = session[s].plan,
                        NEW sources \in Reordered(p.sources), NEW targets \in Reordered(p.targets),
                        NEW x, x = [RequestOf(p) EXCEPT !.sources = sources, !.targets = targets]
                 PROVE  /\ Diagnostics(x) = Diagnostics(RequestOf(p))
                        /\ PlanValid(x) /\ BuiltPlan(x) = p
    BY DEF PlanIsCanonical
  <2>2. PICK q \in Requests : p = PlanObtained(q.from)
    BY <1>1, <2>1 DEF PlansInv
  <2>3. \E r : Asked(r) /\ PlanValid(r) /\ p = BuiltPlan(r)
    BY <2>1, <2>2, PlanBuilt
  <2>4. PICK r : Asked(r) /\ PlanValid(r) /\ p = BuiltPlan(r)
    BY <2>3
  <2> DEFINE y == RequestOf(p)
  <2>5. y.sources = p.sources /\ y.targets = p.targets
    BY DEF RequestOf
  <2>6. /\ x.inputs = y.inputs /\ x.policy = y.policy
        /\ x.sources = sources /\ x.targets = targets
    BY <2>1 DEF RequestOf
  <2>7. Asked(y)
    BY <2>4, PlanAnswers DEF Reordering
  <2>8. Entries(p.sources) /\ Entries(p.targets)
    BY <2>5, <2>7 DEF Asked
  <2>9. Entries(sources) /\ Entries(targets)
    BY <2>1, <2>8, ReorderedArranged
  <2>10. PICK v : Arranged(p.sources, sources, v)
    BY <2>1, <2>8, ReorderedArranged
  <2>11. PICK w : Arranged(p.targets, targets, w)
    BY <2>1, <2>8, ReorderedArranged
  <2>12. Reordering(y, x, v, w)
    BY <2>5, <2>6, <2>7, <2>9, <2>10, <2>11 DEF Reordering, Asked
  <2> HIDE DEF y
  <2>13. y = RequestOf(BuiltPlan(r))
    BY <2>4 DEF y
  <2> QED
    BY <2>4, <2>12, <2>13, PlanCanonical DEF y
<1> QED
  BY <1>1, PlansInvariant, PTL

-----------------------------------------------------------------------------
(* What planning accepted *)

\* The contract of a binding and the source or sources it takes were accepted.
LEMMA BindingAccepted ==
    ASSUME NEW q, NEW plan, NEW b, Admitted(q, plan, b)
    PROVE  /\ TargetAccepted(b.target)
           /\ b.target.graph = Absent =>
                 DOMAIN b.sources = {1} /\ ValidateBinding(plan.inputs, b.sources[1], b.target)
           /\ b.target.graph # Absent => ValidateOperationBinding(plan.inputs, b.sources, b.target)
<1> DEFINE r == AskedOf(q.from)
<1>1. /\ Asked(r) /\ PlanValid(r) /\ plan = BuiltPlan(r)
      /\ \A t \in Range(r.targets) : TargetAccepted(t)
  BY PlanBuilt DEF Admitted
<1> HIDE DEF r
<1>2. PICK i \in Resolved(r) : b = [sources |-> Selected(r, r.targets[i]), target |-> r.targets[i]]
  BY <1>1, BindingResolved DEF Admitted
<1>3. b.sources = Selected(r, r.targets[i]) /\ b.target = r.targets[i]
  BY <1>2
<1>4. i \in DOMAIN r.targets
  BY DEF Resolved, Unique
<1>5. TargetAccepted(b.target)
  BY <1>1, <1>3, <1>4 DEF Range
<1>6. plan.inputs = r.inputs
  BY <1>1 DEF BuiltPlan
<1>7. IF b.target.graph = Absent THEN ValidateBinding(r.inputs, b.sources[1], b.target)
      ELSE ValidateOperationBinding(r.inputs, b.sources, b.target)
  BY <1>1, <1>2, <1>3, ValidBinding
<1>8. b.target.graph = Absent => DOMAIN b.sources = {1}
  <2>1. DOMAIN b.sources = DOMAIN SourceIndices(r, r.targets[i])
    BY <1>3 DEF Selected
  <2>2. b.target.graph = Absent => DOMAIN SourceIndices(r, r.targets[i]) = {1}
    BY <1>3 DEF SourceIndices
  <2> QED
    BY <2>1, <2>2
<1> QED
  BY <1>5, <1>6, <1>7, <1>8

\* A target with a graph takes plain sources and has no recipe.
LEMMA GraphAccepted ==
    ASSUME NEW q, NEW plan, NEW b, Admitted(q, plan, b), b.target.graph # Absent
    PROVE  /\ b.target.recipe = Absent /\ b.sources[1].storage.kind = "plain"
           /\ b.target.graph.facts.bytes = b.target.out
<1>1. TargetAccepted(b.target) /\ ValidateOperationBinding(plan.inputs, b.sources, b.target)
  BY BindingAccepted
<1>2. 1 \in DOMAIN b.sources
  BY RequestAssumption DEF Admitted
<1>3. b.sources[1].storage.kind = "plain"
  BY <1>1, <1>2 DEF ValidateOperationBinding
<1>4. b.target.recipe = Absent /\ b.target.graph.facts = TargetFacts(b.target)
  BY <1>1 DEF TargetAccepted
<1> QED
  BY <1>3, <1>4 DEF TargetFacts

\* A chain of transforms begins with the source, each step takes what the step
\* before it makes, and the last makes the target; without a step the source
\* is the target.
LEMMA StraightAccepted ==
    ASSUME NEW q, NEW plan, NEW b, Admitted(q, plan, b), Straight(b)
    PROVE  LET t == b.target
               n == Len(t.transforms)
               storage == b.sources[1].storage
           IN  /\ storage.kind = "plain" /\ UniqueSpans(b) = {storage.span}
               /\ n = 0 => t.out = storage.span.len
               /\ n # 0 => /\ t.transforms[1].source = [dtype |-> storage.dtype, layout |-> Contiguous]
                           /\ t.transforms[n].out = t.out
               /\ \A k \in 2 .. n : t.transforms[k].source = t.transforms[k - 1].target
<1> DEFINE t == b.target
           n == Len(t.transforms)
           storage == b.sources[1].storage
<1>1. /\ TargetAccepted(t) /\ DOMAIN b.sources = {1}
      /\ ValidateBinding(plan.inputs, b.sources[1], t)
  BY BindingAccepted DEF Straight
<1>2. storage.kind = "plain"
  BY RequestAssumption DEF Admitted, Straight
<1>3. PlainAccepted(b.sources[1], t) /\ t.recipe = Absent
  BY <1>1, <1>2 DEF ValidateBinding, Straight
<1>4. n \in Nat /\ (t.transforms = <<>> <=> n = 0)
  BY AdmittedFacts
<1>5. UniqueSpans(b) = {storage.span}
  <2>1. Spans(storage) = <<storage.span>>
    BY <1>2 DEF Spans
  <2>2. Range(Spans(storage)) = {storage.span}
    BY <2>1 DEF Range
  <2> HIDE DEF storage
  <2> QED
    BY <1>1, <2>2 DEF UniqueSpans, storage
<1>6. /\ n = 0 => t.out = storage.span.len
      /\ n # 0 => t.transforms[1].source = [dtype |-> storage.dtype, layout |-> Contiguous]
  BY <1>3, <1>4 DEF PlainAccepted
<1>7. /\ \A k \in 2 .. n : t.transforms[k].source = t.transforms[k - 1].target
      /\ n # 0 => t.transforms[n].out = t.out
  <2>1. ChainAccepted(t)
    BY <1>1 DEF TargetAccepted
  <2> QED
    BY <1>4, <2>1 DEF ChainAccepted, Last
<1> QED
  BY <1>2, <1>5, <1>6, <1>7

\* resource_weights, for each route.
LEMMA RouteWeights ==
    ASSUME NEW q, NEW plan, NEW b, Admitted(q, plan, b)
    PROVE  LET w == ResourceWeights(q, b)
               t == b.target
           IN  /\ w \in Sizes
               /\ w.source = TotalLen({span \in UniqueSpans(b) : ~GuaranteedMapped(q, span)})
               /\ Straight(b) => w.prepared = t.out /\ w.scratch = PeakTransformScratch(t.transforms)
               /\ t.graph # Absent /\ q.mode # "delegate" =>
                     w.prepared = t.out /\ w.scratch = t.graph.estimate
               /\ (\/ t.graph # Absent /\ q.mode = "delegate"
                   \/ t.graph = Absent /\ b.sources[1].storage.kind = "quantized"
                   \/ t.graph = Absent /\ t.recipe # Absent)
                  => w.prepared = TotalLen(UniqueSpans(b))
<1>1. ResourceWeights(q, b) \in Sizes
  BY AdmittedFacts
<1>2. b.target.graph # Absent => b.target.recipe = Absent /\ b.sources[1].storage.kind = "plain"
  BY GraphAccepted
<1> QED
  BY <1>1, <1>2 DEF ResourceWeights, Weights, Straight

\* peak_transform_scratch_bytes covers each step.
LEMMA StepScratch ==
    ASSUME NEW q, NEW plan, NEW b, Admitted(q, plan, b),
           NEW k \in 1 .. Len(b.target.transforms)
    PROVE  LET steps == b.target.transforms
           IN  /\ steps[k].out \in Nat /\ steps[k].scratch \in Nat
               /\ k > 1 => steps[k - 1].out \in Nat
               /\ (IF k > 1 THEN steps[k - 1].out ELSE 0) + (IF k < Len(steps) THEN steps[k].out ELSE 0)
                  + steps[k].scratch <= PeakTransformScratch(steps)
<1> DEFINE steps == b.target.transforms
           n == Len(steps)
<1>1. /\ n \in Nat /\ \A j \in 1 .. n : steps[j].out \in Nat /\ steps[j].scratch \in Nat
      /\ Live(steps) \in Seq(Nat) /\ Len(Live(steps)) = n
      /\ PeakTransformScratch(steps) = Peak(Live(steps))
  BY LiveSizes
<1>2. k \in 1 .. n /\ (k > 1 => k - 1 \in 1 .. n)
  BY <1>1
<1> HIDE DEF steps, n
<1>3. Live(steps)[k] <= Peak(Live(steps))
  BY <1>1, <1>2, PeakBounds
<1>4. Live(steps)[k] = (IF k > 1 THEN steps[k - 1].out ELSE 0)
                       + (IF k < n THEN steps[k].out ELSE 0) + steps[k].scratch
  BY <1>2 DEF Live, n
<1> QED
  BY <1>1, <1>2, <1>3, <1>4 DEF steps, n

-----------------------------------------------------------------------------
(* The heap a task holds *)

Errors == {Absent, "limit", "provider", "estimate"}

\* What a graph holds that has run: its sources and output are reserved, and
\* its scratch too, or the output is not its own and leaves room for it.
RanInv(q, b, t) ==
    LET graph == b.target.graph
    IN  /\ q.mode # "delegate" /\ t.len = b.target.out
        /\ t.held.source <= t.reserved.source /\ t.held.prepared <= t.reserved.prepared
        /\ \/ t.held.scratch <= t.reserved.scratch
           \/ ~graph.owns /\ t.held.scratch + t.held.prepared <= t.reserved.scratch + t.reserved.prepared

\* What a task holds is reserved, and so is what its route still allocates;
\* the bytes in hand have the length that the next step was planned for.
HoldInv(q, b, t) ==
    /\ t.error \in Errors
    /\ t.held \in Sizes
    /\ t.pc # "compare" => Covered(t.held, t.reserved)
    /\ t.pc = "compare" => RanInv(q, b, t)
    /\ t.pc \in {"lookup", "read", "evict", "source"} => t.held = Nothing
    /\ t.pc = "read" => b.target.out <= t.reserved.prepared
    /\ t.pc \in {"source", "transform", "graph", "compare", "publish"} => Covered(ResourceWeights(q, b), t.reserved)
    /\ t.pc = "transform" /\ t.step > 1 => t.len = b.target.transforms[t.step - 1].out
    /\ t.pc = "graph" => q.mode # "delegate"
    /\ t.pc = "publish" => t.len = b.target.out /\ b.target.out <= t.reserved.prepared

HeapInv == \A s \in Sessions : \A i \in Tasks(s) : HoldInv(Request(s), Bindings(s)[i], Task(s, i))

LEMMA CoveredSizes ==
    ASSUME NEW w \in Sizes, NEW by
    PROVE  /\ Covered(w, by) <=> /\ w.source <= by.source /\ w.scratch <= by.scratch
                                 /\ w.prepared <= by.prepared
           /\ w.source \in Nat /\ w.scratch \in Nat /\ w.prepared \in Nat
<1>1. DOMAIN w = {"source", "scratch", "prepared"}
  BY DEF Sizes
<1> QED
  BY <1>1 DEF Covered, Sizes

LEMMA WeightsSize ==
    ASSUME NEW a \in Nat, NEW c \in Nat, NEW d \in Nat
    PROVE  /\ Weights(a, c, d) \in Sizes /\ Weights(a, c, d).source = a
           /\ Weights(a, c, d).scratch = c /\ Weights(a, c, d).prepared = d
  BY DEF Weights, Sizes

LEMMA NothingCovered ==
    ASSUME NEW w \in Sizes
    PROVE  Nothing \in Sizes /\ Covered(Nothing, w)
<1>1. /\ Nothing \in Sizes /\ Nothing.source = 0 /\ Nothing.scratch = 0 /\ Nothing.prepared = 0
  BY WeightsSize DEF Nothing
<1>2. w.source \in Nat /\ w.scratch \in Nat /\ w.prepared \in Nat
  BY CoveredSizes
<1> QED
  BY <1>1, <1>2, CoveredSizes

\* A task that failed holds nothing.
LEMMA FailedHolds ==
    ASSUME NEW q, NEW b, NEW t, TaskShape(t), NEW error \in Errors
    PROVE  HoldInv(q, b, Failed(t, error))
<1> DEFINE u == Failed(t, error)
<1>1. u.pc = "failed" /\ u.error = error /\ u.held = Nothing /\ u.reserved = Nothing
  BY DEF TaskShape, TaskFields, Failed
<1>2. Nothing \in Sizes /\ Covered(Nothing, Nothing)
  BY NothingCovered, WeightsSize DEF Nothing
<1> HIDE DEF u
<1> QED
  BY <1>1, <1>2 DEF HoldInv, u

\* with_resources: what was required is reserved, or the task fails.
LEMMA AcquiresCovers ==
    ASSUME NEW t, TaskShape(t), t.reserved \in Sizes,
           NEW required \in Sizes, NEW pc, NEW w, w = WithResources(t, required, pc)
    PROVE  \/ w = Failed(t, "limit")
           \/ /\ w.pc = pc /\ w.reserved \in Sizes /\ Covered(required, w.reserved)
              /\ w.held = t.held /\ w.error = t.error
<1>1. SUFFICES ASSUME w # Failed(t, "limit")
               PROVE  /\ w.pc = pc /\ w.reserved \in Sizes /\ Covered(required, w.reserved)
                      /\ w.held = t.held /\ w.error = t.error
  OBVIOUS
<1>2. \E grew : w = [t EXCEPT !.pc = pc, !.reserved = MaxWeights(@, required), !.grew = grew]
  <2>1. w = [t EXCEPT !.pc = pc, !.reserved = MaxWeights(@, required),
                      !.grew = @ \/ required.prepared > t.reserved.prepared]
    BY <1>1 DEF WithResources
  <2>2. w = [t EXCEPT !.pc = pc, !.reserved = MaxWeights(@, required),
                      !.grew = t.grew \/ required.prepared > t.reserved.prepared]
    BY <2>1 DEF TaskShape, TaskFields
  <2> QED
    BY <2>2
<1>3. PICK grew : w = [t EXCEPT !.pc = pc, !.reserved = MaxWeights(@, required), !.grew = grew]
  BY <1>2
<1>4. /\ w.pc = pc /\ w.reserved = MaxWeights(t.reserved, required)
      /\ w.held = t.held /\ w.error = t.error
  BY <1>3 DEF TaskShape, TaskFields
<1>5. MaxWeights(t.reserved, required) \in Sizes
  BY DEF MaxWeights, Sizes
<1>6. Covered(required, MaxWeights(t.reserved, required))
  BY DEF MaxWeights, Sizes, Covered
<1> QED
  BY <1>4, <1>5, <1>6

\* A delivery holds what it delivers, where that is reserved.
LEMMA DeliverHolds ==
    ASSUME NEW q, NEW b, NEW s, NEW i, NEW t, TaskShape(t), t.reserved \in Sizes, t.error \in Errors,
           NEW kind, NEW value, NEW resident \in Nat, resident <= t.reserved.prepared
    PROVE  HoldInv(q, b, Deliver(s, i, t, kind, value, resident))
<1> DEFINE u == Deliver(s, i, t, kind, value, resident)
<1>1. /\ u.pc = "done" /\ u.held = Weights(0, 0, resident)
      /\ u.reserved = Weights(0, 0, t.reserved.prepared) /\ u.error = t.error
  BY DEF TaskShape, TaskFields, Deliver
<1>2. t.reserved.prepared \in Nat
  BY CoveredSizes
<1>3. \A n \in Nat : /\ Weights(0, 0, n) \in Sizes /\ Weights(0, 0, n).source = 0
                      /\ Weights(0, 0, n).scratch = 0 /\ Weights(0, 0, n).prepared = n
  BY WeightsSize
<1>4. Covered(Weights(0, 0, resident), Weights(0, 0, t.reserved.prepared))
  BY <1>2, <1>3, CoveredSizes
<1> HIDE DEF u
<1> QED
  BY <1>1, <1>3, <1>4 DEF HoldInv, u

\* Nothing is held until the sources are read.
LEMMA MissHolds ==
    ASSUME NEW s, NEW i, NEW t,
           Admitted(Request(s), session[s].plan, Bindings(s)[i]),
           TaskShape(t), t.reserved \in Sizes,
           HoldInv(Request(s), Bindings(s)[i], t), t.pc \in {"lookup", "evict"}
    PROVE  HoldInv(Request(s), Bindings(s)[i], AfterMiss(s, i, t))
<1> DEFINE q == Request(s)
           b == Bindings(s)[i]
<1>0. ResourceWeights(q, b) \in Sizes /\ t.held = Nothing /\ t.error \in Errors
  BY AdmittedFacts DEF HoldInv
<1> HIDE DEF q, b
<1>1. CASE t.stage = "overlay"
  <2> DEFINE u == [t EXCEPT !.stage = "base", !.pc = "lookup", !.handle = Absent]
  <2>1. AfterMiss(s, i, t) = u
    BY <1>1 DEF AfterMiss
  <2>2. u.pc = "lookup" /\ u.held = t.held /\ u.reserved = t.reserved /\ u.error = t.error
    BY DEF TaskShape, TaskFields
  <2> HIDE DEF u
  <2>3. Nothing \in Sizes /\ Covered(Nothing, t.reserved)
    BY NothingCovered
  <2> QED
    BY <1>0, <2>1, <2>2, <2>3 DEF HoldInv
<1>2. CASE t.stage # "overlay"
  <2> DEFINE v == [t EXCEPT !.handle = Absent]
             u == WithResources(v, ResourceWeights(q, b), "source")
  <2>1. AfterMiss(s, i, t) = u
    BY <1>2 DEF AfterMiss, q, b
  <2>2. TaskShape(v) /\ v.reserved = t.reserved /\ v.held = t.held /\ v.error = t.error
    BY DEF TaskShape, TaskFields
  <2> HIDE DEF v
  <2>3. \/ u = Failed(v, "limit")
        \/ /\ u.pc = "source" /\ u.reserved \in Sizes /\ Covered(ResourceWeights(q, b), u.reserved)
           /\ u.held = v.held /\ u.error = v.error
    BY <1>0, <2>2, AcquiresCovers
  <2> HIDE DEF u
  <2>4. CASE u = Failed(v, "limit")
    BY <2>1, <2>2, <2>4, FailedHolds DEF Errors, q, b
  <2>5. CASE u # Failed(v, "limit")
    <3>1. Nothing \in Sizes /\ Covered(Nothing, u.reserved)
      BY <2>3, <2>5, NothingCovered
    <3> QED
      BY <1>0, <2>1, <2>2, <2>3, <2>5, <3>1 DEF HoldInv, q, b
  <2> QED
    BY <2>4, <2>5
<1> QED
  BY <1>1, <1>2

\* A session task of an invariant state, with all that is known of it.
LEMMA HeldTask ==
    ASSUME MaterializerInv, HeapInv, NEW s \in Sessions, NEW i \in Tasks(s)
    PROVE  /\ Admitted(Request(s), session[s].plan, Bindings(s)[i])
           /\ TaskInv(Request(s), session[s].plan, Bindings(s)[i], Task(s, i))
           /\ TaskShape(Task(s, i)) /\ Task(s, i).reserved \in Sizes
           /\ HoldInv(Request(s), Bindings(s)[i], Task(s, i))
           /\ Task(s, i).error \in Errors
  BY RunningTask DEF MaterializerInv, HeapInv, TaskInv, ReservedInv, HoldInv

\* try_cached_prepared reserves what a hit delivers.
LEMMA LookupHolds ==
    ASSUME MaterializerInv, HeapInv, NEW s \in Sessions, NEW i \in Tasks(s), Lookup(s, i)
    PROVE  \E u : SetTask(s, i, u) /\ HoldInv(Request(s), Bindings(s)[i], u)
<1> DEFINE q == Request(s)
           b == Bindings(s)[i]
           t == Task(s, i)
           a == Address(s, i)
           out == b.target.out
<1>1. /\ TaskShape(t) /\ t.reserved \in Sizes /\ HoldInv(q, b, t) /\ t.pc = "lookup"
      /\ t.error \in Errors
  BY HeldTask DEF Lookup
<1>2. CASE ~q.cached \/ a = Absent \/ a \notin DOMAIN cache
  <2>1. SetTask(s, i, AfterMiss(s, i, t))
    BY <1>2 DEF Lookup
  <2>2. HoldInv(q, b, AfterMiss(s, i, t))
    BY <1>1, HeldTask, MissHolds
  <2> QED
    BY <2>1, <2>2
<1>3. CASE q.cached /\ a # Absent /\ a \in DOMAIN cache /\ cache[a].len # out
  <2> DEFINE u == [t EXCEPT !.pc = "evict"]
  <2>1. SetTask(s, i, u)
    BY <1>3 DEF Lookup
  <2>2. u.pc = "evict" /\ u.held = t.held /\ u.reserved = t.reserved /\ u.error = t.error
    BY <1>1 DEF TaskShape, TaskFields
  <2> HIDE DEF u
  <2>3. HoldInv(q, b, u)
    BY <1>1, <2>2 DEF HoldInv
  <2> QED
    BY <2>1, <2>3
<1>4. CASE q.cached /\ a # Absent /\ a \in DOMAIN cache /\ cache[a].len = out
  <2> DEFINE v == [t EXCEPT !.handle = cache[a]]
             need == Weights(0, 0, out)
             u == WithResources(v, need, "read")
  <2>1. SetTask(s, i, u)
    BY <1>4 DEF Lookup
  <2>2. TaskShape(v) /\ v.reserved = t.reserved /\ v.held = t.held /\ v.error = t.error
    BY <1>1 DEF TaskShape, TaskFields
  <2>3. out \in Nat
    BY HeldTask, AdmittedFacts
  <2>4. need \in Sizes /\ need.prepared = out
    BY <2>3, WeightsSize
  <2> HIDE DEF v, need
  <2>5. \/ u = Failed(v, "limit")
        \/ /\ u.pc = "read" /\ u.reserved \in Sizes /\ Covered(need, u.reserved)
           /\ u.held = v.held /\ u.error = v.error
    BY <1>1, <2>2, <2>4, AcquiresCovers
  <2> HIDE DEF u
  <2>6. CASE u = Failed(v, "limit")
    BY <2>1, <2>2, <2>6, FailedHolds DEF Errors
  <2>7. CASE u # Failed(v, "limit")
    <3>1. t.held = Nothing
      BY <1>1 DEF HoldInv
    <3>2. Nothing \in Sizes /\ Covered(Nothing, u.reserved)
      BY <2>5, <2>7, NothingCovered
    <3>3. out <= u.reserved.prepared
      BY <2>4, <2>5, <2>7, CoveredSizes
    <3>4. HoldInv(q, b, u)
      BY <1>1, <2>2, <2>5, <2>7, <3>1, <3>2, <3>3 DEF HoldInv
    <3> QED
      BY <2>1, <3>4
  <2> QED
    BY <2>6, <2>7
<1> QED
  BY <1>2, <1>3, <1>4

\* read_cache_entry delivers what was reserved for it.
LEMMA ReadEntryHolds ==
    ASSUME MaterializerInv, HeapInv, NEW s \in Sessions, NEW i \in Tasks(s), ReadEntry(s, i)
    PROVE  \E u : SetTask(s, i, u) /\ HoldInv(Request(s), Bindings(s)[i], u)
<1> DEFINE q == Request(s)
           b == Bindings(s)[i]
           t == Task(s, i)
           v == [t EXCEPT !.handle = Absent]
           w == [t EXCEPT !.pc = "evict", !.handle = Absent]
<1>1. /\ TaskShape(t) /\ t.reserved \in Sizes /\ HoldInv(q, b, t) /\ t.pc = "read"
      /\ t.error \in Errors
  BY HeldTask DEF ReadEntry
<1>2. b.target.out \in Nat /\ b.target.out <= t.reserved.prepared
  BY <1>1, HeldTask, AdmittedFacts DEF HoldInv
<1>3. TaskShape(v) /\ v.reserved = t.reserved /\ v.error = t.error
  BY <1>1 DEF TaskShape, TaskFields
<1>4. w.pc = "evict" /\ w.held = t.held /\ w.reserved = t.reserved /\ w.error = t.error
  BY <1>1 DEF TaskShape, TaskFields
<1>5. \/ SetTask(s, i, w)
      \/ SetTask(s, i, Deliver(s, i, v, "prepared", t.handle.value, b.target.out))
  BY DEF ReadEntry
<1> HIDE DEF v, w
<1>6. HoldInv(q, b, w)
  BY <1>1, <1>4 DEF HoldInv
<1>7. HoldInv(q, b, Deliver(s, i, v, "prepared", t.handle.value, b.target.out))
  BY <1>1, <1>2, <1>3, DeliverHolds
<1> QED
  BY <1>5, <1>6, <1>7

LEMMA EvictCorruptHolds ==
    ASSUME MaterializerInv, HeapInv, NEW s \in Sessions, NEW i \in Tasks(s), EvictCorrupt(s, i)
    PROVE  \E u : SetTask(s, i, u) /\ HoldInv(Request(s), Bindings(s)[i], u)
<1>1. HoldInv(Request(s), Bindings(s)[i], AfterMiss(s, i, Task(s, i)))
  BY HeldTask, MissHolds DEF EvictCorrupt
<1> QED
  BY <1>1 DEF EvictCorrupt

\* read_source and read_operation_inputs read to the heap what resource_weights
\* counts, and a handoff is as long as it counts.
LEMMA ReadSourcesHolds ==
    ASSUME MaterializerInv, HeapInv, NEW s \in Sessions, NEW i \in Tasks(s), ReadSources(s, i)
    PROVE  \E u : SetTask(s, i, u) /\ HoldInv(Request(s), Bindings(s)[i], u)
<1> DEFINE q == Request(s)
           plan == session[s].plan
           b == Bindings(s)[i]
           t == Task(s, i)
           spans == UniqueSpans(b)
           resident == TotalLen(spans)
           w == ResourceWeights(q, b)
           bytes == SourceBytes(q, b)
<1>1. /\ TaskShape(t) /\ t.reserved \in Sizes /\ HoldInv(q, b, t) /\ t.pc = "source"
      /\ t.error \in Errors /\ Admitted(q, plan, b) /\ t.step = 1
  BY HeldTask DEF ReadSources, TaskInv, StageInv
<1>2. PICK failed \in SUBSET {span \in spans : MayFallBack(q, span)} :
        SetTask(s, i, Route(s, i, [t EXCEPT !.held = Weights(TotalLen(HeapSpans(q, spans, failed)), 0, 0)],
                            bytes, resident))
  BY DEF ReadSources
<1> DEFINE heap == HeapSpans(q, spans, failed)
           held == Weights(TotalLen(heap), 0, 0)
           v == [t EXCEPT !.held = held]
           u == Route(s, i, v, bytes, resident)
<1>3. IsFiniteSet(spans) /\ \A span \in spans : span.len \in Nat
  BY <1>1, RequestAssumption DEF Admitted
<1>4. Covered(w, t.reserved) /\ w \in Sizes
  BY <1>1, RouteWeights DEF HoldInv
<1>5. w.source <= t.reserved.source /\ w.prepared <= t.reserved.prepared
  BY <1>4, CoveredSizes
<1>6. held \in Sizes /\ Covered(held, t.reserved)
  <2> DEFINE read == {span \in spans : ~GuaranteedMapped(q, span)}
  <2>1. heap \in SUBSET read /\ read \in SUBSET spans
    BY DEF HeapSpans, GuaranteedMapped, MayFallBack
  <2>2. w.source = TotalLen(read)
    BY <1>1, RouteWeights
  <2>3. IsFiniteSet(read) /\ \A span \in read : span.len \in Nat
    BY <1>3, <2>1, FS_Subset
  <2> HIDE DEF heap, read
  <2>4. TotalLen(heap) \in Nat /\ TotalLen(read) \in Nat /\ TotalLen(heap) <= TotalLen(read)
    BY <2>1, <2>3, FewerSpans
  <2>5. held \in Sizes /\ held.source = TotalLen(heap) /\ held.scratch = 0 /\ held.prepared = 0
    BY <2>4, WeightsSize
  <2>6. t.reserved.source \in Nat /\ t.reserved.scratch \in Nat /\ t.reserved.prepared \in Nat
    BY <1>1, CoveredSizes
  <2> HIDE DEF held
  <2> QED
    BY <1>5, <2>2, <2>4, <2>5, <2>6, CoveredSizes
<1>7. resident \in Nat
  BY <1>3, FewerSpans
<1>8. /\ TaskShape(v) /\ v.reserved = t.reserved /\ v.error = t.error /\ v.held = held
      /\ v.step = t.step
  BY <1>1 DEF TaskShape, TaskFields
<1>9. SetTask(s, i, u)
  BY <1>2
<1> HIDE DEF held, v, q, plan, b, t, spans, resident, bytes, w
<1>10. HoldInv(q, b, u)
  <2>1. ASSUME NEW kind, resident = w.prepared
        PROVE  HoldInv(q, b, Deliver(s, i, v, kind, bytes, resident))
    BY <1>1, <1>5, <1>7, <1>8, <2>1, DeliverHolds
  <2>2. (\/ b.target.graph # Absent /\ q.mode = "delegate"
         \/ b.target.graph = Absent /\ b.sources[1].storage.kind = "quantized"
         \/ b.target.graph = Absent /\ b.target.recipe # Absent) => resident = w.prepared
    BY <1>1, RouteWeights DEF resident, w, spans
  <2>3. CASE b.target.graph # Absent /\ q.mode = "delegate"
    <3>1. u = Deliver(s, i, v, "operation", bytes, resident)
      BY <2>3 DEF Route, GraphRoute, b, q
    <3> QED
      BY <2>1, <2>2, <2>3, <3>1
  <2>4. CASE b.target.graph # Absent /\ q.mode # "delegate"
    <3>1. u = [v EXCEPT !.pc = "graph", !.value = bytes]
      BY <2>4 DEF Route, GraphRoute, b, q
    <3>2. u.pc = "graph" /\ u.held = held /\ u.reserved = t.reserved /\ u.error = t.error
      BY <1>8, <3>1 DEF TaskShape, TaskFields
    <3> HIDE DEF u
    <3> QED
      BY <1>1, <1>4, <1>6, <2>4, <3>2 DEF HoldInv, w
  <2>5. CASE b.target.graph = Absent /\ b.sources[1].storage.kind = "quantized"
    <3>1. u = Deliver(s, i, v, "quantized", bytes, resident)
      BY <2>5 DEF Route, QuantizedRoute, b, q
    <3> QED
      BY <2>1, <2>2, <2>5, <3>1
  <2>6. CASE /\ b.target.graph = Absent /\ b.sources[1].storage.kind # "quantized"
             /\ b.target.recipe # Absent
    <3>1. u = Deliver(s, i, v, "conversion", bytes, resident)
      BY <2>6 DEF Route, ConversionRoute, b, q
    <3> QED
      BY <2>1, <2>2, <2>6, <3>1
  <2>7. CASE Straight(b)
    <3> DEFINE n == Len(b.target.transforms)
    <3>1. u = PlainRoute(s, i, v, bytes, resident)
      BY <2>7 DEF Route, Straight, b, q
    <3>2. /\ u.pc = (IF b.target.transforms = <<>> THEN "publish" ELSE "transform")
          /\ u.held = held /\ u.reserved = t.reserved /\ u.error = t.error
          /\ u.len = resident /\ u.step = t.step
      BY <1>8, <3>1 DEF TaskShape, TaskFields, PlainRoute, b
    <3>3. b.target.transforms = <<>> <=> n = 0
      BY <1>1, AdmittedFacts
    <3>4. spans = {b.sources[1].storage.span} /\ (n = 0 => b.target.out = b.sources[1].storage.span.len)
      BY <1>1, <2>7, StraightAccepted DEF spans
    <3>5. resident = b.sources[1].storage.span.len
      BY <1>3, <3>4, OneSpan DEF resident
    <3>6. w.prepared = b.target.out
      BY <1>1, <2>7, RouteWeights DEF w
    <3>7. u.pc = "publish" => u.len = b.target.out /\ b.target.out <= u.reserved.prepared
      BY <1>5, <3>2, <3>3, <3>4, <3>5, <3>6
    <3> HIDE DEF u
    <3>8. ~(u.step > 1)
      BY <1>1, <3>2
    <3> QED
      BY <1>1, <1>4, <1>6, <3>2, <3>7, <3>8 DEF HoldInv, w
  <2> QED
    BY <2>3, <2>4, <2>5, <2>6, <2>7 DEF Straight
<1> QED
  BY <1>9, <1>10 DEF q, b

\* prepare_chain: a step holds its input, its output and its workspace, which
\* peak_transform_scratch_bytes counts.
LEMMA TransformStepHolds ==
    ASSUME MaterializerInv, HeapInv, NEW s \in Sessions, NEW i \in Tasks(s), TransformStep(s, i)
    PROVE  \E u : SetTask(s, i, u) /\ HoldInv(Request(s), Bindings(s)[i], u)
<1> DEFINE q == Request(s)
           plan == session[s].plan
           b == Bindings(s)[i]
           t == Task(s, i)
           steps == b.target.transforms
           n == Len(steps)
           step == steps[t.step]
           first == SourceBytes(q, b)[1][1]
           reads == {Bytes(q.checkpoint.contents, span) : span \in UniqueSpans(b)}
           input == IF t.value \in reads THEN 0 ELSE t.len
           last == t.step = n
           reuses == step.answer.kind = "reuse"
           scratch == input + step.scratch + (IF last \/ reuses THEN 0 ELSE step.out)
           prepared == IF last /\ ~reuses THEN step.out ELSE 0
           held == Weights(t.held.source, scratch, prepared)
           w == ResourceWeights(q, b)
           u == [t EXCEPT !.pc = IF last THEN "publish" ELSE "transform",
                          !.step = @ + 1,
                          !.value = Transformed(step, b.target.shape, @),
                          !.len = step.out, !.held = held]
<1>1. /\ TaskShape(t) /\ t.reserved \in Sizes /\ HoldInv(q, b, t) /\ t.pc = "transform"
      /\ t.error \in Errors /\ Admitted(q, plan, b)
      /\ Straight(b) /\ t.step \in 1 .. n
      /\ t.value = Chained(b.target, first)[t.step - 1]
  BY HeldTask DEF TransformStep, TaskInv, ValueInv
<1>2. SetTask(s, i, IF ~Conforms(step, t.len) THEN Failed(t, "provider") ELSE u)
  <2>1. u = [t EXCEPT !.pc = IF last THEN "publish" ELSE "transform",
                      !.step = @ + 1,
                      !.value = Transformed(step, b.target.shape, @),
                      !.len = step.out,
                      !.held = Weights(@.source, scratch, prepared)]
    BY <1>1 DEF TaskShape, TaskFields
  <2> QED
    BY <2>1 DEF TransformStep
<1>3. /\ u.pc = (IF last THEN "publish" ELSE "transform") /\ u.step = t.step + 1
      /\ u.len = step.out /\ u.held = held /\ u.reserved = t.reserved /\ u.error = t.error
  BY <1>1 DEF TaskShape, TaskFields
<1> HIDE DEF u, held, q, plan, b, t, first
<1>4. /\ n \in Nat /\ w \in Sizes /\ Covered(w, t.reserved)
      /\ w.prepared = b.target.out /\ w.scratch = PeakTransformScratch(steps)
  <2>1. n \in Nat
    BY <1>1, AdmittedFacts
  <2>2. w \in Sizes /\ w.prepared = b.target.out /\ w.scratch = PeakTransformScratch(steps)
    BY <1>1, RouteWeights
  <2> QED
    BY <1>1, <2>1, <2>2 DEF HoldInv
<1>5. /\ step.out \in Nat /\ step.scratch \in Nat
      /\ t.step > 1 => steps[t.step - 1].out \in Nat
      /\ (IF t.step > 1 THEN steps[t.step - 1].out ELSE 0) + (IF t.step < n THEN step.out ELSE 0)
         + step.scratch <= PeakTransformScratch(steps)
  BY <1>1, StepScratch
<1>6. n # 0 => steps[n].out = b.target.out
  BY <1>1, StraightAccepted
<1>7. t.step = 1 => t.value \in reads
  <2>1. ASSUME t.step = 1 PROVE t.value \in reads
    <3>1. Chained(b.target, first)[0] = first
      BY <1>4, ChainSteps
    <3>2. t.value = first
      BY <1>1, <2>1, <3>1
    <3>3. /\ b.sources[1].storage.kind = "plain"
          /\ UniqueSpans(b) = {b.sources[1].storage.span}
      BY <1>1, StraightAccepted
    <3>4. Spans(b.sources[1].storage) = <<b.sources[1].storage.span>>
      BY <3>3 DEF Spans
    <3>5. 1 \in DOMAIN b.sources
      BY <1>1, RequestAssumption DEF Admitted
    <3>6. SourceBytes(q, b)[1] = ReadBytes(q.checkpoint.contents, b.sources[1].storage)
      BY <3>5 DEF SourceBytes
    <3>7. first = Bytes(q.checkpoint.contents, b.sources[1].storage.span)
      BY <3>4, <3>6 DEF ReadBytes, first
    <3> QED
      BY <3>2, <3>3, <3>7
  <2> QED
    BY <2>1
<1>8. t.step > 1 => t.len = steps[t.step - 1].out
  BY <1>1 DEF HoldInv
<1>9. t.held \in Sizes /\ Covered(t.held, t.reserved)
  BY <1>1 DEF HoldInv
<1> HIDE DEF steps, n, step, reads, w
<1>10. input \in Nat /\ input <= (IF t.step > 1 THEN steps[t.step - 1].out ELSE 0)
  BY <1>1, <1>4, <1>5, <1>7, <1>8
<1>11. scratch \in Nat /\ scratch <= w.scratch
  <2> HIDE DEF input
  <2> DEFINE before == IF t.step > 1 THEN steps[t.step - 1].out ELSE 0
             after == IF t.step < n THEN step.out ELSE 0
             made == IF last \/ reuses THEN 0 ELSE step.out
  <2>1. made \in Nat /\ after \in Nat /\ made <= after
    BY <1>1, <1>4, <1>5
  <2>2. before \in Nat /\ input \in Nat /\ input <= before
    BY <1>1, <1>5, <1>10
  <2>3. before + after + step.scratch <= w.scratch /\ w.scratch \in Nat
    BY <1>4, <1>5, CoveredSizes
  <2>4. scratch = input + step.scratch + made
    OBVIOUS
  <2> HIDE DEF before, after, made, scratch
  <2> QED
    BY <1>5, <2>1, <2>2, <2>3, <2>4
<1>12. last => step.out = b.target.out
  BY <1>1, <1>4, <1>6 DEF step
<1>13. prepared \in Nat /\ prepared <= w.prepared
  BY <1>4, <1>5, <1>12, CoveredSizes
<1> HIDE DEF scratch, prepared
<1>14. held \in Sizes /\ Covered(held, t.reserved)
  <2>1. t.held.source \in Nat /\ t.held.source <= t.reserved.source
    BY <1>9, CoveredSizes
  <2>2. /\ held \in Sizes /\ held.source = t.held.source /\ held.scratch = scratch
        /\ held.prepared = prepared
    BY <1>11, <1>13, <2>1, WeightsSize DEF held
  <2>3. /\ w.scratch \in Nat /\ w.prepared \in Nat /\ w.scratch <= t.reserved.scratch
        /\ w.prepared <= t.reserved.prepared
    BY <1>4, CoveredSizes
  <2>4. t.reserved.scratch \in Nat /\ t.reserved.prepared \in Nat
    BY <1>1, CoveredSizes
  <2> QED
    BY <1>11, <1>13, <2>1, <2>2, <2>3, <2>4, CoveredSizes
<1>15. HoldInv(q, b, u)
  <2>1. u.pc = "transform" /\ u.step > 1 => u.len = steps[u.step - 1].out
    <3>1. u.step - 1 = t.step
      BY <1>1, <1>3
    <3> QED
      BY <1>3, <3>1 DEF step
  <2>2. u.pc = "publish" => u.len = b.target.out /\ b.target.out <= u.reserved.prepared
    BY <1>3, <1>4, <1>12, CoveredSizes
  <2>3. u.pc \in {"transform", "publish"}
    BY <1>3
  <2> QED
    BY <1>1, <1>3, <1>4, <1>14, <2>1, <2>2, <2>3 DEF HoldInv, w, steps
<1>16. HoldInv(q, b, Failed(t, "provider"))
  BY <1>1, FailedHolds DEF Errors
<1> QED
  BY <1>2, <1>15, <1>16 DEF q, b

\* execute_host: a graph holds its peak, and its output if that is its own.
LEMMA RunGraphHolds ==
    ASSUME MaterializerInv, HeapInv, NEW s \in Sessions, NEW i \in Tasks(s), RunGraph(s, i)
    PROVE  \E u : SetTask(s, i, u) /\ HoldInv(Request(s), Bindings(s)[i], u)
<1> DEFINE q == Request(s)
           plan == session[s].plan
           b == Bindings(s)[i]
           t == Task(s, i)
           graph == b.target.graph
           prepared == IF graph.owns THEN graph.facts.bytes ELSE 0
           held == Weights(t.held.source, graph.peak, prepared)
           w == ResourceWeights(q, b)
           u == [t EXCEPT !.pc = "compare", !.len = graph.facts.bytes,
                          !.value = GraphValue(graph, t.value), !.held = held]
<1>1. /\ TaskShape(t) /\ t.reserved \in Sizes /\ HoldInv(q, b, t) /\ t.pc = "graph"
      /\ t.error \in Errors /\ Admitted(q, plan, b) /\ graph # Absent
  BY HeldTask DEF RunGraph, TaskInv, ValueInv
<1>2. SetTask(s, i, u)
  <2>1. u = [t EXCEPT !.pc = "compare", !.len = graph.facts.bytes,
                      !.value = GraphValue(graph, t.value),
                      !.held = Weights(@.source, graph.peak, prepared)]
    BY <1>1 DEF TaskShape, TaskFields
  <2> QED
    BY <2>1 DEF RunGraph
<1>3. /\ u.pc = "compare" /\ u.len = graph.facts.bytes /\ u.held = held
      /\ u.reserved = t.reserved /\ u.error = t.error
  BY <1>1 DEF TaskShape, TaskFields
<1> HIDE DEF u, held, q, plan, b, t
<1>4. /\ graph.estimate \in Nat /\ graph.peak \in Nat /\ b.target.out \in Nat
      /\ graph.owns \in BOOLEAN
      /\ graph.peak <= graph.estimate + (IF graph.owns THEN 0 ELSE graph.facts.bytes)
  BY <1>1, RequestAssumption DEF Admitted
<1>5. graph.facts.bytes = b.target.out
  BY <1>1, GraphAccepted
<1>6. /\ w \in Sizes /\ w.prepared = b.target.out /\ w.scratch = graph.estimate
      /\ Covered(w, t.reserved) /\ q.mode # "delegate"
  <2>1. q.mode # "delegate" /\ Covered(w, t.reserved)
    BY <1>1 DEF HoldInv
  <2> QED
    BY <1>1, <2>1, RouteWeights
<1>7. t.held \in Sizes /\ Covered(t.held, t.reserved)
  BY <1>1 DEF HoldInv
<1>8. prepared \in Nat /\ prepared <= w.prepared
  BY <1>4, <1>5, <1>6
<1>9. \/ graph.peak <= w.scratch
      \/ ~graph.owns /\ prepared = 0 /\ graph.peak <= w.scratch + w.prepared
  BY <1>4, <1>5, <1>6
<1> HIDE DEF graph, prepared, w
<1>10. /\ w.scratch \in Nat /\ w.prepared \in Nat
       /\ w.scratch <= t.reserved.scratch /\ w.prepared <= t.reserved.prepared
       /\ t.held.source \in Nat /\ t.held.source <= t.reserved.source
       /\ t.reserved.scratch \in Nat /\ t.reserved.prepared \in Nat
  BY <1>1, <1>6, <1>7, CoveredSizes
<1>11. /\ held \in Sizes /\ held.source = t.held.source /\ held.scratch = graph.peak
       /\ held.prepared = prepared
  <2>1. t.held.source \in Nat /\ graph.peak \in Nat /\ prepared \in Nat
    BY <1>4, <1>8, <1>10
  <2> QED
    BY <2>1, WeightsSize DEF held
<1>12. RanInv(q, b, u)
  <2>1. held.prepared <= t.reserved.prepared
    BY <1>8, <1>10, <1>11
  <2>2. \/ held.scratch <= t.reserved.scratch
        \/ ~graph.owns /\ held.scratch + held.prepared <= t.reserved.scratch + t.reserved.prepared
    BY <1>4, <1>9, <1>10, <1>11
  <2> QED
    BY <1>3, <1>5, <1>6, <1>10, <1>11, <2>1, <2>2 DEF RanInv, graph
<1>13. HoldInv(q, b, u)
  BY <1>1, <1>3, <1>6, <1>11, <1>12 DEF HoldInv, w
<1> QED
  BY <1>2, <1>13 DEF q, b

\* Once its peak is compared, a graph holds its sources and its output.
LEMMA CompareScratchHolds ==
    ASSUME MaterializerInv, HeapInv, NEW s \in Sessions, NEW i \in Tasks(s), CompareScratch(s, i)
    PROVE  \E u : SetTask(s, i, u) /\ HoldInv(Request(s), Bindings(s)[i], u)
<1> DEFINE q == Request(s)
           plan == session[s].plan
           b == Bindings(s)[i]
           t == Task(s, i)
           graph == b.target.graph
           held == [t.held EXCEPT !.scratch = 0]
           w == ResourceWeights(q, b)
           u == [t EXCEPT !.pc = "publish", !.held = held]
<1>1. /\ TaskShape(t) /\ t.reserved \in Sizes /\ HoldInv(q, b, t) /\ t.pc = "compare"
      /\ t.error \in Errors /\ Admitted(q, plan, b) /\ graph # Absent
  BY HeldTask DEF CompareScratch, TaskInv, ValueInv
<1>2. SetTask(s, i, IF graph.peak > graph.estimate THEN Failed(t, "estimate") ELSE u)
  <2>1. u = [t EXCEPT !.pc = "publish", !.held = [@ EXCEPT !.scratch = 0]]
    BY <1>1 DEF TaskShape, TaskFields
  <2> QED
    BY <2>1 DEF CompareScratch
<1>3. /\ u.pc = "publish" /\ u.len = t.len /\ u.held = held
      /\ u.reserved = t.reserved /\ u.error = t.error
  BY <1>1 DEF TaskShape, TaskFields
<1> HIDE DEF u, q, plan, b, t
<1>4. t.held \in Sizes /\ RanInv(q, b, t) /\ Covered(w, t.reserved)
  BY <1>1 DEF HoldInv
<1>5. /\ held \in Sizes /\ held.source = t.held.source /\ held.scratch = 0
      /\ held.prepared = t.held.prepared
  BY <1>4 DEF Sizes
<1> HIDE DEF held, graph
<1>6. t.reserved.scratch \in Nat
  BY <1>1, CoveredSizes
<1>7. Covered(held, t.reserved)
  BY <1>4, <1>5, <1>6, CoveredSizes DEF RanInv
<1>8. t.len = b.target.out /\ q.mode # "delegate"
  BY <1>4 DEF RanInv
<1>9. w \in Sizes /\ w.prepared = b.target.out
  BY <1>1, <1>8, RouteWeights DEF graph
<1>10. b.target.out <= t.reserved.prepared
  BY <1>4, <1>9, CoveredSizes
<1>11. HoldInv(q, b, u)
  BY <1>1, <1>3, <1>4, <1>5, <1>7, <1>8, <1>10 DEF HoldInv, w
<1>12. HoldInv(q, b, Failed(t, "estimate"))
  BY <1>1, FailedHolds DEF Errors
<1> QED
  BY <1>2, <1>11, <1>12 DEF q, b

\* The length that is checked before publication is the planned one.
LEMMA PublishOwnHolds ==
    ASSUME MaterializerInv, HeapInv, NEW s \in Sessions, NEW i \in Tasks(s), PublishOwn(s, i)
    PROVE  \E u : SetTask(s, i, u) /\ HoldInv(Request(s), Bindings(s)[i], u)
<1> DEFINE q == Request(s)
           b == Bindings(s)[i]
           t == Task(s, i)
<1>1. /\ TaskShape(t) /\ t.reserved \in Sizes /\ HoldInv(q, b, t) /\ t.pc = "publish"
      /\ t.error \in Errors
  BY HeldTask DEF PublishOwn
<1>2. b.target.out \in Nat
  BY HeldTask, AdmittedFacts
<1>3. t.len = b.target.out /\ b.target.out <= t.reserved.prepared
  BY <1>1 DEF HoldInv
<1>4. SetTask(s, i, Deliver(s, i, t, "prepared", t.value, t.len))
  BY <1>3 DEF PublishOwn
<1>5. HoldInv(q, b, Deliver(s, i, t, "prepared", t.value, t.len))
  BY <1>1, <1>2, <1>3, DeliverHolds
<1> QED
  BY <1>4, <1>5

LEMMA ProviderPublishHolds ==
    ASSUME MaterializerInv, HeapInv, NEW s \in Sessions, NEW i \in Tasks(s), ProviderPublish(s, i)
    PROVE  \E u : SetTask(s, i, u) /\ HoldInv(Request(s), Bindings(s)[i], u)
<1> DEFINE q == Request(s)
           b == Bindings(s)[i]
           t == Task(s, i)
           u == [t EXCEPT !.published = TRUE]
<1>1. TaskShape(t) /\ HoldInv(q, b, t) /\ t.pc = "done"
  BY HeldTask DEF ProviderPublish
<1>2. u.pc = "done" /\ u.held = t.held /\ u.reserved = t.reserved /\ u.error = t.error
  BY <1>1 DEF TaskShape, TaskFields
<1>3. SetTask(s, i, u)
  BY DEF ProviderPublish
<1> HIDE DEF u
<1>4. HoldInv(q, b, u)
  BY <1>1, <1>2 DEF HoldInv
<1> QED
  BY <1>3, <1>4

\* A task starts with nothing held.
LEMMA NewTaskHolds ==
    ASSUME NEW q, NEW plan, NEW b, Admitted(q, plan, b)
    PROVE  HoldInv(q, b, NewTask(q, plan, b))
<1> DEFINE u == NewTask(q, plan, b)
<1>1. u.reserved \in Sizes
  BY NewTaskInv DEF TaskInv, ReservedInv
<1>2. u.pc = "lookup" /\ u.held = Nothing /\ u.error = Absent
  BY DEF NewTask
<1> HIDE DEF u
<1>3. Nothing \in Sizes /\ Covered(Nothing, u.reserved)
  BY <1>1, NothingCovered
<1> QED
  BY <1>2, <1>3 DEF HoldInv, Errors, u

\* Every step keeps what is held reserved.
LEMMA HeapKept ==
    ASSUME MaterializerInv, HeapInv, [Next]_vars
    PROVE  HeapInv'
<1>0. /\ session = [s \in Sessions |-> session[s]]
      /\ \A s \in Sessions : SessionInv(session[s]) /\ SessionShape(session[s])
  BY DEF MaterializerInv, SessionsInv, SessionInv
<1>1. ASSUME NEW s \in Sessions, NEW x, session' = [session EXCEPT ![s] = x],
             \A i \in DOMAIN x.tasks : HoldInv(x.request, x.plan.bindings[i], x.tasks[i])
      PROVE  HeapInv'
  <2>1. session'[s] = x /\ \A r \in Sessions \ {s} : session'[r] = session[r]
    BY <1>0, <1>1
  <2>2. ASSUME NEW r \in Sessions, NEW i \in DOMAIN session'[r].tasks
        PROVE  HoldInv(session'[r].request, session'[r].plan.bindings[i], session'[r].tasks[i])
    <3>1. CASE r = s
      BY <1>1, <2>1, <2>2, <3>1
    <3>2. CASE r # s
      BY <2>1, <2>2, <3>2 DEF HeapInv, Tasks, Request, Bindings, Task
    <3> QED
      BY <3>1, <3>2
  <2> QED
    BY <2>2 DEF HeapInv, Tasks, Request, Bindings, Task
<1>2. ASSUME NEW s \in Sessions, ObtainPlan(s)
      PROVE  HeapInv'
  <2>1. PICK q \in Requests : session' = [session EXCEPT ![s] =
               [@ EXCEPT !.request = q, !.plan = PlanObtained(q.from),
                         !.phase = IF PlanObtained(q.from) = Absent THEN "rejected" ELSE "planned"]]
    BY <1>2 DEF ObtainPlan
  <2> DEFINE x == [session[s] EXCEPT !.request = q, !.plan = PlanObtained(q.from),
                     !.phase = IF PlanObtained(q.from) = Absent THEN "rejected" ELSE "planned"]
  <2>2. session' = [session EXCEPT ![s] = x]
    BY <1>0, <2>1
  <2>3. session[s].tasks = <<>>
    BY <1>0, <1>2 DEF ObtainPlan, SessionInv
  <2>4. DOMAIN x.tasks = {}
    BY <1>0, <2>3 DEF SessionShape, SessionFields
  <2> HIDE DEF x
  <2> QED
    BY <1>1, <2>2, <2>4
<1>3. ASSUME NEW s \in Sessions, OpenSession(s)
      PROVE  HeapInv'
  <2>1. \E phase : session' = [session EXCEPT ![s] = [@ EXCEPT !.phase = phase]]
    BY <1>3 DEF OpenSession
  <2>2. PICK phase : session' = [session EXCEPT ![s] = [session[s] EXCEPT !.phase = phase]]
    BY <1>0, <2>1
  <2>3. session[s].tasks = <<>>
    BY <1>0, <1>3 DEF OpenSession, SessionInv
  <2>4. DOMAIN [session[s] EXCEPT !.phase = phase].tasks = {}
    BY <1>0, <2>3 DEF SessionShape, SessionFields
  <2> QED
    BY <1>1, <2>2, <2>4
<1>4. ASSUME NEW s \in Sessions, Execute(s)
      PROVE  HeapInv'
  <2> DEFINE x == session[s]
             q == x.request
             plan == x.plan
             tasks == [i \in DOMAIN plan.bindings |-> NewTask(q, plan, plan.bindings[i])]
             y == [x EXCEPT !.phase = "running", !.tasks = tasks]
             z == [x EXCEPT !.phase = "rejected", !.error = "limit"]
  <2>1. session' = [session EXCEPT ![s] = y] \/ session' = [session EXCEPT ![s] = z]
    BY <1>0, <1>4 DEF Execute, Request
  <2>2. SessionInv(x) /\ x.phase = "open"
    BY <1>0, <1>4 DEF Execute
  <2>3. x.tasks = <<>> /\ \A i \in DOMAIN plan.bindings : Admitted(q, plan, plan.bindings[i])
    BY <2>2 DEF SessionInv, Admitted, Range
  <2>4. y.tasks = tasks /\ y.request = q /\ y.plan = plan
    BY <1>0 DEF SessionShape, SessionFields
  <2>5. DOMAIN z.tasks = {}
    BY <1>0, <2>3 DEF SessionShape, SessionFields
  <2>6. \A i \in DOMAIN plan.bindings : HoldInv(q, plan.bindings[i], NewTask(q, plan, plan.bindings[i]))
    BY <2>3, NewTaskHolds
  <2>7. /\ DOMAIN tasks = DOMAIN plan.bindings
        /\ \A i \in DOMAIN plan.bindings : tasks[i] = NewTask(q, plan, plan.bindings[i])
    OBVIOUS
  <2> HIDE DEF x, q, plan, tasks, y, z
  <2>8. \A i \in DOMAIN y.tasks : HoldInv(y.request, y.plan.bindings[i], y.tasks[i])
    BY <2>4, <2>6, <2>7
  <2> QED
    BY <1>1, <2>1, <2>5, <2>8
<1>5. ASSUME NEW s \in Sessions, NEW i \in Tasks(s),
             \E t : SetTask(s, i, t) /\ HoldInv(Request(s), Bindings(s)[i], t)
      PROVE  HeapInv'
  <2>1. PICK t : SetTask(s, i, t) /\ HoldInv(Request(s), Bindings(s)[i], t)
    BY <1>5
  <2> DEFINE x == session[s]
             y == [x EXCEPT !.tasks = [x.tasks EXCEPT ![i] = t]]
  <2>2. session' = [session EXCEPT ![s] = y]
    BY <1>0, <2>1 DEF SetTask
  <2>3. y.tasks = [x.tasks EXCEPT ![i] = t] /\ y.request = x.request /\ y.plan = x.plan
    BY <1>0 DEF SessionShape, SessionFields
  <2>4. \A j \in DOMAIN x.tasks : HoldInv(x.request, x.plan.bindings[j], x.tasks[j])
    BY DEF HeapInv, Tasks, Request, Bindings, Task
  <2>5. HoldInv(x.request, x.plan.bindings[i], t)
    BY <2>1 DEF Request, Bindings
  <2> HIDE DEF x, y
  <2>6. DOMAIN y.tasks = DOMAIN x.tasks /\ \A j \in DOMAIN x.tasks : y.tasks[j] = IF j = i THEN t ELSE x.tasks[j]
    BY <2>3
  <2>7. \A j \in DOMAIN y.tasks : HoldInv(y.request, y.plan.bindings[j], y.tasks[j])
    BY <2>3, <2>4, <2>5, <2>6
  <2> QED
    BY <1>1, <2>2, <2>7
<1>6. CASE \E s \in Sessions : ObtainPlan(s) \/ OpenSession(s) \/ Execute(s)
  BY <1>2, <1>3, <1>4, <1>6
<1>7. CASE \E s \in Sessions : \E i \in Tasks(s) :
             \/ Lookup(s, i) \/ ReadEntry(s, i) \/ EvictCorrupt(s, i) \/ ReadSources(s, i)
             \/ TransformStep(s, i) \/ RunGraph(s, i) \/ CompareScratch(s, i)
             \/ PublishOwn(s, i) \/ ProviderPublish(s, i)
  BY <1>5, <1>7, LookupHolds, ReadEntryHolds, EvictCorruptHolds, ReadSourcesHolds,
     TransformStepHolds, RunGraphHolds, CompareScratchHolds, PublishOwnHolds, ProviderPublishHolds
<1>8. CASE EvictForSpace \/ Tamper \/ UNCHANGED vars
  <2>1. UNCHANGED session
    BY <1>8 DEF EvictForSpace, Tamper, vars
  <2> QED
    BY <2>1 DEF HeapInv, Tasks, Request, Bindings, Task
<1> QED
  BY <1>6, <1>7, <1>8 DEF Next

LEMMA HeapInvariant == Spec => []HeapInv
<1>1. Init => HeapInv
  BY DEF Init, Idle, HeapInv, Tasks
<1>2. MaterializerInv /\ HeapInv /\ [Next]_vars => HeapInv'
  BY HeapKept
<1> QED
  BY <1>1, <1>2, MaterializerInvariant, PTL DEF Spec

\* resource_weights and with_resources: at each step of each route, of any
\* plan and any checkpoint, what a task holds on the heap is reserved; and a
\* graph that returns an input's memory, until its peak is compared with the
\* estimate, holds no more than its scratch and its prepared bytes together.
THEOREM ReservationCoversAlways == Spec => []ReservationCovers
<1>1. ASSUME MaterializerInv, HeapInv PROVE ReservationCovers
  <2>1. SUFFICES ASSUME NEW s \in Opened, NEW i \in Tasks(s)
                 PROVE  \/ Covered(Task(s, i).held, Task(s, i).reserved)
                        \/ /\ Task(s, i).pc = "compare" /\ ~Bindings(s)[i].target.graph.owns
                           /\ Task(s, i).held.source <= Task(s, i).reserved.source
                           /\ Task(s, i).held.scratch + Task(s, i).held.prepared
                              <= Task(s, i).reserved.scratch + Task(s, i).reserved.prepared
    BY DEF ReservationCovers
  <2> DEFINE q == Request(s)
             b == Bindings(s)[i]
             t == Task(s, i)
  <2>2. s \in Sessions
    BY DEF Opened
  <2>3. HoldInv(q, b, t)
    BY <1>1, <2>1, <2>2, HeldTask
  <2> HIDE DEF q, b, t
  <2>4. CASE t.pc # "compare"
    BY <2>3, <2>4 DEF HoldInv, t
  <2>5. CASE t.pc = "compare"
    <3>1. t.held \in Sizes /\ RanInv(q, b, t)
      BY <2>3, <2>5 DEF HoldInv
    <3>2. Covered(t.held, t.reserved) <=>
            /\ t.held.source <= t.reserved.source /\ t.held.scratch <= t.reserved.scratch
            /\ t.held.prepared <= t.reserved.prepared
      BY <3>1, CoveredSizes
    <3> QED
      BY <2>5, <3>1, <3>2 DEF RanInv, b, t
  <2> QED
    BY <2>4, <2>5
<1> QED
  BY <1>1, MaterializerInvariant, HeapInvariant, PTL

\* validate_binding, validate_transform_chain and TargetTensorBuilder::build:
\* a planned task fails for a limit, a provider or an estimate only, and each
\* transform is given the representation it takes.
THEOREM PlannedDoesNotFailAlways == Spec => []PlannedDoesNotFail
<1>1. ASSUME MaterializerInv, HeapInv PROVE PlannedDoesNotFail
  <2>1. SUFFICES ASSUME NEW s \in Opened, NEW i \in Tasks(s)
                 PROVE  /\ Task(s, i).error \in {Absent, "limit", "provider", "estimate"}
                        /\ Task(s, i).pc = "transform" =>
                              Bindings(s)[i].target.transforms[Task(s, i).step].source =
                                  IF Task(s, i).step > 1
                                  THEN Bindings(s)[i].target.transforms[Task(s, i).step - 1].target
                                  ELSE [dtype |-> Bindings(s)[i].sources[1].storage.dtype,
                                        layout |-> Contiguous]
    BY DEF PlannedDoesNotFail
  <2> DEFINE q == Request(s)
             plan == session[s].plan
             b == Bindings(s)[i]
             t == Task(s, i)
             steps == b.target.transforms
             n == Len(steps)
  <2>2. s \in Sessions
    BY DEF Opened
  <2>3. Admitted(q, plan, b) /\ TaskInv(q, plan, b, t) /\ t.error \in Errors
    BY <1>1, <2>1, <2>2, HeldTask
  <2> HIDE DEF q, plan, b, t
  <2>4. ASSUME t.pc = "transform"
        PROVE  steps[t.step].source = IF t.step > 1 THEN steps[t.step - 1].target
                                      ELSE [dtype |-> b.sources[1].storage.dtype, layout |-> Contiguous]
    <3>1. Straight(b) /\ t.step \in 1 .. n
      BY <2>3, <2>4 DEF TaskInv, ValueInv
    <3>2. n \in Nat
      BY <2>3, AdmittedFacts
    <3>3. /\ n # 0 => steps[1].source = [dtype |-> b.sources[1].storage.dtype, layout |-> Contiguous]
          /\ \A k \in 2 .. n : steps[k].source = steps[k - 1].target
      BY <2>3, <3>1, StraightAccepted
    <3> HIDE DEF steps, n
    <3>4. CASE t.step = 1
      BY <3>1, <3>2, <3>3, <3>4
    <3>5. CASE t.step # 1
      BY <3>1, <3>2, <3>3, <3>5
    <3> QED
      BY <3>4, <3>5
  <2> QED
    BY <2>3, <2>4 DEF Errors, b, t
<1> QED
  BY <1>1, MaterializerInvariant, HeapInvariant, PTL
=============================================================================
