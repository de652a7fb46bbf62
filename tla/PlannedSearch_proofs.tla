------------------------ MODULE PlannedSearch_proofs ------------------------
(***************************************************************************)
(* Proofs about PlannedSearch: searches leave the session as it is, what a *)
(* oneshot search plans fits, an answer is sound whatever the library      *)
(* ranks, and its limit keeps the first results of every segment.          *)
(***************************************************************************)
EXTENDS PlannedSearch, SegmentPlanner_proofs

-----------------------------------------------------------------------------
(* Induction up to a bound: a finite set of naturals has a least element,  *)
(* because proper inclusion of finite sets is well founded.                *)
LEMMA UpTo ==
    ASSUME NEW bound \in Nat, NEW S, 0 \in S, \A n \in 1..bound : n - 1 \in S => n \in S
    PROVE  \A n \in 0..bound : n \in S
<1> SUFFICES ASSUME NEW k \in 0..bound, k \notin S PROVE FALSE
  OBVIOUS
<1> DEFINE T == {n \in 0..bound : n \notin S}
           Below(n) == T \cap (0..n)
           F == {Below(n) : n \in T}
<1>1. IsWellFoundedOn(StrictSubsetOrdering(Nat), FiniteSubsetsOf(Nat))
  BY FS_StrictSubsetOrderingWellFounded
<1>2. \A n \in T : Below(n) \in SUBSET Nat /\ IsFiniteSet(Below(n))
  <2> TAKE n \in T
  <2>1. IsFiniteSet(0..n) /\ Below(n) \in SUBSET (0..n)
    BY FS_Interval
  <2> QED BY <2>1, FS_Subset
<1>3. F \subseteq FiniteSubsetsOf(Nat) /\ F # {}
  BY <1>2 DEF FiniteSubsetsOf
<1>4. PICK U \in F : \A V \in F : <<V, U>> \notin StrictSubsetOrdering(Nat)
  <2> HIDE DEF F
  <2> QED BY <1>1, <1>3, WFMin
<1>5. PICK n \in T : U = Below(n)
  OBVIOUS
<1>6. n - 1 \in T
  OBVIOUS
<1>7. Below(n - 1) \in F /\ Below(n - 1) \subseteq Below(n) /\ n \in Below(n) /\ n \notin Below(n - 1)
  BY <1>6
<1>8. <<Below(n - 1), Below(n)>> \in StrictSubsetOrdering(Nat)
  <2>1. Below(n - 1) \in SUBSET Nat /\ Below(n) \in SUBSET Nat
    BY <1>2, <1>6
  <2> HIDE DEF Below
  <2> QED BY <1>7, <2>1 DEF StrictSubsetOrdering
<1> QED BY <1>4, <1>5, <1>7, <1>8

(* The loop over a ranking, and that over the results, have a run. *)
MergeRun(f, ordered, segment, indices, ranked) ==
    /\ f[0] = ordered
    /\ \A n \in 1..Len(ranked) : f[n] = WithItem(f[n - 1], segment, indices, ranked[n])
    /\ Merged(ordered, segment, indices, ranked) = f[Len(ranked)]

LEMMA MergedRuns ==
    ASSUME NEW ordered, NEW segment, NEW indices, NEW ranked, Len(ranked) \in Nat
    PROVE  \E f : MergeRun(f, ordered, segment, indices, ranked)
<1> DEFINE Runs(f, k) == f = [n \in 0..k |-> IF n = 0 THEN ordered
                                             ELSE WithItem(f[n - 1], segment, indices, ranked[n])]
           S == {k \in 0..Len(ranked) : \E f : Runs(f, k)}
<1>1. 0 \in S
  <2> DEFINE f == [n \in 0..0 |-> ordered]
  <2>1. f = [n \in 0..0 |-> IF n = 0 THEN ordered
                            ELSE WithItem(f[n - 1], segment, indices, ranked[n])]
    OBVIOUS
  <2> HIDE DEF f
  <2> QED BY <2>1
<1>2. ASSUME NEW k \in 1..Len(ranked), k - 1 \in S PROVE k \in S
  <2>1. PICK f : Runs(f, k - 1)
    BY <1>2
  <2> DEFINE h == [n \in 0..k |-> IF n = k THEN WithItem(f[k - 1], segment, indices, ranked[k])
                                  ELSE f[n]]
  <2>2. ASSUME NEW n \in 0..k
        PROVE  h[n] = IF n = 0 THEN ordered
                      ELSE WithItem(h[n - 1], segment, indices, ranked[n])
    <3>1. CASE n = k
      <4>1. k # 0 /\ k - 1 \in 0..k /\ k - 1 # k
        OBVIOUS
      <4>2. h[k - 1] = f[k - 1]
        BY <4>1
      <4> QED BY <3>1, <4>1, <4>2
    <3>2. CASE n # k
      <4>1. n \in 0..k - 1 /\ (n # 0 => n - 1 \in 0..k /\ n - 1 # k)
        BY <3>2
      <4>2. h[n] = f[n] /\ (n # 0 => h[n - 1] = f[n - 1])
        BY <3>2, <4>1
      <4>3. f[n] = IF n = 0 THEN ordered ELSE WithItem(f[n - 1], segment, indices, ranked[n])
        BY <2>1, <4>1
      <4> QED BY <4>2, <4>3
    <3> QED BY <3>1, <3>2
  <2>3. h = [n \in 0..k |-> h[n]]
    OBVIOUS
  <2> HIDE DEF h
  <2>4. Runs(h, k)
    BY <2>2, <2>3
  <2>5. k \in 0..Len(ranked)
    OBVIOUS
  <2> HIDE DEF Runs
  <2> QED BY <2>4, <2>5
<1>3. Len(ranked) \in S
  <2> HIDE DEF S
  <2>1. \A n \in 0..Len(ranked) : n \in S
    BY <1>1, <1>2, UpTo
  <2> QED BY <2>1
<1> DEFINE f == CHOOSE f : Runs(f, Len(ranked))
<1>4. Runs(f, Len(ranked))
  <2>1. \E h : Runs(h, Len(ranked))
    BY <1>3
  <2> HIDE DEF Runs
  <2> QED BY <2>1
<1>5. Merged(ordered, segment, indices, ranked) = f[Len(ranked)]
  BY Zenon DEF Merged, f
<1> HIDE DEF f
<1>6. f[0] = ordered
  BY <1>4
<1>7. \A n \in 1..Len(ranked) : f[n] = WithItem(f[n - 1], segment, indices, ranked[n])
  BY <1>4
<1> QED BY <1>5, <1>6, <1>7 DEF MergeRun

(* One result, kept unless its segment has top_k already. *)
Kept(kept, ref, top_k) ==
    IF top_k > 0 /\ Cardinality({i \in DOMAIN kept : kept[i].segment = ref.segment}) >= top_k
    THEN kept ELSE Append(kept, ref)

LimitRun(f, ordered, top_k) ==
    /\ f[0] = <<>>
    /\ \A n \in 1..Len(ordered) : f[n] = Kept(f[n - 1], ordered[n], top_k)
    /\ Limited(ordered, top_k) = f[Len(ordered)]

LEMMA LimitedRuns ==
    ASSUME NEW ordered, NEW top_k, Len(ordered) \in Nat
    PROVE  \E f : LimitRun(f, ordered, top_k)
<1> DEFINE Runs(f, k) == f = [n \in 0..k |-> IF n = 0 THEN <<>>
                                             ELSE Kept(f[n - 1], ordered[n], top_k)]
           S == {k \in 0..Len(ordered) : \E f : Runs(f, k)}
<1>1. 0 \in S
  <2> DEFINE f == [n \in 0..0 |-> <<>>]
  <2>1. f = [n \in 0..0 |-> IF n = 0 THEN <<>> ELSE Kept(f[n - 1], ordered[n], top_k)]
    OBVIOUS
  <2>2. 0 \in 0..Len(ordered)
    OBVIOUS
  <2> HIDE DEF f
  <2>3. Runs(f, 0)
    BY <2>1
  <2> HIDE DEF Runs
  <2> QED BY <2>2, <2>3
<1>2. ASSUME NEW k \in 1..Len(ordered), k - 1 \in S PROVE k \in S
  <2>1. PICK f : Runs(f, k - 1)
    BY <1>2
  <2> DEFINE h == [n \in 0..k |-> IF n = k THEN Kept(f[k - 1], ordered[k], top_k) ELSE f[n]]
  <2>2. ASSUME NEW n \in 0..k
        PROVE  h[n] = IF n = 0 THEN <<>> ELSE Kept(h[n - 1], ordered[n], top_k)
    <3>1. CASE n = k
      <4>1. k # 0 /\ k - 1 \in 0..k /\ k - 1 # k
        OBVIOUS
      <4>2. h[k - 1] = f[k - 1]
        BY <4>1
      <4> QED BY <3>1, <4>1, <4>2
    <3>2. CASE n # k
      <4>1. n \in 0..k - 1 /\ (n # 0 => n - 1 \in 0..k /\ n - 1 # k)
        BY <3>2
      <4>2. h[n] = f[n] /\ (n # 0 => h[n - 1] = f[n - 1])
        BY <3>2, <4>1
      <4>3. f[n] = IF n = 0 THEN <<>> ELSE Kept(f[n - 1], ordered[n], top_k)
        BY <2>1, <4>1
      <4> QED BY <4>2, <4>3
    <3> QED BY <3>1, <3>2
  <2>3. h = [n \in 0..k |-> h[n]]
    OBVIOUS
  <2> HIDE DEF h
  <2>4. Runs(h, k)
    BY <2>2, <2>3
  <2>5. k \in 0..Len(ordered)
    OBVIOUS
  <2> HIDE DEF Runs
  <2> QED BY <2>4, <2>5
<1>3. Len(ordered) \in S
  <2> HIDE DEF S
  <2>1. \A n \in 0..Len(ordered) : n \in S
    BY <1>1, <1>2, UpTo
  <2> QED BY <2>1
<1> DEFINE f == CHOOSE f : Runs(f, Len(ordered))
<1>4. Runs(f, Len(ordered))
  <2>1. \E h : Runs(h, Len(ordered))
    BY <1>3
  <2> HIDE DEF Runs
  <2> QED BY <2>1
<1>5. Limited(ordered, top_k) = f[Len(ordered)]
  BY Zenon DEF Limited, Kept, f
<1> HIDE DEF f
<1>6. f[0] = <<>>
  BY <1>4
<1>7. \A n \in 1..Len(ordered) : f[n] = Kept(f[n - 1], ordered[n], top_k)
  BY <1>4
<1> QED BY <1>5, <1>6, <1>7 DEF LimitRun

-----------------------------------------------------------------------------
(* The results found in the first g segments: each memory is of the        *)
(* segment it names, none is found twice, and segments come in order.      *)
RefsIn(segments, g) ==
    {r \in [memory : Nat, segment : 1..g] :
        \E k \in DOMAIN segments[r.segment] : segments[r.segment][k] = r.memory}

Comes(first, ref) == first.memory # ref.memory /\ first.segment <= ref.segment

Answers(segments, g) ==
    {o \in Seq(RefsIn(segments, g)) : \A i \in 1..Len(o) : \A j \in 1..i - 1 : Comes(o[j], o[i])}

(* A result that comes after all others is added to them. *)
LEMMA AppendedAnswer ==
    ASSUME NEW segments, NEW g \in Nat, NEW o \in Answers(segments, g),
           NEW ref \in RefsIn(segments, g), \A j \in 1..Len(o) : Comes(o[j], ref)
    PROVE  Append(o, ref) \in Answers(segments, g)
<1> DEFINE q == Append(o, ref)
<1>1. o \in Seq(RefsIn(segments, g)) /\ Len(o) \in Nat
  BY DEF Answers
<1>2. /\ q \in Seq(RefsIn(segments, g)) /\ Len(q) = Len(o) + 1 /\ q[Len(o) + 1] = ref
      /\ \A i \in 1..Len(o) : q[i] = o[i]
  BY <1>1, AppendProperties
<1> HIDE DEF q
<1>3. ASSUME NEW i \in 1..Len(q), NEW j \in 1..i - 1 PROVE Comes(q[j], q[i])
  <2>1. j \in 1..Len(o) /\ q[j] = o[j] /\ (i \in 1..Len(o) \/ i = Len(o) + 1)
    BY <1>1, <1>2
  <2>2. CASE i \in 1..Len(o)
    BY <1>2, <2>1, <2>2 DEF Answers
  <2>3. CASE i = Len(o) + 1
    BY <1>2, <2>1, <2>3
  <2> QED BY <2>1, <2>2, <2>3
<1> QED BY <1>2, <1>3 DEF Answers, q

LEMMA ItemAnswer ==
    ASSUME NEW segments \in Seq(Seq(Nat)), NEW g \in 1..Len(segments), NEW o \in Answers(segments, g),
           NEW position \in Int
    PROVE  WithItem(o, g, segments[g], position) \in Answers(segments, g)
<1> DEFINE indices == segments[g]  k == position + 1
           ref == [memory |-> indices[k], segment |-> g]
<1>1. o \in Seq(RefsIn(segments, g)) /\ Len(o) \in Nat /\ DOMAIN o = 1..Len(o)
  BY LenProperties DEF Answers
<1>2. CASE k \in DOMAIN indices /\ ~Found(o, indices[k])
  <2>1. indices \in Seq(Nat) /\ DOMAIN indices = 1..Len(indices)
    BY ElementOfSeq, LenProperties
  <2>2. indices[k] \in Nat
    BY <1>2, <2>1, ElementOfSeq
  <2>3. ref \in RefsIn(segments, g)
    BY <1>2, <2>2 DEF RefsIn
  <2>4. \A j \in 1..Len(o) : Comes(o[j], ref)
    <3> TAKE j \in 1..Len(o)
    <3>1. o[j] \in RefsIn(segments, g)
      BY <1>1, ElementOfSeq
    <3>2. o[j].segment \in 1..g
      BY <3>1 DEF RefsIn
    <3>3. o[j].memory # indices[k]
      BY <1>1, <1>2 DEF Found
    <3> QED BY <3>2, <3>3 DEF Comes
  <2>5. WithItem(o, g, indices, position) = Append(o, ref)
    BY <1>2 DEF WithItem, Ref
  <2> HIDE DEF ref
  <2> QED BY <2>3, <2>4, <2>5, AppendedAnswer
<1>3. CASE ~(k \in DOMAIN indices /\ ~Found(o, indices[k]))
  BY <1>3 DEF WithItem
<1> QED BY <1>2, <1>3

LEMMA MergedAnswer ==
    ASSUME NEW segments \in Seq(Seq(Nat)), NEW done \in Nat, done + 1 \in 1..Len(segments),
           NEW o \in Answers(segments, done), NEW ranked \in Seq(Int)
    PROVE  Merged(o, done + 1, segments[done + 1], ranked) \in Answers(segments, done + 1)
<1>1. PICK g : g = done + 1
  OBVIOUS
<1>2. g \in 1..Len(segments) /\ Len(ranked) \in Nat /\ g \in Nat /\ 1..done \subseteq 1..g
  BY <1>1
<1>3. o \in Answers(segments, g)
  <2>1. RefsIn(segments, done) \subseteq RefsIn(segments, g)
    BY <1>2 DEF RefsIn
  <2>2. o \in Seq(RefsIn(segments, g))
    BY <2>1, SeqMonotonic DEF Answers
  <2> QED BY <2>2 DEF Answers
<1>4. PICK f : MergeRun(f, o, g, segments[g], ranked)
  BY <1>2, MergedRuns
<1>5. /\ f[0] = o
      /\ \A n \in 1..Len(ranked) : f[n] = WithItem(f[n - 1], g, segments[g], ranked[n])
      /\ Merged(o, g, segments[g], ranked) = f[Len(ranked)]
  BY <1>4 DEF MergeRun
<1> DEFINE S == {n \in 0..Len(ranked) : f[n] \in Answers(segments, g)}
<1>6. 0 \in S
  BY <1>2, <1>3, <1>5
<1>7. ASSUME NEW n \in 1..Len(ranked), n - 1 \in S PROVE n \in S
  <2>1. f[n - 1] \in Answers(segments, g) /\ n \in 0..Len(ranked) /\ ranked[n] \in Int
    BY <1>7, ElementOfSeq
  <2>2. f[n] = WithItem(f[n - 1], g, segments[g], ranked[n])
    BY <1>5
  <2>3. f[n] \in Answers(segments, g)
    BY <1>2, <2>1, <2>2, ItemAnswer
  <2> QED BY <2>1, <2>3
<1> HIDE DEF S
<1>8. Len(ranked) \in S
  <2>1. \A n \in 0..Len(ranked) : n \in S
    BY <1>2, <1>6, <1>7, UpTo
  <2> QED BY <1>2, <2>1
<1> QED BY <1>1, <1>5, <1>8 DEF S

(* No segment has more than top_k results before another of its own. *)
AtMost(o, top_k) ==
    top_k > 0 => \A i \in 1..Len(o) :
                    Cardinality({j \in 1..i - 1 : o[j].segment = o[i].segment}) < top_k

LEMMA LimitedAnswer ==
    ASSUME NEW segments, NEW g \in Nat, NEW o \in Answers(segments, g), NEW top_k \in Nat
    PROVE  Limited(o, top_k) \in Answers(segments, g) /\ AtMost(Limited(o, top_k), top_k)
<1> DEFINE L == Len(o)
           Part(n) == {q \in Answers(segments, g) :
                          /\ AtMost(q, top_k)
                          /\ \A i \in 1..Len(q) : \E j \in 1..n : q[i] = o[j]}
<1>1. o \in Seq(RefsIn(segments, g)) /\ L \in Nat
  BY DEF Answers
<1>2. PICK f : /\ f[0] = <<>>
               /\ \A n \in 1..L : f[n] = Kept(f[n - 1], o[n], top_k)
               /\ Limited(o, top_k) = f[L]
  BY <1>1, LimitedRuns DEF LimitRun
<1> HIDE DEF L
<1> DEFINE S == {n \in 0..L : f[n] \in Part(n)}
<1>3. 0 \in S
  <2>1. <<>> \in Seq(RefsIn(segments, g)) /\ Len(<<>>) = 0
    OBVIOUS
  <2>2. <<>> \in Answers(segments, g) /\ AtMost(<<>>, top_k)
    BY <2>1 DEF Answers, AtMost
  <2>3. \A i \in 1..Len(<<>>) : FALSE
    BY <2>1
  <2> QED BY <1>1, <1>2, <2>2, <2>3
<1>4. ASSUME NEW n \in 1..L, n - 1 \in S PROVE n \in S
  <2>1. PICK q : q = f[n - 1]
    OBVIOUS
  <2>2. PICK ref : ref = o[n]
    OBVIOUS
  <2>3. /\ q \in Answers(segments, g) /\ AtMost(q, top_k)
        /\ \A i \in 1..Len(q) : \E j \in 1..n - 1 : q[i] = o[j]
        /\ n \in 0..L
    BY <1>4, <2>1
  <2>4. q \in Seq(RefsIn(segments, g)) /\ Len(q) \in Nat /\ DOMAIN q = 1..Len(q)
    BY <2>3, LenProperties DEF Answers
  <2>5. f[n] = Kept(q, ref, top_k)
    BY <1>2, <2>1, <2>2
  <2> DEFINE T == {i \in DOMAIN q : q[i].segment = ref.segment}
  <2>6. CASE top_k > 0 /\ Cardinality(T) >= top_k
    <3>1. f[n] = q
      BY <2>5, <2>6 DEF Kept
    <3>2. \A i \in 1..Len(q) : \E j \in 1..n : q[i] = o[j]
      <4>1. \A j \in 1..n - 1 : j \in 1..n
        OBVIOUS
      <4> QED BY <2>3, <4>1
    <3> QED BY <2>3, <3>1, <3>2
  <2>7. CASE ~(top_k > 0 /\ Cardinality(T) >= top_k)
    <3> DEFINE r == Append(q, ref)
    <3>1. f[n] = r
      BY <2>5, <2>7 DEF Kept
    <3>2. ref \in RefsIn(segments, g)
      BY <1>1, <2>2, ElementOfSeq DEF L
    <3>3. \A j \in 1..Len(q) : Comes(q[j], ref)
      <4> TAKE j \in 1..Len(q)
      <4>1. PICK k \in 1..n - 1 : q[j] = o[k]
        BY <2>3
      <4>2. Comes(o[k], o[n])
        BY <4>1 DEF Answers, L
      <4> QED BY <2>2, <4>1, <4>2
    <3>4. r \in Answers(segments, g)
      BY <2>3, <3>2, <3>3, AppendedAnswer
    <3>5. /\ Len(r) = Len(q) + 1 /\ r[Len(q) + 1] = ref
          /\ \A i \in 1..Len(q) : r[i] = q[i]
      BY <2>4, <3>2, AppendProperties
    <3> HIDE DEF r
    <3>6. AtMost(r, top_k)
      <4> SUFFICES ASSUME top_k > 0, NEW i \in 1..Len(r)
                   PROVE  Cardinality({j \in 1..i - 1 : r[j].segment = r[i].segment}) < top_k
        BY DEF AtMost
      <4>1. CASE i \in 1..Len(q)
        <5>1. \A j \in 1..i - 1 : j \in 1..Len(q)
          BY <2>4, <4>1
        <5>2. {j \in 1..i - 1 : r[j].segment = r[i].segment}
                = {j \in 1..i - 1 : q[j].segment = q[i].segment}
          BY <3>5, <4>1, <5>1
        <5> QED BY <2>3, <4>1, <5>2 DEF AtMost
      <4>2. CASE i = Len(q) + 1
        <5>1. 1..i - 1 = DOMAIN q /\ \A j \in DOMAIN q : r[j] = q[j]
          BY <2>4, <3>5, <4>2
        <5>2. {j \in 1..i - 1 : r[j].segment = r[i].segment} = T
          BY <3>5, <4>2, <5>1
        <5>3. Cardinality(T) \in Nat
          <6>1. IsFiniteSet(DOMAIN q)
            BY <2>4, FS_Interval
          <6>2. T \in SUBSET DOMAIN q
            OBVIOUS
          <6>3. IsFiniteSet(T)
            BY <6>1, <6>2, FS_Subset
          <6> QED BY <6>3, FS_CardinalityType
        <5>4. Cardinality(T) < top_k
          BY <2>7, <5>3
        <5> QED BY <5>2, <5>4
      <4> QED BY <2>4, <3>5, <4>1, <4>2
    <3>7. \A i \in 1..Len(r) : \E j \in 1..n : r[i] = o[j]
      <4> TAKE i \in 1..Len(r)
      <4>1. CASE i \in 1..Len(q)
        <5>1. PICK k \in 1..n - 1 : q[i] = o[k]
          BY <2>3, <4>1
        <5>2. k \in 1..n
          BY <5>1
        <5> QED BY <3>5, <4>1, <5>1, <5>2
      <4>2. CASE i = Len(q) + 1
        <5>1. n \in 1..n
          OBVIOUS
        <5> QED BY <2>2, <3>5, <4>2, <5>1
      <4> QED BY <2>4, <3>5, <4>1, <4>2
    <3> QED BY <2>3, <3>1, <3>4, <3>6, <3>7
  <2> QED BY <2>6, <2>7
<1>5. L \in S
  <2> HIDE DEF S
  <2>1. \A n \in 0..L : n \in S
    BY <1>1, <1>3, <1>4, UpTo
  <2> QED BY <1>1, <2>1
<1> QED BY <1>2, <1>5

(* The count of a segment is one. *)
LEMMA PlannedIsCounted ==
    ASSUME NEW ms \in Lists(MaxMemories), NEW s, Planned(ms, s)
    PROVE  TokensIn(ms, s) \in Nat
<1>1. PICK x : x = s.indices
  OBVIOUS
<1>2. x \in Seq(1..Len(ms)) /\ x # <<>> /\ Len(x) <= LastOf(x)
  BY <1>1 DEF Planned, Shaped
<1>3. Len(x) \in 1..Len(x) /\ Len(x) \in Nat
  BY <1>2
<1>4. LastOf(x) \in 1..Len(ms)
  BY <1>2, <1>3, ElementOfSeq DEF LastOf
<1>5. Len(ms) \in Nat /\ Len(ms) <= MaxMemories /\ MaxMemories \in Nat
  BY ListsAre, BoundsAssumption
<1>6. Len(x) <= MaxMemories
  BY <1>2, <1>3, <1>4, <1>5
<1>7. Tokens(TextsOf(ms, x)) \in Nat
  BY <1>2, <1>6, TextsAreList
<1> QED BY <1>1, <1>7 DEF TokensIn

-----------------------------------------------------------------------------
(* Searches read the session and change nothing of it: what SegmentPlanner *)
(* promises of a session, its sessions with searches keep                  *)
(* (run_search and run_oneshot_search take the session by const reference).*)
THEOREM SearchesLeaveSession == AllSpec => Spec
<1>1. AllInit => Init
  BY DEF AllInit
<1>2. [AllNext]_allVars => [Next]_vars
  <2>1. SearchStep /\ UNCHANGED vars => [Next]_vars
    OBVIOUS
  <2>2. SessionStep => [Next]_vars
    BY DEF SessionStep
  <2>3. Crash => [Next]_vars
    BY DEF Crash, Next
  <2>4. UNCHANGED allVars => UNCHANGED vars
    BY DEF allVars
  <2> QED BY <2>1, <2>2, <2>3, <2>4 DEF AllNext
<1> QED BY <1>1, <1>2, PTL DEF AllSpec, Spec

LEMMA SessionInv == AllSpec => []IInv
BY SearchesLeaveSession, IInvAlways, PTL

(* The segments planned so far for a oneshot search of ms. *)
OneshotCut(ms, segments, done) ==
    /\ segments \in PlansFor(ms)
    /\ \A g \in 1..Len(segments) :
          /\ TokensIn(ms, segments[g]) <= limit
          /\ Len(segments[g].indices) > 1 => TokensIn(ms, segments[g]) <= SoftLimit
    /\ \E head, number : /\ Follows(IndicesIn(segments), head, number, done)
                         /\ EndOf(IndicesIn(segments)) = done

Planning ==
    /\ search.memories \in Lists(MaxMemories)
    /\ search.done \in 0..Len(search.memories)
    /\ OneshotCut(search.memories, search.segments, search.done)

Ranked ==
    /\ search.segments \in Seq(Seq(Nat))
    /\ search.done \in 0..Len(search.segments)
    /\ search.ordered \in Answers(search.segments, search.done)

Answered ==
    /\ search.segments \in Seq(Seq(Nat)) /\ search.top_k \in Nat
    /\ search.ordered \in Answers(search.segments, Len(search.segments))
    /\ AtMost(search.ordered, search.top_k)

SearchInv ==
    /\ search = [at |-> search.at, memories |-> search.memories, segments |-> search.segments,
                 done |-> search.done, ordered |-> search.ordered, top_k |-> search.top_k]
    /\ search.at = "plan" => Planning
    /\ search.at = "rank" => Ranked
    /\ search.at = "answered" => Answered

LEMMA NoSearchInv == search = NoSearch => SearchInv
BY DEF NoSearch, SearchInv

(* The memories of planned segments, with which a search starts. *)
LEMMA RankingInv ==
    ASSUME NEW ms \in Lists(MaxMemories), NEW p \in PlansFor(ms), search' = Ranking(p)
    PROVE  SearchInv'
<1>1. IndicesOf(p) = IndicesIn(p) /\ IndicesIn(p) \in Seq(Seq(Nat))
  BY IndicesInPlan DEF IndicesOf, IndicesIn
<1>2. search' = [at |-> "rank", memories |-> <<>>, segments |-> IndicesIn(p), done |-> 0,
                 ordered |-> <<>>, top_k |-> 0]
  BY <1>1 DEF Ranking, NoSearch
<1>3. 0 \in 0..Len(IndicesIn(p))
  BY <1>1, LenProperties
<1>4. <<>> \in Answers(IndicesIn(p), 0)
  BY DEF Answers
<1>5. Ranked'
  BY <1>1, <1>2, <1>3, <1>4 DEF Ranked
<1> QED BY <1>2, <1>5 DEF SearchInv

LEMMA BeginSearchInv == IInv /\ BeginSearch => SearchInv'
<1> SUFFICES ASSUME IInv, BeginSearch PROVE SearchInv'
  OBVIOUS
<1>1. memories \in Lists(MaxMemories) /\ plan \in PlansFor(memories)
  BY FactsAre DEF IInv, PlanInv, BeginSearch, Ready
<1> QED BY <1>1, RankingInv DEF BeginSearch

LEMMA BeginOneshotInv ==
    ASSUME NEW ms \in Lists(MaxMemories), BeginOneshot(ms) PROVE SearchInv'
<1>1. search' = [at |-> "plan", memories |-> ms, segments |-> <<>>, done |-> 0,
                 ordered |-> <<>>, top_k |-> 0]
  BY DEF BeginOneshot, NoSearch
<1>2. Len(ms) \in Nat /\ 0 \in 0..Len(ms)
  BY ListsAre, LenProperties
<1>3. <<>> \in PlansFor(ms) /\ Len(<<>>) = 0
  BY EmptyPlan
<1>4. <<>> \in PlansFor(ms)'
  BY <1>3 DEF PlansFor, Planned, Shaped, Counted, TokensIn
<1>5. OneshotCut(ms, <<>>, 0)'
  BY <1>3, <1>4, EmptyFollows DEF OneshotCut, PlansFor, Planned, Shaped, Counted, TokensIn
<1>6. Planning'
  BY <1>1, <1>2, <1>5 DEF Planning, OneshotCut, PlansFor, Planned, Shaped, Counted, TokensIn
<1> QED BY <1>1, <1>6 DEF SearchInv

(* The cut of a oneshot search, one memory further. *)
LEMMA OneshotFurther ==
    ASSUME limit \in Contexts, NEW ms \in Lists(MaxMemories), NEW m \in 1..Len(ms), NEW p,
           OneshotCut(ms, p, m - 1), Admitted(ms, p, m, FALSE, limit)
    PROVE  OneshotCut(ms, Placed(ms, p, m, FALSE), m)
<1>1. PICK q : q = Placed(ms, p, m, FALSE)
  OBVIOUS
<1>2. m \in Nat /\ m - 1 \in Nat /\ m \in 1..m /\ m - 1 <= m
  BY ListsAre, LenProperties
<1>3. PICK head, number : /\ p \in PlansFor(ms) /\ Follows(IndicesIn(p), head, number, m - 1)
                          /\ EndOf(IndicesIn(p)) = m - 1
  BY DEF OneshotCut
<1> DEFINE x == IndicesIn(p)  l == Len(p)  st == Starts(ms, p, m, FALSE)
<1>4. /\ l \in Nat /\ Len(x) = l /\ (x = <<>> <=> p = <<>>) /\ (p = <<>> <=> l = 0)
      /\ \A g \in 1..l : x[g] = p[g].indices
  BY <1>3, IndicesInPlan, EmptySeq DEF PlansFor
<1>5. p # <<>> => LastOf(LastOf(p).indices) < m
  <2> HAVE p # <<>>
  <2>1. l \in 1..l
    BY <1>4
  <2>2. LastOf(x) = LastOf(p).indices
    BY <1>4, <2>1 DEF LastOf
  <2> QED BY <1>2, <1>3, <1>4, <2>2 DEF EndOf
<1>6. /\ q \in PlansFor(ms)
      /\ \A g \in 1..Len(q) : \/ TokensIn(ms, q[g]) <= SoftLimit
                              \/ TokensIn(ms, q[g]) <= limit /\ q[g].indices = <<m>>
                              \/ g \in 1..Len(p) /\ q[g] = p[g]
  <2>1. FALSE \in BOOLEAN
    OBVIOUS
  <2> QED BY <1>1, <1>3, <1>5, <2>1, PlacedIsPlanned
<1>7. ASSUME NEW g \in 1..Len(q)
      PROVE  /\ TokensIn(ms, q[g]) <= limit
             /\ Len(q[g].indices) > 1 => TokensIn(ms, q[g]) <= SoftLimit
  <2>1. CASE TokensIn(ms, q[g]) <= SoftLimit
    <3>1. TokensIn(ms, q[g]) \in Nat
      BY <1>6, PlannedIsCounted DEF PlansFor
    <3>2. SoftLimit \in Nat /\ limit \in Nat /\ SoftLimit <= limit
      BY SoftBelow, BoundsAssumption
    <3> QED BY <2>1, <3>1, <3>2
  <2>2. CASE TokensIn(ms, q[g]) <= limit /\ q[g].indices = <<m>>
    <3>1. Len(<<m>>) = 1
      OBVIOUS
    <3> QED BY <2>2, <3>1
  <2>3. CASE g \in 1..Len(p) /\ q[g] = p[g]
    BY <2>3 DEF OneshotCut
  <2> QED BY <1>6, <2>1, <2>2, <2>3
<1> DEFINE others == [i \in 1..m |-> IF i = m THEN IF st THEN m ELSE head[m - 1] ELSE head[i]]
           places == [i \in 1..m |-> IF i = m THEN IF st THEN l + 1 ELSE number[m - 1]
                                     ELSE number[i]]
<1>8. \A i \in 1..m - 1 : others[i] = head[i] /\ places[i] = number[i]
  <2> TAKE i \in 1..m - 1
  <2>1. i \in 1..m /\ i # m
    BY <1>2
  <2> QED BY <2>1
<1>9. others[m] = (IF st THEN m ELSE head[m - 1]) /\ places[m] = (IF st THEN l + 1 ELSE number[m - 1])
  BY <1>2
<1>10. x # <<>> => others[m - 1] = head[m - 1] /\ places[m - 1] = number[m - 1]
  <2> HAVE x # <<>>
  <2>1. m # 1
    BY <1>2, <1>3, LastFollows
  <2>2. m - 1 \in 1..m - 1
    BY <1>2, <2>1
  <2> HIDE DEF others, places
  <2> QED BY <1>8, <2>2
<1> HIDE DEF others, places
<1>11. Follows(x, others, places, m)
  <2>1. PICK n \in Nat : n = m - 1
    BY <1>2
  <2>2. n <= m /\ Follows(x, head, number, n)
    BY <1>2, <1>3, <2>1
  <2>3. \A i \in 1..n : others[i] = head[i] /\ places[i] = number[i]
    BY <1>8, <2>1
  <2> HIDE DEF x
  <2> QED BY <1>2, <2>2, <2>3, FollowsAgree
<1>12. IF st THEN IndicesIn(q) = Append(x, <<m>>)
       ELSE p # <<>> /\ IndicesIn(q) = [x EXCEPT ![Len(x)] = Append(@, m)]
  <2>1. PICK manual : manual = FALSE
    OBVIOUS
  <2>2. Placed(ms, p, m, manual) \in PlansFor(ms) /\ p \in PlansFor(ms)
    BY <1>1, <1>3, <1>6, <2>1
  <2>3. LET y == IndicesIn(p)  z == IndicesIn(Placed(ms, p, m, manual))
        IN IF Starts(ms, p, m, manual) THEN z = Append(y, <<m>>)
           ELSE p # <<>> /\ z = [y EXCEPT ![Len(y)] = Append(@, m)]
    BY <2>2, PlacedIndices
  <2> QED BY <1>1, <2>1, <2>3
<1>13. EndOf(x) = m - 1
  BY <1>3
<1> HIDE DEF x, st
<1>14. Follows(IndicesIn(q), others, places, m) /\ EndOf(IndicesIn(q)) = m
  <2>1. CASE st
    <3>1. others[m] = m /\ places[m] = Len(x) + 1
      BY <1>4, <1>9, <2>1
    <3>2. Follows(Append(x, <<m>>), others, places, m) /\ EndOf(Append(x, <<m>>)) = m
      BY <1>2, <1>11, <1>13, <3>1, FollowsWithNew
    <3> QED BY <1>12, <2>1, <3>2
  <2>2. CASE ~st
    <3>1. x # <<>>
      BY <1>4, <1>12, <2>2
    <3>2. others[m] = others[m - 1] /\ places[m] = places[m - 1]
      BY <1>9, <1>10, <2>2, <3>1
    <3>3. LET y == [x EXCEPT ![Len(x)] = Append(@, m)]
          IN Follows(y, others, places, m) /\ EndOf(y) = m
      BY <1>2, <1>11, <1>13, <3>1, <3>2, FollowsWithMore
    <3> QED BY <1>12, <2>2, <3>3
  <2> QED BY <2>1, <2>2
<1>15. OneshotCut(ms, q, m)
  BY <1>6, <1>7, <1>14 DEF OneshotCut
<1> QED BY <1>1, <1>15

LEMMA OneshotPlaceInv == IInv /\ SearchInv /\ OneshotPlace /\ UNCHANGED vars => SearchInv'
<1> SUFFICES ASSUME IInv, SearchInv, OneshotPlace, UNCHANGED vars PROVE SearchInv'
  OBVIOUS
<1>1. PICK m : m = search.done + 1
  OBVIOUS
<1>2. PICK ms : ms = search.memories
  OBVIOUS
<1>3. PICK p : p = search.segments
  OBVIOUS
<1>4. /\ search.at = "plan" /\ m <= Len(ms)
      /\ search' = IF Admitted(ms, p, m, FALSE, limit)
                   THEN [search EXCEPT !.segments = Placed(ms, p, m, FALSE), !.done = m]
                   ELSE NoSearch
  BY <1>1, <1>2, <1>3 DEF OneshotPlace
<1>5. /\ ms \in Lists(MaxMemories) /\ Len(ms) \in Nat /\ search.done \in 0..Len(ms)
      /\ OneshotCut(ms, p, search.done)
  BY <1>2, <1>3, <1>4, ListsAre, LenProperties DEF SearchInv, Planning
<1>6. CASE Admitted(ms, p, m, FALSE, limit)
  <2>1. m \in 1..Len(ms) /\ m - 1 = search.done /\ m \in 0..Len(ms)
    BY <1>1, <1>4, <1>5
  <2>2. limit \in Contexts
    BY FactsAre DEF IInv
  <2>3. OneshotCut(ms, p, m - 1)
    BY <1>5, <2>1
  <2>4. OneshotCut(ms, Placed(ms, p, m, FALSE), m)
    BY <1>5, <1>6, <2>1, <2>2, <2>3, OneshotFurther
  <2>5. PICK q : q = Placed(ms, p, m, FALSE)
    OBVIOUS
  <2>6. search' = [at |-> "plan", memories |-> ms, segments |-> q, done |-> m,
                   ordered |-> search.ordered, top_k |-> search.top_k]
    <3>1. search' = [search EXCEPT !.segments = q, !.done = m]
      BY <1>4, <1>6, <2>5
    <3> QED BY <1>2, <1>4, <3>1 DEF SearchInv
  <2>7. OneshotCut(ms, q, m)'
    BY <2>4, <2>5 DEF OneshotCut, PlansFor, Planned, Shaped, Counted, TokensIn, SoftLimit, vars
  <2>8. Planning'
    BY <1>5, <2>1, <2>6, <2>7 DEF Planning, OneshotCut, PlansFor, Planned, Shaped, Counted,
       TokensIn, SoftLimit
  <2> QED BY <2>6, <2>8 DEF SearchInv
<1>7. CASE ~Admitted(ms, p, m, FALSE, limit)
  <2>1. (search = NoSearch)'
    BY <1>4, <1>7 DEF NoSearch
  <2> QED BY <2>1 DEF NoSearch, SearchInv
<1> QED BY <1>6, <1>7

LEMMA OneshotPlannedInv == SearchInv /\ OneshotPlanned => SearchInv'
<1> SUFFICES ASSUME SearchInv, OneshotPlanned PROVE SearchInv'
  OBVIOUS
<1>1. search.memories \in Lists(MaxMemories) /\ search.segments \in PlansFor(search.memories)
  BY DEF OneshotPlanned, SearchInv, Planning, OneshotCut
<1> QED BY <1>1, RankingInv DEF OneshotPlanned

LEMMA SearchSegmentInv ==
    ASSUME NEW ranked \in Rankings PROVE SearchInv /\ SearchSegment(ranked) => SearchInv'
<1> SUFFICES ASSUME SearchInv, SearchSegment(ranked) PROVE SearchInv'
  OBVIOUS
<1>1. PICK segments : segments = search.segments
  OBVIOUS
<1>2. PICK done : done = search.done
  OBVIOUS
<1>3. PICK o : o = search.ordered
  OBVIOUS
<1>4. /\ search.at = "rank" /\ done + 1 <= Len(segments)
      /\ search' = [search EXCEPT !.ordered = Merged(o, done + 1, segments[done + 1], ranked),
                                  !.done = done + 1]
  BY <1>1, <1>2, <1>3 DEF SearchSegment
<1>5. segments \in Seq(Seq(Nat)) /\ done \in 0..Len(segments) /\ o \in Answers(segments, done)
  BY <1>1, <1>2, <1>3, <1>4 DEF SearchInv, Ranked
<1>6. done \in Nat /\ done + 1 \in 1..Len(segments) /\ done + 1 \in 0..Len(segments)
      /\ ranked \in Seq(Int)
  BY <1>4, <1>5, SearchAssumption
<1>7. Merged(o, done + 1, segments[done + 1], ranked) \in Answers(segments, done + 1)
  BY <1>5, <1>6, MergedAnswer
<1>8. PICK r : r = Merged(o, done + 1, segments[done + 1], ranked)
  OBVIOUS
<1>9. search' = [at |-> "rank", memories |-> search.memories, segments |-> segments,
                 done |-> done + 1, ordered |-> r, top_k |-> search.top_k]
  <2>1. search' = [search EXCEPT !.ordered = r, !.done = done + 1]
    BY <1>4, <1>8
  <2> QED BY <1>1, <1>4, <2>1 DEF SearchInv
<1>10. Ranked'
  BY <1>5, <1>6, <1>7, <1>8, <1>9 DEF Ranked
<1> QED BY <1>9, <1>10 DEF SearchInv

LEMMA SearchEndInv ==
    ASSUME NEW top_k \in TopK PROVE SearchInv /\ SearchEnd(top_k) => SearchInv'
<1> SUFFICES ASSUME SearchInv, SearchEnd(top_k) PROVE SearchInv'
  OBVIOUS
<1>1. PICK segments : segments = search.segments
  OBVIOUS
<1>2. PICK o : o = search.ordered
  OBVIOUS
<1>3. PICK r : r = Limited(o, top_k)
  OBVIOUS
<1>4. /\ search.at = "rank" /\ search.done = Len(segments)
      /\ search' = [search EXCEPT !.at = "answered", !.ordered = r, !.top_k = top_k]
  BY <1>1, <1>2, <1>3 DEF SearchEnd
<1>5. segments \in Seq(Seq(Nat)) /\ o \in Answers(segments, Len(segments)) /\ top_k \in Nat
      /\ Len(segments) \in Nat
  BY <1>1, <1>2, <1>4, SearchAssumption DEF SearchInv, Ranked
<1>6. r \in Answers(segments, Len(segments)) /\ AtMost(r, top_k)
  BY <1>3, <1>5, LimitedAnswer
<1>7. search' = [at |-> "answered", memories |-> search.memories, segments |-> segments,
                 done |-> search.done, ordered |-> r, top_k |-> top_k]
  BY <1>1, <1>4 DEF SearchInv
<1>8. Answered'
  BY <1>5, <1>6, <1>7 DEF Answered
<1> QED BY <1>7, <1>8 DEF SearchInv

LEMMA SearchInvAlways == AllSpec => []SearchInv
<1>1. AllInit => SearchInv
  BY NoSearchInv DEF AllInit
<1>2. IInv /\ SearchInv /\ [AllNext]_allVars => SearchInv'
  <2> SUFFICES ASSUME IInv, SearchInv, [AllNext]_allVars PROVE SearchInv'
    OBVIOUS
  <2>1. CASE SearchStep /\ UNCHANGED vars
    <3>1. CASE BeginSearch
      BY <3>1, BeginSearchInv
    <3>2. CASE \E ms \in Lists(MaxMemories) : BeginOneshot(ms)
      BY <3>2, BeginOneshotInv
    <3>3. CASE OneshotPlace
      BY <2>1, <3>3, OneshotPlaceInv
    <3>4. CASE OneshotPlanned
      BY <3>4, OneshotPlannedInv
    <3>5. CASE \E ranked \in Rankings : SearchSegment(ranked)
      BY <3>5, SearchSegmentInv
    <3>6. CASE \E top_k \in TopK : SearchEnd(top_k)
      BY <3>6, SearchEndInv
    <3> QED BY <2>1, <3>1, <3>2, <3>3, <3>4, <3>5, <3>6 DEF SearchStep
  <2>2. CASE SessionStep \/ Crash
    <3>1. search' = NoSearch
      BY <2>2 DEF SessionStep, Crash
    <3> QED BY <3>1 DEF NoSearch, SearchInv
  <2>3. CASE UNCHANGED allVars
    BY <2>3 DEF allVars, vars, SearchInv, Planning, Ranked, Answered, OneshotCut, PlansFor, Planned,
       Shaped, Counted, TokensIn, SoftLimit
  <2> QED BY <2>1, <2>2, <2>3 DEF AllNext
<1> QED BY <1>1, <1>2, SessionInv, PTL DEF AllSpec

(* Whatever memories come with a oneshot search, each is planned once and  *)
(* in order, in segments that fit the context, and only a single memory    *)
(* passes the soft limit (rebuild_segment_plan_fast_for_oneshot).          *)
THEOREM OneshotAlwaysFits == AllSpec => []OneshotFits
<1>1. SearchInv => OneshotFits
  <2> SUFFICES ASSUME SearchInv, search.at = "plan" PROVE OneshotFits
    BY DEF OneshotFits
  <2>1. PICK p : p = search.segments
    OBVIOUS
  <2>2. PICK ms : ms = search.memories
    OBVIOUS
  <2>3. /\ ms \in Lists(MaxMemories) /\ p \in PlansFor(ms)
        /\ \A g \in 1..Len(p) :
              /\ TokensIn(ms, p[g]) <= limit
              /\ Len(p[g].indices) > 1 => TokensIn(ms, p[g]) <= SoftLimit
    BY <2>1, <2>2 DEF SearchInv, Planning, OneshotCut
  <2>4. PICK head, number : /\ Follows(IndicesIn(p), head, number, search.done)
                            /\ EndOf(IndicesIn(p)) = search.done
    BY <2>1, <2>2 DEF SearchInv, Planning, OneshotCut
  <2>5. PICK x : x = IndicesIn(p)
    OBVIOUS
  <2>6. /\ Len(p) \in Nat /\ DOMAIN p = 1..Len(p) /\ Len(x) = Len(p)
        /\ \A g \in 1..Len(p) : x[g] = p[g].indices
        /\ x = <<>> <=> p = <<>>
    BY <2>3, <2>5, IndicesInPlan
  <2>7. search.done = IF p = <<>> THEN 0 ELSE LastOf(LastOf(p).indices)
    <3>1. p # <<>> => Len(p) \in 1..Len(p)
      BY <2>3, <2>6, EmptySeq DEF PlansFor
    <3> QED BY <2>4, <2>5, <2>6, <3>1 DEF EndOf, LastOf
  <2>8. ASSUME NEW g \in 1..Len(p)
        PROVE  LET s == p[g].indices  tokens == Tokens(TextsOf(ms, s))
               IN /\ s = Run(s[1], LastOf(s))
                  /\ s[1] = IF g = 1 THEN 1 ELSE LastOf(p[g - 1].indices) + 1
                  /\ tokens <= limit
                  /\ Len(s) > 1 => tokens <= SoftLimit
    <3>1. g # 1 => g - 1 \in 1..Len(p) /\ x[g - 1] = p[g - 1].indices
      BY <2>6
    <3>2. /\ Holds(x[g], g, head, number, search.done)
          /\ x[g][1] = IF g = 1 THEN 1 ELSE LastOf(x[g - 1]) + 1
      BY <2>4, <2>5, <2>6 DEF Follows
    <3> QED BY <2>3, <2>6, <3>1, <3>2 DEF Holds, TokensIn
  <2> QED BY <2>1, <2>2, <2>6, <2>7, <2>8 DEF OneshotFits
<1> QED BY <1>1, SearchInvAlways, PTL

(* Whatever the library ranks, an answer names no memory twice, only       *)
(* memories of the segments it names, in the order of the segments, and no *)
(* more than top_k of each (merge_segment_ranked_results,                  *)
(* apply_search_result_limits).                                            *)
THEOREM AnswerAlwaysSound == AllSpec => []AnswerIsSound
<1>1. SearchInv => AnswerIsSound
  <2> SUFFICES ASSUME SearchInv, search.at = "answered", NEW i \in DOMAIN search.ordered
               PROVE  LET ref == search.ordered[i]
                          indices == search.segments[ref.segment]
                          before == {j \in 1..i - 1 : search.ordered[j].segment = ref.segment}
                      IN /\ \E k \in DOMAIN indices : indices[k] = ref.memory
                         /\ \A j \in 1..i - 1 : /\ search.ordered[j].memory # ref.memory
                                                /\ search.ordered[j].segment <= ref.segment
                         /\ search.top_k > 0 => Cardinality(before) < search.top_k
    BY DEF AnswerIsSound
  <2> DEFINE ref == search.ordered[i]
  <2>1. PICK o : o = search.ordered
    OBVIOUS
  <2>2. PICK segments : segments = search.segments
    OBVIOUS
  <2> HIDE DEF ref
  <2>3. o \in Answers(segments, Len(segments)) /\ AtMost(o, search.top_k)
    BY <2>1, <2>2 DEF SearchInv, Answered
  <2>4. o \in Seq(RefsIn(segments, Len(segments))) /\ i \in 1..Len(o)
    BY <2>1, <2>3, LenProperties DEF Answers
  <2>5. ref \in RefsIn(segments, Len(segments))
    BY <2>1, <2>4, ElementOfSeq DEF ref
  <2>6. \E k \in DOMAIN segments[ref.segment] : segments[ref.segment][k] = ref.memory
    BY <2>5 DEF RefsIn
  <2>7. \A j \in 1..i - 1 : Comes(o[j], ref)
    BY <2>1, <2>3, <2>4 DEF Answers, ref
  <2>8. search.top_k > 0 => Cardinality({j \in 1..i - 1 : o[j].segment = ref.segment}) < search.top_k
    BY <2>1, <2>3, <2>4 DEF AtMost, ref
  <2> QED BY <2>1, <2>2, <2>6, <2>7, <2>8 DEF Comes, ref
<1> QED BY <1>1, SearchInvAlways, PTL

-----------------------------------------------------------------------------
(* Members of a set of positions, counted up to one of them.               *)
Among(K, i) == K \cap (1..i)

LEMMA AmongGrows ==
    ASSUME NEW K, NEW i \in Nat
    PROVE  /\ Cardinality(Among(K, i)) \in Nat
           /\ i = 0 => Cardinality(Among(K, i)) = 0
           /\ i > 0 /\ i \in K => Cardinality(Among(K, i)) = Cardinality(Among(K, i - 1)) + 1
           /\ i > 0 /\ i \notin K => Among(K, i) = Among(K, i - 1)
           /\ \A j \in 1..i : j \in K => Cardinality(Among(K, j)) \in 1..Cardinality(Among(K, i))
<1>1. \A n \in Nat : IsFiniteSet(Among(K, n)) /\ Cardinality(Among(K, n)) \in Nat
  <2> TAKE n \in Nat
  <2>1. IsFiniteSet(1..n)
    BY FS_Interval
  <2> QED
    BY <2>1, FS_Intersection, FS_CardinalityType DEF Among
<1>2. ASSUME i = 0 PROVE Cardinality(Among(K, i)) = 0
  <2>1. Among(K, i) = {}
    BY <1>2 DEF Among
  <2> QED
    BY <2>1, FS_EmptySet
<1>3. ASSUME i > 0, i \in K PROVE Cardinality(Among(K, i)) = Cardinality(Among(K, i - 1)) + 1
  <2>1. Among(K, i) = Among(K, i - 1) \cup {i} /\ i \notin Among(K, i - 1) /\ i - 1 \in Nat
    BY <1>3 DEF Among
  <2> QED
    BY <1>1, <2>1, FS_AddElement
<1>4. ASSUME i > 0, i \notin K PROVE Among(K, i) = Among(K, i - 1)
  BY <1>4 DEF Among
<1>5. ASSUME NEW j \in 1..i, j \in K
      PROVE  Cardinality(Among(K, j)) \in 1..Cardinality(Among(K, i))
  <2>1. Among(K, j) \subseteq Among(K, i) /\ j \in Among(K, j)
    BY <1>5 DEF Among
  <2>2. Cardinality(Among(K, j)) <= Cardinality(Among(K, i))
    BY <1>1, <2>1, FS_Subset
  <2>3. Cardinality(Among(K, j)) # 0
    BY <1>1, <2>1, FS_EmptySet
  <2> QED
    BY <1>1, <2>2, <2>3
<1> QED
  BY <1>1, <1>2, <1>3, <1>4, <1>5

(* The positions of the results of a segment. *)
Of(ordered, s) == {i \in DOMAIN ordered : ordered[i].segment = s}

(* What q holds of the first n results: those that come first, and of      *)
(* every segment as many as there were, until there are top_k.             *)
FirstKept(o, top_k, q, n) ==
    LET first == FirstOf(o, top_k)
    IN /\ Len(q) = Cardinality(Among(first, n))
       /\ \A i \in Among(first, n) : q[Cardinality(Among(first, i))] = o[i]
       /\ top_k > 0 => \A s :
             LET had == Cardinality(Among(Of(o, s), n))
             IN IF had < top_k THEN Cardinality(Of(q, s)) = had ELSE Cardinality(Of(q, s)) >= top_k

LEMMA FirstKeptFurther ==
    ASSUME NEW S, NEW o \in Seq(S), NEW top_k \in Nat, NEW q \in Seq(S), NEW n \in 1..Len(o),
           FirstKept(o, top_k, q, n - 1)
    PROVE  Kept(q, o[n], top_k) \in Seq(S) /\ FirstKept(o, top_k, Kept(q, o[n], top_k), n)
<1> DEFINE first == FirstOf(o, top_k)
           s == o[n].segment
<1>1. /\ Len(o) \in Nat /\ DOMAIN o = 1..Len(o) /\ n \in Nat /\ n - 1 \in Nat /\ n > 0
      /\ Len(q) \in Nat /\ DOMAIN q = 1..Len(q) /\ o[n] \in S /\ n \in DOMAIN o
  BY LenProperties, ElementOfSeq
<1>2. Earlier(o, n) = Among(Of(o, s), n - 1)
  BY <1>1 DEF Earlier, Among, Of
<1>3. n \in first <=> top_k = 0 \/ Cardinality(Among(Of(o, s), n - 1)) < top_k
  BY <1>1, <1>2 DEF FirstOf
<1>4. \A t : IsFiniteSet(Of(q, t)) /\ Cardinality(Of(q, t)) \in Nat
  <2> TAKE t
  <2>1. IsFiniteSet(1..Len(q)) /\ Of(q, t) \subseteq 1..Len(q)
    BY <1>1, FS_Interval DEF Of
  <2> QED
    BY <2>1, FS_Subset, FS_CardinalityType
<1>5. \A t : /\ Cardinality(Among(Of(o, t), n - 1)) \in Nat
             /\ t = s => Cardinality(Among(Of(o, t), n)) = Cardinality(Among(Of(o, t), n - 1)) + 1
             /\ t # s => Among(Of(o, t), n) = Among(Of(o, t), n - 1)
  <2> TAKE t
  <2>1. n \in Of(o, t) <=> t = s
    BY <1>1 DEF Of
  <2> QED
    BY <1>1, <2>1, AmongGrows
<1>6. /\ Len(q) = Cardinality(Among(first, n - 1))
      /\ \A i \in Among(first, n - 1) : q[Cardinality(Among(first, i))] = o[i]
      /\ top_k > 0 => \A t :
            /\ Cardinality(Among(Of(o, t), n - 1)) < top_k
               => Cardinality(Of(q, t)) = Cardinality(Among(Of(o, t), n - 1))
            /\ ~(Cardinality(Among(Of(o, t), n - 1)) < top_k) => Cardinality(Of(q, t)) >= top_k
  BY DEF FirstKept
<1> HIDE DEF first, s
<1>7. CASE n \in first
  <2> DEFINE r == Append(q, o[n])
  <2>1. top_k > 0 => Cardinality(Of(q, s)) = Cardinality(Among(Of(o, s), n - 1))
                     /\ Cardinality(Of(q, s)) < top_k
    BY <1>3, <1>6, <1>7
  <2>2. Kept(q, o[n], top_k) = r
    <3>1. ~(top_k > 0 /\ Cardinality(Of(q, s)) >= top_k)
      BY <1>4, <2>1
    <3> QED
      BY <3>1 DEF Kept, Of, s
  <2>3. /\ r \in Seq(S) /\ Len(r) = Len(q) + 1 /\ r[Len(q) + 1] = o[n]
        /\ \A i \in 1..Len(q) : r[i] = q[i]
    BY <1>1, AppendProperties
  <2>4. DOMAIN r = 1..Len(q) + 1
    BY <2>3, LenProperties
  <2> HIDE DEF r
  <2>5. Cardinality(Among(first, n)) = Cardinality(Among(first, n - 1)) + 1
    BY <1>1, <1>7, AmongGrows
  <2>6. ASSUME NEW i \in Among(first, n) PROVE r[Cardinality(Among(first, i))] = o[i]
    <3>1. CASE i = n
      BY <1>6, <2>3, <2>5, <3>1
    <3>2. CASE i # n
      <4>1. i \in 1..n - 1 /\ i \in first /\ i \in Among(first, n - 1)
        BY <1>1, <3>2 DEF Among
      <4>2. Cardinality(Among(first, i)) \in 1..Len(q)
        BY <1>1, <1>6, <4>1, AmongGrows
      <4> QED
        BY <1>6, <2>3, <4>1, <4>2
    <3> QED
      BY <3>1, <3>2
  <2>7. ASSUME top_k > 0, NEW t
        PROVE  LET had == Cardinality(Among(Of(o, t), n))
               IN IF had < top_k THEN Cardinality(Of(r, t)) = had ELSE Cardinality(Of(r, t)) >= top_k
    <3>1. CASE t = s
      <4>1. Of(r, t) = Of(q, t) \cup {Len(q) + 1} /\ Len(q) + 1 \notin Of(q, t)
        BY <1>1, <2>3, <2>4, <3>1 DEF Of, s
      <4>2. Cardinality(Of(r, t)) = Cardinality(Of(q, t)) + 1
        BY <1>4, <4>1, FS_AddElement
      <4>3. Cardinality(Among(Of(o, t), n)) = Cardinality(Of(r, t))
        BY <1>5, <2>1, <2>7, <3>1, <4>2
      <4>4. Cardinality(Of(r, t)) \in Nat
        BY <1>4, <4>2
      <4> QED
        BY <4>3, <4>4
    <3>2. CASE t # s
      <4>1. Of(r, t) = Of(q, t)
        BY <1>1, <2>3, <2>4, <3>2 DEF Of, s
      <4> QED
        BY <1>5, <1>6, <2>7, <3>2, <4>1
    <3> QED
      BY <3>1, <3>2
  <2>8. FirstKept(o, top_k, r, n)
    BY <1>6, <2>3, <2>5, <2>6, <2>7 DEF FirstKept, first
  <2> QED
    BY <2>2, <2>3, <2>8
<1>8. CASE n \notin first
  <2>1. top_k > 0 /\ ~(Cardinality(Among(Of(o, s), n - 1)) < top_k) /\ Cardinality(Of(q, s)) >= top_k
    BY <1>3, <1>6, <1>8
  <2>2. Kept(q, o[n], top_k) = q
    BY <2>1 DEF Kept, Of, s
  <2>3. Among(first, n) = Among(first, n - 1)
    BY <1>1, <1>8, AmongGrows
  <2>4. ASSUME NEW t
        PROVE  LET had == Cardinality(Among(Of(o, t), n))
               IN IF had < top_k THEN Cardinality(Of(q, t)) = had ELSE Cardinality(Of(q, t)) >= top_k
    <3>1. CASE t = s
      <4>1. ~(Cardinality(Among(Of(o, t), n)) < top_k)
        BY <1>5, <2>1, <3>1
      <4> QED
        BY <2>1, <3>1, <4>1
    <3>2. CASE t # s
      BY <1>5, <1>6, <2>1, <3>2
    <3> QED
      BY <3>1, <3>2
  <2>5. FirstKept(o, top_k, q, n)
    BY <1>6, <2>3, <2>4 DEF FirstKept, first
  <2> QED
    BY <2>2, <2>5
<1> QED
  BY <1>7, <1>8

LEMMA LimitedIsFirst ==
    ASSUME NEW S, NEW o \in Seq(S), NEW top_k \in Nat
    PROVE  /\ Len(Limited(o, top_k)) = Cardinality(FirstOf(o, top_k))
           /\ \A i \in FirstOf(o, top_k) :
                 Limited(o, top_k)[Cardinality(FirstOf(o, top_k) \cap (1..i))] = o[i]
<1> DEFINE L == Len(o)
<1>1. L \in Nat /\ DOMAIN o = 1..L
  BY LenProperties
<1>2. PICK f : /\ f[0] = <<>>
               /\ \A n \in 1..L : f[n] = Kept(f[n - 1], o[n], top_k)
               /\ Limited(o, top_k) = f[L]
  BY <1>1, LimitedRuns DEF LimitRun
<1> DEFINE R == {n \in 0..L : f[n] \in Seq(S) /\ FirstKept(o, top_k, f[n], n)}
<1>3. 0 \in R
  <2>1. f[0] \in Seq(S) /\ Len(f[0]) = 0 /\ DOMAIN f[0] = {}
    BY <1>2
  <2>2. \A K : Cardinality(Among(K, 0)) = 0 /\ Among(K, 0) = {}
    <3>1. 1..0 = {}
      OBVIOUS
    <3>2. \A K : Among(K, 0) = {}
      BY <3>1 DEF Among
    <3> QED
      BY <3>2, FS_EmptySet
  <2>3. \A t : Cardinality(Of(f[0], t)) = 0
    BY <2>1, FS_EmptySet DEF Of
  <2>4. FirstKept(o, top_k, f[0], 0)
    BY <2>1, <2>2, <2>3 DEF FirstKept
  <2> QED
    BY <1>1, <2>1, <2>4
<1>4. ASSUME NEW n \in 1..L, n - 1 \in R PROVE n \in R
  <2>1. f[n - 1] \in Seq(S) /\ FirstKept(o, top_k, f[n - 1], n - 1) /\ n \in 0..L
    BY <1>1, <1>4
  <2>2. f[n] = Kept(f[n - 1], o[n], top_k)
    BY <1>2
  <2>3. f[n] \in Seq(S) /\ FirstKept(o, top_k, f[n], n)
    BY <2>1, <2>2, FirstKeptFurther
  <2> QED
    BY <2>1, <2>3
<1>5. L \in R
  <2> HIDE DEF R, L
  <2>1. \A n \in 0..L : n \in R
    BY <1>1, <1>3, <1>4, UpTo
  <2> QED
    BY <1>1, <2>1
<1>6. Among(FirstOf(o, top_k), L) = FirstOf(o, top_k)
  BY <1>1 DEF Among, FirstOf
<1>7. FirstKept(o, top_k, Limited(o, top_k), L)
  BY <1>2, <1>5
<1> QED
  BY <1>6, <1>7 DEF FirstKept, Among

(* The answer of every search, of a session or oneshot, is the first top_k *)
(* results of each segment and nothing else, in the order they were found  *)
(* (apply_search_result_limits).                                           *)
THEOREM SegmentsNeverCrowdedOut == AllSpec => NoSegmentCrowdedOut
<1>1. ASSUME SearchInv, NEW top_k \in TopK, SearchEnd(top_k)
      PROVE  LET first == FirstOf(search.ordered, top_k)
             IN /\ Len(search'.ordered) = Cardinality(first)
                /\ \A i \in first :
                      search'.ordered[Cardinality(first \cap (1..i))] = search.ordered[i]
  <2>1. PICK o : o = search.ordered
    OBVIOUS
  <2>2. PICK segments : segments = search.segments
    OBVIOUS
  <2>3. search.at = "rank" /\ search'.ordered = Limited(o, top_k)
    BY <1>1, <2>1 DEF SearchEnd, SearchInv
  <2>4. o \in Seq(RefsIn(segments, Len(segments))) /\ top_k \in Nat
    BY <1>1, <2>1, <2>2, <2>3, SearchAssumption DEF SearchInv, Ranked, Answers, SearchEnd
  <2>5. PICK kept, first : kept = Limited(o, top_k) /\ first = FirstOf(o, top_k)
    OBVIOUS
  <2>6. Len(kept) = Cardinality(first) /\ \A i \in first : kept[Cardinality(first \cap (1..i))] = o[i]
    BY <2>4, <2>5, LimitedIsFirst
  <2>7. search'.ordered = kept /\ FirstOf(search.ordered, top_k) = first
    BY <2>1, <2>3, <2>5
  <2> QED
    BY <2>1, <2>6, <2>7
<1>2. SearchInv /\ [AllNext]_allVars
      => [\A top_k \in TopK :
             SearchEnd(top_k) =>
                 LET first == FirstOf(search.ordered, top_k)
                 IN /\ Len(search'.ordered) = Cardinality(first)
                    /\ \A i \in first :
                          search'.ordered[Cardinality(first \cap (1..i))] = search.ordered[i]]_allVars
  BY <1>1
<1> QED
  BY <1>2, SearchInvAlways, PTL DEF AllSpec, NoSegmentCrowdedOut

=============================================================================
