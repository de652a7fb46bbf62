------------------------ MODULE SegmentPlanner_proofs ------------------------
(***************************************************************************)
(* Proofs about SegmentPlanner, for any texts, limits, contexts and for    *)
(* any tokenizer whose seams cost no more than the margin.                 *)
(***************************************************************************)
EXTENDS SegmentPlanner, SequenceTheorems, FiniteSetTheorems, TLAPS

(* A segment of ms that is well formed, and counted: its exact count is    *)
(* exact and its estimate is not too low.  Indices grow, so that a segment *)
(* has no more of them than its last one says.                             *)
TokensIn(ms, s) == Tokens(TextsOf(ms, s.indices))

Shaped(ms, s) ==
    /\ s \in [indices : Seq(1..Len(ms)), estimated : Nat, exact : Nat]
    /\ s.indices # <<>>
    /\ Len(s.indices) <= LastOf(s.indices)

Counted(ms, s) ==
    /\ s.exact # 0 => s.exact = TokensIn(ms, s)
    /\ TokensIn(ms, s) <= s.estimated

Planned(ms, s) == Shaped(ms, s) /\ Counted(ms, s)

PlansFor(ms) ==
    {p \in Seq([indices : Seq(1..Len(ms)), estimated : Nat, exact : Nat]) :
        Len(p) <= MaxSegments /\ \A g \in 1..Len(p) : Planned(ms, p[g])}

(* The limit that segments planned here keep to. *)
Fits(tokens) == tokens <= limit /\ (~foreign => tokens <= SoftLimit)

PlanInv ==
    plan # None \/ next # 0 =>
        /\ plan \in PlansFor(memories)
        /\ \A g \in 1..Len(plan) : Fits(TokensIn(memories, plan[g]))
        /\ plan # <<>> => LastOf(LastOf(plan).indices) <= PlannedTo

(* An entry of the manifest gives the tokens of its own texts. *)
Entries ==
    {e \in [indices : Seq(1..MaxMemories), texts : Lists(MaxMemories), tokens : Nat] :
        /\ e.indices # <<>>
        /\ Len(e.indices) <= LastOf(e.indices)
        /\ e.tokens = Tokens(e.texts)}

ManifestInv ==
    manifest # None =>
        /\ manifest \in Seq(Entries)
        /\ Len(manifest) \in 1..MaxSegments
        /\ ~foreign => \A i \in 1..Len(manifest) : manifest[i].tokens <= SoftLimit

FactsInv ==
    /\ memories \in Lists(MaxMemories)
    /\ boundaries \subseteq 2..MaxMemories + 1
    /\ saved \in [memories : Lists(MaxMemories), boundaries : SUBSET (2..MaxMemories + 1)]
    /\ next \in 0..Len(memories)
    /\ limit \in Contexts
    /\ foreign \in BOOLEAN /\ broken \in BOOLEAN

IInv == FactsInv /\ PlanInv /\ ManifestInv

-----------------------------------------------------------------------------
(* Lists, indices and the texts of a segment. *)

LEMMA ListsAre ==
    \A s : s \in Lists(MaxMemories) <=> s \in Seq(Texts) /\ Len(s) <= MaxMemories
<1>1. SUFFICES ASSUME NEW s PROVE s \in Lists(MaxMemories) <=> s \in Seq(Texts) /\ Len(s) <= MaxMemories
  OBVIOUS
<1>2. ASSUME s \in Lists(MaxMemories) PROVE s \in Seq(Texts) /\ Len(s) <= MaxMemories
  <2>1. PICK k \in 0..MaxMemories : s \in [1..k -> Texts]
    BY <1>2 DEF Lists
  <2>2. k \in Nat
    BY <2>1, BoundsAssumption
  <2>3. s \in Seq(Texts) /\ Len(s) = k
    BY <2>1, <2>2
  <2> QED BY <2>1, <2>2, <2>3, BoundsAssumption
<1>3. ASSUME s \in Seq(Texts), Len(s) <= MaxMemories PROVE s \in Lists(MaxMemories)
  <2>1. s \in [1..Len(s) -> Texts] /\ Len(s) \in 0..MaxMemories
    BY <1>3, BoundsAssumption, LenProperties
  <2> QED BY <2>1 DEF Lists
<1> QED BY <1>2, <1>3

LEMMA SoftBelow ==
    ASSUME limit \in Contexts
    PROVE  SoftLimit \in Nat \ {0} /\ SoftLimit <= limit
<1>1. limit \in Nat \ {0}
  BY BoundsAssumption
<1>2. (limit * 85) \div 100 \in Nat /\ (limit * 85) \div 100 <= limit
  BY <1>1
<1> QED BY <1>1, <1>2 DEF SoftLimit, Larger, SoftPercent

(* The texts of a segment are a list the tokenizer counts. *)
LEMMA TextsAreList ==
    ASSUME NEW ms \in Lists(MaxMemories), NEW s \in Seq(1..Len(ms)), Len(s) <= MaxMemories
    PROVE  /\ TextsOf(ms, s) \in Lists(MaxMemories)
           /\ TextsOf(ms, s) \in Seq(Texts)
           /\ Len(TextsOf(ms, s)) = Len(s)
           /\ Tokens(TextsOf(ms, s)) \in Nat \ {0}
<1>1. ms \in Seq(Texts) /\ Len(ms) <= MaxMemories
  BY ListsAre
<1>2. DOMAIN s = 1..Len(s) /\ Len(s) \in Nat
  BY LenProperties
<1>3. TextsOf(ms, s) \in [1..Len(s) -> Texts]
  BY <1>1, <1>2, ElementOfSeq DEF TextsOf
<1>4. TextsOf(ms, s) \in Seq(Texts) /\ Len(TextsOf(ms, s)) = Len(s)
  BY <1>2, <1>3
<1>5. TextsOf(ms, s) \in Lists(MaxMemories)
  BY <1>4, ListsAre
<1> QED BY <1>4, <1>5, TokensAssumption

(* Growing a segment by a memory grows its texts by that memory's. *)
LEMMA TextsGrown ==
    ASSUME NEW ms \in Lists(MaxMemories), NEW s \in Seq(1..Len(ms)), NEW m \in 1..Len(ms)
    PROVE  TextsOf(ms, Append(s, m)) = Append(TextsOf(ms, s), ms[m])
<1>1. ms \in Seq(Texts)
  BY ListsAre
<1>2. DOMAIN s = 1..Len(s) /\ Len(s) \in Nat /\ DOMAIN Append(s, m) = 1..Len(s) + 1
  BY LenProperties
<1>3. \A i \in 1..Len(s) : ms[s[i]] \in Texts /\ Append(s, m)[i] = s[i]
  BY <1>1, <1>2, ElementOfSeq
<1>4. TextsOf(ms, s) \in [1..Len(s) -> Texts]
  BY <1>2, <1>3 DEF TextsOf
<1>5. TextsOf(ms, s) \in Seq(Texts) /\ Len(TextsOf(ms, s)) = Len(s)
  BY <1>2, <1>4
<1>6. Append(TextsOf(ms, s), ms[m]) = [i \in 1..Len(s) + 1 |-> IF i <= Len(s) THEN TextsOf(ms, s)[i] ELSE ms[m]]
  BY <1>5, <1>1
<1>7. TextsOf(ms, Append(s, m)) = [i \in 1..Len(s) + 1 |-> ms[Append(s, m)[i]]]
  BY <1>2 DEF TextsOf
<1>8. ASSUME NEW i \in 1..Len(s) + 1
      PROVE  ms[Append(s, m)[i]] = IF i <= Len(s) THEN TextsOf(ms, s)[i] ELSE ms[m]
  <2>1. CASE i <= Len(s)
    BY <2>1, <1>2, <1>3 DEF TextsOf
  <2>2. CASE i = Len(s) + 1
    BY <2>2, <1>2
  <2> QED BY <2>1, <2>2, <1>2
<1> QED BY <1>6, <1>7, <1>8

(* A memory added behind changes no text of the segments there are. *)
LEMMA TextsKept ==
    ASSUME NEW ms \in Seq(Texts), NEW t \in Texts, NEW s \in Seq(1..Len(ms))
    PROVE  /\ s \in Seq(1..Len(Append(ms, t)))
           /\ TextsOf(Append(ms, t), s) = TextsOf(ms, s)
<1>1. DOMAIN s = 1..Len(s) /\ \A i \in 1..Len(s) : s[i] \in 1..Len(ms)
  BY LenProperties, ElementOfSeq
<1>2. Len(Append(ms, t)) = Len(ms) + 1 /\ \A i \in 1..Len(ms) : Append(ms, t)[i] = ms[i]
  OBVIOUS
<1>3. s \in Seq(1..Len(Append(ms, t)))
  BY <1>2, SeqMonotonic
<1>4. \A i \in 1..Len(s) : Append(ms, t)[s[i]] = ms[s[i]]
  BY <1>1, <1>2
<1> QED BY <1>1, <1>3, <1>4 DEF TextsOf

-----------------------------------------------------------------------------
(* Placing a memory. *)

LEMMA DeltaIsNat ==
    ASSUME NEW t \in Texts, MaxMemories >= 1
    PROVE  Delta(t) \in Nat /\ Tokens(<<t>>) \in Nat \ {0}
<1>1. <<t>> \in Lists(MaxMemories) /\ <<>> \in Lists(MaxMemories)
  <2>1. <<t>> \in Seq(Texts) /\ Len(<<t>>) = 1 /\ <<>> \in Seq(Texts) /\ Len(<<>>) = 0
    OBVIOUS
  <2>2. 1 <= MaxMemories /\ 0 <= MaxMemories
    BY BoundsAssumption
  <2>3. Len(<<t>>) <= MaxMemories /\ Len(<<>>) <= MaxMemories
    BY <2>1, <2>2
  <2> QED BY <2>1, <2>3, ListsAre
<1>2. Tokens(<<t>>) \in Nat \ {0} /\ Tokens(<<>>) \in Nat
  BY <1>1, TokensAssumption
<1> QED BY <1>2 DEF Delta, Larger

(* A segment that grows is still counted: its estimate pays for the memory *)
(* and for the seam, or is replaced by the exact count.                    *)
LEMMA GrownIsPlanned ==
    ASSUME NEW ms \in Lists(MaxMemories), NEW m \in 1..Len(ms), NEW s, Planned(ms, s),
           LastOf(s.indices) < m, limit \in Contexts
    PROVE  /\ Planned(ms, Grown(ms, s, m))
           /\ LastOf(Grown(ms, s, m).indices) = m
           /\ TokensIn(ms, Grown(ms, s, m)) <= Grown(ms, s, m).estimated
<1> DEFINE i == s.indices  j == Append(i, m)  g == Grown(ms, s, m)
<1> HIDE DEF i, j, g
<1>1. ms \in Seq(Texts) /\ Len(ms) <= MaxMemories /\ MaxMemories \in Nat
  BY ListsAre, BoundsAssumption
<1>2. i \in Seq(1..Len(ms)) /\ i # <<>> /\ Len(i) \in Nat /\ s.estimated \in Nat
  <2>1. i \in Seq(1..Len(ms)) /\ i # <<>> /\ s.estimated \in Nat
    BY DEF Planned, Shaped, i
  <2> QED BY <2>1
<1>3. Len(i) < m /\ Len(i) <= MaxMemories
  <2>1. Len(i) \in 1..Len(i) /\ LastOf(i) = i[Len(i)]
    BY <1>2 DEF LastOf
  <2>2. LastOf(i) \in 1..Len(ms)
    BY <1>2, <2>1, ElementOfSeq
  <2>3. Len(i) <= LastOf(i) /\ LastOf(i) < m
    BY DEF Planned, Shaped, i
  <2>4. Len(ms) \in Nat
    BY <1>1
  <2> QED BY <1>1, <1>2, <2>2, <2>3, <2>4
<1>4. j \in Seq(1..Len(ms)) /\ j # <<>> /\ Len(j) = Len(i) + 1 /\ LastOf(j) = m
  <2>1. j \in Seq(1..Len(ms)) /\ Len(j) = Len(i) + 1 /\ j[Len(i) + 1] = m
    BY <1>2, AppendProperties DEF j
  <2> QED BY <1>2, <2>1 DEF LastOf
<1>5. Len(j) <= MaxMemories
  BY <1>1, <1>3, <1>4
<1>6. /\ TextsOf(ms, i) \in Lists(MaxMemories)
      /\ Tokens(TextsOf(ms, i)) \in Nat
      /\ Tokens(TextsOf(ms, j)) \in Nat
      /\ TextsOf(ms, j) = Append(TextsOf(ms, i), ms[m])
  BY <1>2, <1>3, <1>4, <1>5, TextsAreList, TextsGrown DEF j
<1>7. ms[m] \in Texts /\ Delta(ms[m]) \in Nat
  <2>1. ms[m] \in Texts
    BY <1>1, ElementOfSeq
  <2>2. MaxMemories >= 1
    BY <1>1, <1>2, <1>3
  <2> QED BY <2>1, <2>2, DeltaIsNat
<1>8. Tokens(TextsOf(ms, j)) <= Tokens(TextsOf(ms, i)) + Delta(ms[m]) + Margin
  BY <1>6, <1>7, TokensAssumption
<1>9. Tokens(TextsOf(ms, j)) <= Estimate(s, ms[m]) /\ Estimate(s, ms[m]) \in Nat
  <2>1. Tokens(TextsOf(ms, i)) <= s.estimated
    BY DEF Planned, Counted, TokensIn, i
  <2>2. Estimate(s, ms[m]) = s.estimated + Delta(ms[m]) + 4
    BY DEF Estimate, Margin
  <2>3. Tokens(TextsOf(ms, j)) <= Tokens(TextsOf(ms, i)) + Delta(ms[m]) + 4
    BY <1>8 DEF Margin
  <2> QED BY <1>2, <1>6, <1>7, <2>1, <2>2, <2>3
<1>11. CASE Estimate(s, ms[m]) <= SoftLimit
  <2>1. g = Segment(j, Estimate(s, ms[m]), 0)
    BY <1>11 DEF Grown, g, j, i
  <2>2. g = [indices |-> j, estimated |-> Estimate(s, ms[m]), exact |-> 0]
    BY <2>1 DEF Segment
  <2>3. /\ g \in [indices : Seq(1..Len(ms)), estimated : Nat, exact : Nat]
        /\ g.indices = j /\ g.exact = 0 /\ g.estimated = Estimate(s, ms[m])
    BY <2>2, <1>4, <1>9
  <2>4. Len(j) <= m
    BY <1>2, <1>3, <1>4
  <2>5. Shaped(ms, g)
    BY <1>4, <2>3, <2>4 DEF Shaped
  <2>6. Counted(ms, g) /\ TokensIn(ms, g) <= g.estimated
    BY <1>9, <2>3 DEF Counted, TokensIn
  <2> QED BY <1>4, <2>3, <2>5, <2>6 DEF Planned, g
<1>12. CASE ~(Estimate(s, ms[m]) <= SoftLimit)
  <2>1. g = Segment(j, Tokens(TextsOf(ms, j)), Tokens(TextsOf(ms, j)))
    BY <1>12 DEF Grown, g, j, i
  <2>2. g = [indices |-> j, estimated |-> Tokens(TextsOf(ms, j)), exact |-> Tokens(TextsOf(ms, j))]
    BY <2>1 DEF Segment
  <2>3. /\ g \in [indices : Seq(1..Len(ms)), estimated : Nat, exact : Nat]
        /\ g.indices = j
        /\ g.exact = Tokens(TextsOf(ms, j)) /\ g.estimated = Tokens(TextsOf(ms, j))
    BY <2>2, <1>4, <1>6
  <2>4. Len(j) <= m
    BY <1>2, <1>3, <1>4
  <2>5. Shaped(ms, g)
    BY <1>4, <2>3, <2>4 DEF Shaped
  <2>6. Counted(ms, g) /\ TokensIn(ms, g) <= g.estimated
    <3>1. TokensIn(ms, g) = Tokens(TextsOf(ms, j))
      BY <2>3 DEF TokensIn
    <3> QED BY <1>6, <2>3, <3>1 DEF Counted
  <2> QED BY <1>4, <2>3, <2>5, <2>6 DEF Planned, g
<1> QED BY <1>11, <1>12

(* A segment with one memory has its exact count. *)
LEMMA AloneIsPlanned ==
    ASSUME NEW ms \in Lists(MaxMemories), NEW m \in 1..Len(ms)
    PROVE  LET alone == Segment(<<m>>, Tokens(<<ms[m]>>), Tokens(<<ms[m]>>))
           IN /\ Planned(ms, alone)
              /\ LastOf(alone.indices) = m
              /\ TokensIn(ms, alone) = Tokens(<<ms[m]>>)
<1>1. ms \in Seq(Texts) /\ Len(ms) <= MaxMemories /\ Len(ms) \in Nat /\ MaxMemories \in Nat
  BY ListsAre, BoundsAssumption
<1>2. ms[m] \in Texts /\ MaxMemories >= 1
  BY <1>1, ElementOfSeq
<1>3. Tokens(<<ms[m]>>) \in Nat
  BY <1>2, DeltaIsNat
<1>4. TextsOf(ms, <<m>>) = <<ms[m]>>
  BY DEF TextsOf
<1>5. <<m>> \in Seq(1..Len(ms)) /\ Len(<<m>>) = 1 /\ LastOf(<<m>>) = m
  BY DEF LastOf
<1> QED BY <1>3, <1>4, <1>5 DEF Segment, Planned, Shaped, Counted, TokensIn

LEMMA PlacedIsPlanned ==
    ASSUME NEW ms \in Lists(MaxMemories), NEW m \in 1..Len(ms), NEW p \in PlansFor(ms),
           NEW manual \in BOOLEAN, NEW fresh, limit \in Contexts,
           p # <<>> => LastOf(LastOf(p).indices) < m,
           Admitted(ms, p, m, manual, fresh)
    PROVE  LET placed == Placed(ms, p, m, manual)
           IN /\ placed \in PlansFor(ms)
              /\ placed # <<>> /\ LastOf(LastOf(placed).indices) = m
              /\ \A g \in 1..Len(placed) :
                    \/ TokensIn(ms, placed[g]) <= SoftLimit
                    \/ TokensIn(ms, placed[g]) <= fresh /\ placed[g].indices = <<m>>
                    \/ g \in 1..Len(p) /\ placed[g] = p[g]
<1> DEFINE Segments == [indices : Seq(1..Len(ms)), estimated : Nat, exact : Nat]
           placed == Placed(ms, p, m, manual)
           alone == Segment(<<m>>, Tokens(<<ms[m]>>), Tokens(<<ms[m]>>))
           grown == Grown(ms, p[Len(p)], m)
<1> HIDE DEF placed, alone, grown
<1>1. p \in Seq(Segments) /\ Len(p) \in Nat /\ Len(p) <= MaxSegments
  BY DEF PlansFor
<1>2. CASE Starts(ms, p, m, manual)
  <2>1. placed = Append(p, alone)
    BY <1>2 DEF Placed, placed, alone
  <2>2. /\ Planned(ms, alone) /\ LastOf(alone.indices) = m /\ TokensIn(ms, alone) <= fresh
        /\ alone.indices = <<m>>
    BY AloneIsPlanned DEF Admitted, alone, Segment
  <2>3. alone \in Segments
    BY <2>2 DEF Planned, Shaped
  <2>4. Len(p) < MaxSegments /\ MaxSegments \in Nat
    BY <1>2, BoundsAssumption DEF Admitted
  <2>5. /\ placed \in Seq(Segments) /\ Len(placed) = Len(p) + 1
        /\ placed[Len(p) + 1] = alone
        /\ \A g \in 1..Len(p) : placed[g] = p[g]
    BY <1>1, <2>1, <2>3
  <2>6. LastOf(placed) = alone
    BY <2>5 DEF LastOf
  <2>7. \A g \in 1..Len(placed) : g \in 1..Len(p) \/ g = Len(p) + 1
    BY <1>1, <2>5
  <2>8. \A g \in 1..Len(placed) :
           /\ Planned(ms, placed[g])
           /\ \/ TokensIn(ms, placed[g]) <= fresh /\ placed[g].indices = <<m>>
              \/ g \in 1..Len(p) /\ placed[g] = p[g]
    <3>1. SUFFICES ASSUME NEW g \in 1..Len(placed)
                   PROVE  /\ Planned(ms, placed[g])
                          /\ \/ TokensIn(ms, placed[g]) <= fresh /\ placed[g].indices = <<m>>
                             \/ g \in 1..Len(p) /\ placed[g] = p[g]
      OBVIOUS
    <3>2. CASE g \in 1..Len(p)
      <4>1. placed[g] = p[g] /\ Planned(ms, p[g])
        BY <2>5, <3>2 DEF PlansFor
      <4> QED BY <3>2, <4>1
    <3>3. CASE g = Len(p) + 1
      BY <2>2, <2>5, <3>3
    <3> QED BY <2>7, <3>2, <3>3
  <2>9. Len(placed) <= MaxSegments
    BY <1>1, <2>4, <2>5
  <2>10. placed \in PlansFor(ms)
    BY <2>5, <2>8, <2>9 DEF PlansFor
  <2>11. placed # <<>>
    BY <1>1, <2>5
  <2> QED BY <2>2, <2>6, <2>8, <2>10, <2>11 DEF placed
<1>3. CASE ~Starts(ms, p, m, manual)
  <2>1. p # <<>> /\ ~(grown.estimated > SoftLimit)
    BY <1>3 DEF Starts, LastOf, grown
  <2>2. Len(p) \in 1..Len(p)
    BY <1>1, <2>1
  <2>3. placed = [p EXCEPT ![Len(p)] = grown]
    BY <1>3 DEF Placed, placed, grown
  <2>4. Planned(ms, p[Len(p)]) /\ LastOf(p[Len(p)].indices) < m
    BY <2>1, <2>2 DEF PlansFor, LastOf
  <2>5. /\ Planned(ms, grown) /\ LastOf(grown.indices) = m
        /\ TokensIn(ms, grown) <= grown.estimated
    BY <2>4, GrownIsPlanned DEF grown
  <2>6. grown \in Segments
    BY <2>5 DEF Planned, Shaped
  <2>7. TokensIn(ms, grown) <= SoftLimit
    <3>1. TextsOf(ms, grown.indices) \in Lists(MaxMemories)
      <4>1. grown.indices \in Seq(1..Len(ms)) /\ grown.indices # <<>>
            /\ Len(grown.indices) <= m
        BY <2>5 DEF Planned, Shaped
      <4>2. Len(grown.indices) <= MaxMemories
        BY <4>1, ListsAre, BoundsAssumption
      <4> QED BY <4>1, <4>2, TextsAreList
    <3>2. TokensIn(ms, grown) \in Nat
      BY <3>1, TokensAssumption DEF TokensIn
    <3> QED BY <2>1, <2>5, <2>6, <3>2, SoftBelow
  <2>8. /\ placed \in Seq(Segments) /\ Len(placed) = Len(p)
        /\ \A g \in 1..Len(p) : placed[g] = IF g = Len(p) THEN grown ELSE p[g]
    BY <1>1, <2>2, <2>3, <2>6, ExceptSeq
  <2>9. LastOf(placed) = grown /\ placed # <<>>
    BY <2>2, <2>8 DEF LastOf
  <2>10. \A g \in 1..Len(placed) :
           /\ Planned(ms, placed[g])
           /\ TokensIn(ms, placed[g]) <= SoftLimit \/ (g \in 1..Len(p) /\ placed[g] = p[g])
    <3>1. SUFFICES ASSUME NEW g \in 1..Len(placed)
                   PROVE  /\ Planned(ms, placed[g])
                          /\ \/ TokensIn(ms, placed[g]) <= SoftLimit
                             \/ g \in 1..Len(p) /\ placed[g] = p[g]
      OBVIOUS
    <3>2. g \in 1..Len(p) /\ Planned(ms, p[g])
      BY <2>8 DEF PlansFor
    <3>3. CASE g = Len(p)
      <4>1. placed[g] = grown
        BY <2>8, <3>2, <3>3
      <4> QED BY <2>5, <2>7, <4>1
    <3>4. CASE g # Len(p)
      <4>1. placed[g] = p[g]
        BY <2>8, <3>2, <3>4
      <4> QED BY <3>2, <4>1
    <3> QED BY <3>3, <3>4
  <2>11. placed \in PlansFor(ms)
    BY <1>1, <2>8, <2>10 DEF PlansFor
  <2> QED BY <2>5, <2>9, <2>10, <2>11 DEF placed
<1> QED BY <1>2, <1>3 DEF placed

-----------------------------------------------------------------------------
(* What is planned for the memories is planned for one more. *)
LEMMA PlansKept ==
    ASSUME NEW ms \in Lists(MaxMemories), NEW t \in Texts, NEW p \in PlansFor(ms)
    PROVE  /\ p \in PlansFor(Append(ms, t))
           /\ \A g \in 1..Len(p) : TokensIn(Append(ms, t), p[g]) = TokensIn(ms, p[g])
<1> DEFINE more == Append(ms, t)
           Old == [indices : Seq(1..Len(ms)), estimated : Nat, exact : Nat]
           New == [indices : Seq(1..Len(more)), estimated : Nat, exact : Nat]
<1>1. ms \in Seq(Texts) /\ p \in Seq(Old) /\ Len(p) <= MaxSegments
  BY ListsAre DEF PlansFor
<1> HIDE DEF more
<1>2. ASSUME NEW s \in Old PROVE s \in New /\ TokensIn(more, s) = TokensIn(ms, s)
  <2>1. s.indices \in Seq(1..Len(ms))
    OBVIOUS
  <2>2. s.indices \in Seq(1..Len(more)) /\ TextsOf(more, s.indices) = TextsOf(ms, s.indices)
    BY <1>1, <2>1, TextsKept DEF more
  <2>3. s \in New
    BY <2>2
  <2> QED BY <2>2, <2>3 DEF TokensIn
<1> HIDE DEF Old, New
<1>3. p \in Seq(New)
  BY <1>1, <1>2, SeqMonotonic
<1>4. ASSUME NEW g \in 1..Len(p)
      PROVE  Planned(more, p[g]) /\ TokensIn(more, p[g]) = TokensIn(ms, p[g])
  <2>1. p[g] \in Old /\ Planned(ms, p[g])
    BY <1>1, ElementOfSeq DEF PlansFor
  <2>2. p[g] \in New /\ TokensIn(more, p[g]) = TokensIn(ms, p[g])
    BY <1>2, <2>1
  <2> QED BY <2>1, <2>2 DEF Planned, Shaped, Counted, New
<1> QED BY <1>1, <1>3, <1>4 DEF PlansFor, New, more

(* A manifest that fits gives a plan for the memories. *)
LEMMA RestoredIsPlanned ==
    ASSUME IInv, ManifestFits
    PROVE  /\ Restored \in PlansFor(memories)
           /\ \A g \in 1..Len(Restored) : Fits(TokensIn(memories, Restored[g]))
           /\ Restored # <<>> /\ LastOf(LastOf(Restored).indices) <= Len(memories)
<1> DEFINE Segments == [indices : Seq(1..Len(memories)), estimated : Nat, exact : Nat]
           n == Len(manifest)
<1>1. /\ manifest \in Seq(Entries) /\ n \in 1..MaxSegments
      /\ ~foreign => \A i \in 1..n : manifest[i].tokens <= SoftLimit
      /\ DOMAIN manifest = 1..n
  BY LenProperties DEF IInv, ManifestInv, ManifestFits
<1>2. Len(memories) \in Nat /\ MaxMemories \in Nat /\ MaxSegments \in Nat
  <2>1. memories \in Seq(Texts)
    BY ListsAre DEF IInv, FactsInv
  <2> QED BY <2>1, BoundsAssumption
<1> HIDE DEF n
<1>3. ASSUME NEW i \in 1..n
      PROVE  /\ Planned(memories, Restored[i])
             /\ Fits(TokensIn(memories, Restored[i]))
             /\ LastOf(Restored[i].indices) <= Len(memories)
  <2> DEFINE e == manifest[i]  indices == manifest[i].indices
  <2>1. e \in Entries /\ e.tokens <= limit /\ SameMemories(e)
    BY <1>1, ElementOfSeq DEF ManifestFits, n
  <2> HIDE DEF e
  <2>2. /\ e.indices \in Seq(1..MaxMemories) /\ e.indices # <<>>
        /\ Len(e.indices) <= LastOf(e.indices) /\ e.tokens = Tokens(e.texts)
        /\ e.tokens \in Nat /\ e.texts = TextsOf(memories, e.indices)
        /\ LastOf(e.indices) <= Len(memories)
        /\ e.indices = Run(e.indices[1], LastOf(e.indices))
    BY <2>1 DEF Entries, SameMemories
  <2>3. Len(e.indices) \in Nat \ {0} /\ \A k \in 1..Len(e.indices) : e.indices[k] \in 1..MaxMemories
    <3>1. \A x : x \in Seq(1..MaxMemories) /\ x # <<>> =>
                   Len(x) \in Nat \ {0} /\ \A k \in 1..Len(x) : x[k] \in 1..MaxMemories
      <4>1. SUFFICES ASSUME NEW x \in Seq(1..MaxMemories), x # <<>>
                     PROVE  Len(x) \in Nat \ {0} /\ \A k \in 1..Len(x) : x[k] \in 1..MaxMemories
        OBVIOUS
      <4>2. \A k \in 1..Len(x) : x[k] \in 1..MaxMemories
        BY <4>1, ElementOfSeq
      <4>3. Len(x) \in Nat /\ Len(x) # 0
        BY <4>1
      <4> QED BY <4>2, <4>3
    <3> QED BY <2>2, <3>1
  <2>4. e.indices[1] \in Nat /\ LastOf(e.indices) \in Nat
    BY <2>3 DEF LastOf
  <2>5. Len(e.indices) = LastOf(e.indices) - e.indices[1] + 1
    <3>1. DOMAIN e.indices = 1..(LastOf(e.indices) - e.indices[1] + 1)
      BY <2>2 DEF Run
    <3>2. DOMAIN e.indices = 1..Len(e.indices)
      BY <2>2, LenProperties
    <3> HIDE DEF indices
    <3> QED BY <2>3, <2>4, <3>1, <3>2
  <2>6. \A k \in 1..Len(e.indices) : e.indices[k] = e.indices[1] + k - 1
    <3>1. \A k \in 1..(LastOf(e.indices) - e.indices[1] + 1) :
             Run(e.indices[1], LastOf(e.indices))[k] = e.indices[1] + k - 1
      BY DEF Run
    <3> QED BY <2>2, <2>5, <3>1
  <2>7. \A k \in 1..Len(e.indices) : e.indices[k] \in 1..Len(memories)
    <3>1. SUFFICES ASSUME NEW k \in 1..Len(e.indices) PROVE e.indices[k] \in 1..Len(memories)
      OBVIOUS
    <3>2. e.indices[k] \in Nat \ {0} /\ e.indices[k] = e.indices[1] + k - 1
      BY <2>3, <2>6, <1>2
    <3>3. k \in Nat /\ k <= LastOf(e.indices) - e.indices[1] + 1
      BY <2>3, <2>5
    <3>4. e.indices[k] <= LastOf(e.indices)
      BY <2>4, <3>2, <3>3
    <3> QED BY <1>2, <2>2, <2>4, <3>2, <3>4
  <2>8. e.indices \in Seq(1..Len(memories))
    BY <2>2, <2>3, <2>7, LenProperties, SeqDef
  <2>9. Restored[i] = [indices |-> e.indices, estimated |-> e.tokens, exact |-> e.tokens]
    BY <1>1 DEF Restored, Segment, e, n
  <2>10. /\ Restored[i] \in Segments /\ Restored[i].indices = e.indices
         /\ Restored[i].exact = e.tokens /\ Restored[i].estimated = e.tokens
    BY <2>2, <2>8, <2>9
  <2>11. TokensIn(memories, Restored[i]) = e.tokens
    BY <2>2, <2>10 DEF TokensIn
  <2>12. Shaped(memories, Restored[i])
    BY <2>2, <2>10 DEF Shaped
  <2>13. Counted(memories, Restored[i])
    BY <2>2, <2>10, <2>11 DEF Counted
  <2>14. Fits(e.tokens)
    BY <1>1, <2>1 DEF Fits, e
  <2> QED BY <2>2, <2>10, <2>11, <2>12, <2>13, <2>14 DEF Planned
<1>4. \A i \in 1..n : Restored[i] \in Segments
  BY <1>3 DEF Planned, Shaped
<1> HIDE DEF Segments
<1>5. Restored \in [1..n -> Segments]
  <2>1. DOMAIN Restored = 1..n /\ Restored = [i \in 1..n |-> Restored[i]]
    BY <1>1 DEF Restored
  <2> QED BY <1>4, <2>1
<1>6. Restored \in Seq(Segments) /\ Len(Restored) = n /\ n \in 1..n /\ Restored # <<>>
  BY <1>1, <1>2, <1>5
<1>7. Restored \in PlansFor(memories)
  BY <1>1, <1>2, <1>3, <1>6 DEF PlansFor, Segments
<1>8. LastOf(Restored) = Restored[n]
  BY <1>6 DEF LastOf
<1> QED BY <1>3, <1>6, <1>7, <1>8

-----------------------------------------------------------------------------
(* The invariant. *)

LEMMA EmptyPlan ==
    ASSUME NEW ms \in Lists(MaxMemories)
    PROVE  <<>> \in PlansFor(ms) /\ Len(<<>>) = 0
<1>1. <<>> \in Seq([indices : Seq(1..Len(ms)), estimated : Nat, exact : Nat]) /\ Len(<<>>) = 0
  OBVIOUS
<1>2. \A g \in 1..0 : FALSE
  OBVIOUS
<1> QED BY <1>1, <1>2, BoundsAssumption DEF PlansFor

(* The last memory of a plan is one of the memories. *)
LEMMA LastIsIndex ==
    ASSUME NEW ms \in Lists(MaxMemories), NEW p \in PlansFor(ms), p # <<>>
    PROVE  LastOf(LastOf(p).indices) \in 1..Len(ms)
<1>1. p \in Seq([indices : Seq(1..Len(ms)), estimated : Nat, exact : Nat])
  BY DEF PlansFor
<1>2. Len(p) \in 1..Len(p)
  BY <1>1
<1>3. Planned(ms, LastOf(p))
  BY <1>2 DEF PlansFor, LastOf
<1> DEFINE x == LastOf(p).indices
<1>4. x \in Seq(1..Len(ms)) /\ x # <<>>
  BY <1>3 DEF Planned, Shaped
<1> HIDE DEF x
<1>5. Len(x) \in 1..Len(x)
  BY <1>4
<1>6. LastOf(x) \in 1..Len(ms)
  BY <1>4, <1>5, ElementOfSeq DEF LastOf
<1> QED BY <1>6 DEF x

LEMMA InitIInv == Init => IInv
<1>1. SUFFICES ASSUME Init PROVE IInv
  OBVIOUS
<1>2. /\ memories = <<>> /\ plan = <<>> /\ boundaries = {} /\ next = 0 /\ limit \in Contexts
      /\ saved = [memories |-> <<>>, boundaries |-> {}]
      /\ foreign = FALSE /\ broken = FALSE /\ manifest = None
  BY <1>1 DEF Init
<1>3. <<>> \in Seq(Texts) /\ Len(<<>>) = 0 /\ 0 <= MaxMemories
  BY BoundsAssumption
<1>4. <<>> \in Lists(MaxMemories)
  BY <1>3, ListsAre
<1>5. saved \in [memories : Lists(MaxMemories), boundaries : SUBSET (2..MaxMemories + 1)]
  BY <1>2, <1>4
<1>6. FactsInv
  <2>1. Len(memories) = 0 /\ memories \in Lists(MaxMemories)
    BY <1>2, <1>3, <1>4
  <2>2. next \in 0..Len(memories)
    BY <1>2, <2>1
  <2>3. boundaries \subseteq 2..MaxMemories + 1 /\ foreign \in BOOLEAN /\ broken \in BOOLEAN
    BY <1>2
  <2> QED BY <1>2, <1>5, <2>1, <2>2, <2>3 DEF FactsInv
<1>7. PlanInv
  <2>1. plan \in PlansFor(memories) /\ Len(plan) = 0
    BY <1>2, <1>4, EmptyPlan
  <2>2. \A g \in 1..Len(plan) : Fits(TokensIn(memories, plan[g]))
    BY <2>1
  <2> QED BY <1>2, <2>1, <2>2 DEF PlanInv
<1>8. ManifestInv
  BY <1>2 DEF ManifestInv
<1> QED BY <1>6, <1>7, <1>8 DEF IInv

LEMMA PrepareIInv == IInv /\ Prepare => IInv'
<1>1. SUFFICES ASSUME IInv, Prepare PROVE IInv'
  OBVIOUS
<1>2. UNCHANGED <<memories, boundaries, saved, manifest, limit, foreign, broken>>
  BY <1>1 DEF Prepare
<1>3. memories \in Seq(Texts) /\ Len(memories) \in Nat
  BY <1>1, ListsAre DEF IInv, FactsInv
<1>4. ManifestInv'
  BY <1>1, <1>2 DEF IInv, ManifestInv, Entries, SoftLimit
<1>5. CASE memories # <<>> /\ ManifestFits
  <2>1. plan' = Restored /\ next' = 0
    BY <1>1, <1>5 DEF Prepare
  <2>2. FactsInv'
    BY <1>1, <1>2, <1>3, <2>1 DEF IInv, FactsInv
  <2>3. PlanInv'
    BY <1>1, <1>2, <1>5, <2>1, RestoredIsPlanned
       DEF PlanInv, PlansFor, Planned, Shaped, Counted, TokensIn, Fits, SoftLimit, PlannedTo
  <2> QED BY <1>4, <2>2, <2>3 DEF IInv
<1>6. CASE ~(memories # <<>> /\ ManifestFits)
  <2>1. plan' = <<>> /\ next' \in 0..Len(memories)
    BY <1>1, <1>3, <1>6, EmptySeq DEF Prepare
  <2>2. FactsInv'
    BY <1>1, <1>2, <2>1 DEF IInv, FactsInv
  <2>3. PlanInv'
    <3>1. plan' \in PlansFor(memories) /\ Len(plan') = 0
      BY <1>1, <2>1, EmptyPlan DEF IInv, FactsInv
    <3>2. plan' \in PlansFor(memories')
      BY <1>2, <3>1
    <3> QED BY <2>1, <3>1, <3>2 DEF PlanInv
  <2> QED BY <1>4, <2>2, <2>3 DEF IInv
<1> QED BY <1>5, <1>6

(* A plan that has one more memory placed keeps to the limits. *)
LEMMA PlacedIInv ==
    ASSUME IInv, NEW ms \in Lists(MaxMemories), NEW m \in 1..Len(ms),
           NEW manual \in BOOLEAN, plan \in PlansFor(ms),
           \A g \in 1..Len(plan) : Fits(TokensIn(ms, plan[g])),
           plan # <<>> => LastOf(LastOf(plan).indices) < m,
           Admitted(ms, plan, m, manual, SoftLimit)
    PROVE  /\ Placed(ms, plan, m, manual) \in PlansFor(ms)
           /\ \A g \in 1..Len(Placed(ms, plan, m, manual)) :
                 Fits(TokensIn(ms, Placed(ms, plan, m, manual)[g]))
           /\ LastOf(LastOf(Placed(ms, plan, m, manual)).indices) = m
<1> DEFINE placed == Placed(ms, plan, m, manual)
<1> HIDE DEF placed
<1>1. limit \in Contexts
  BY DEF IInv, FactsInv
<1>2. /\ placed \in PlansFor(ms)
      /\ placed # <<>> /\ LastOf(LastOf(placed).indices) = m
      /\ \A g \in 1..Len(placed) :
            \/ TokensIn(ms, placed[g]) <= SoftLimit
            \/ g \in 1..Len(plan) /\ placed[g] = plan[g]
  BY <1>1, PlacedIsPlanned DEF placed
<1>3. SoftLimit \in Nat /\ SoftLimit <= limit /\ limit \in Nat
  BY <1>1, SoftBelow, BoundsAssumption
<1>4. ASSUME NEW g \in 1..Len(placed) PROVE Fits(TokensIn(ms, placed[g]))
  <2>1. CASE g \in 1..Len(plan) /\ placed[g] = plan[g]
    BY <2>1
  <2>2. CASE TokensIn(ms, placed[g]) <= SoftLimit
    <3>1. Planned(ms, placed[g])
      BY <1>2 DEF PlansFor
    <3>2. TokensIn(ms, placed[g]) \in Nat
      <4> DEFINE x == placed[g].indices
      <4>1. x \in Seq(1..Len(ms)) /\ x # <<>> /\ Len(x) <= LastOf(x)
        BY <3>1 DEF Planned, Shaped
      <4> HIDE DEF x
      <4>2. Len(x) \in 1..Len(x) /\ Len(x) \in Nat
        BY <4>1
      <4>3. LastOf(x) \in 1..Len(ms)
        BY <4>1, <4>2, ElementOfSeq DEF LastOf
      <4>4. Len(ms) \in Nat /\ Len(ms) <= MaxMemories /\ MaxMemories \in Nat
        BY ListsAre, BoundsAssumption
      <4>5. Len(x) <= MaxMemories
        BY <4>1, <4>2, <4>3, <4>4
      <4> QED BY <4>1, <4>5, TextsAreList DEF TokensIn, x
    <3> QED BY <1>3, <2>2, <3>2 DEF Fits
  <2> QED BY <1>2, <2>1, <2>2
<1> QED BY <1>2, <1>4 DEF placed

(* What depends on the limit and on foreign alone. *)
LEMMA ManifestKept ==
    ASSUME ManifestInv, UNCHANGED <<manifest, limit, foreign>> PROVE ManifestInv'
BY DEF ManifestInv, Entries, SoftLimit

LEMMA RebuildIInv == IInv /\ Rebuild => IInv'
<1>1. SUFFICES ASSUME IInv, Rebuild PROVE IInv'
  OBVIOUS
<1> DEFINE manual == next \in boundaries
<1>2. /\ next # 0 /\ UNCHANGED <<memories, boundaries, saved, manifest, limit, foreign>>
      /\ memories \in Lists(MaxMemories) /\ next \in 1..Len(memories) /\ Len(memories) \in Nat
  <2>1. memories \in Lists(MaxMemories) /\ next \in 0..Len(memories)
    BY <1>1 DEF IInv, FactsInv
  <2>2. memories \in Seq(Texts) /\ Len(memories) \in Nat
    BY <2>1, ListsAre
  <2> QED BY <1>1, <2>1, <2>2 DEF Rebuild
<1>3. ManifestInv'
  BY <1>1, <1>2, ManifestKept DEF IInv
<1>4. /\ plan \in PlansFor(memories)
      /\ \A g \in 1..Len(plan) : Fits(TokensIn(memories, plan[g]))
      /\ plan # <<>> => LastOf(LastOf(plan).indices) <= next - 1
  BY <1>1, <1>2 DEF IInv, PlanInv, PlannedTo
<1>5. plan # <<>> => LastOf(LastOf(plan).indices) < next
  <2>1. plan # <<>> => LastOf(LastOf(plan).indices) \in 1..Len(memories)
    BY <1>2, <1>4, LastIsIndex
  <2> QED BY <1>2, <1>4, <2>1
<1>6. CASE Admitted(memories, plan, next, manual, SoftLimit)
  <2>1. /\ plan' = Placed(memories, plan, next, manual)
        /\ next' = IF next = Len(memories) THEN 0 ELSE next + 1
        /\ UNCHANGED broken
    BY <1>1, <1>6 DEF Rebuild
  <2>2. manual \in BOOLEAN
    OBVIOUS
  <2> HIDE DEF manual
  <2>3. /\ plan' \in PlansFor(memories)
        /\ \A g \in 1..Len(plan') : Fits(TokensIn(memories, plan'[g]))
        /\ LastOf(LastOf(plan').indices) = next
    BY <1>1, <1>2, <1>4, <1>5, <1>6, <2>1, <2>2, PlacedIInv
  <2>4. next' \in 0..Len(memories) /\ PlannedTo' = next
    BY <1>2, <2>1 DEF PlannedTo
  <2>5. FactsInv'
    BY <1>1, <1>2, <2>1, <2>4 DEF IInv, FactsInv
  <2>6. PlanInv'
    BY <1>2, <2>3, <2>4 DEF PlanInv, PlansFor, Planned, Shaped, Counted, TokensIn, Fits, SoftLimit
  <2> QED BY <1>3, <2>5, <2>6 DEF IInv
<1>7. CASE ~Admitted(memories, plan, next, manual, SoftLimit)
  <2>1. next' = 0 /\ broken' = TRUE /\ UNCHANGED plan
    BY <1>1, <1>7 DEF Rebuild
  <2>2. FactsInv'
    BY <1>1, <1>2, <2>1 DEF IInv, FactsInv
  <2>3. PlanInv'
    <3>1. PlannedTo' = Len(memories)
      BY <1>2, <2>1 DEF PlannedTo
    <3>2. plan # <<>> => LastOf(LastOf(plan).indices) <= Len(memories)
      BY <1>2, <1>4, <1>5, LastIsIndex
    <3> QED BY <1>2, <1>4, <2>1, <3>1, <3>2
            DEF PlanInv, PlansFor, Planned, Shaped, Counted, TokensIn, Fits, SoftLimit
  <2> QED BY <1>3, <2>2, <2>3 DEF IInv
<1> QED BY <1>6, <1>7

LEMMA AddIInv == ASSUME NEW t \in Texts PROVE IInv /\ Add(t) => IInv'
<1>1. SUFFICES ASSUME IInv, Add(t) PROVE IInv'
  OBVIOUS
<1> DEFINE ms == Append(memories, t)
           m == Len(ms)
           manual == m \in boundaries
<1>2. /\ plan # None /\ next = 0 /\ Len(memories) < MaxMemories
      /\ Admitted(ms, plan, m, manual, SoftLimit)
      /\ memories' = ms /\ plan' = Placed(ms, plan, m, manual)
      /\ saved' \in {saved, [memories |-> ms, boundaries |-> boundaries]}
      /\ UNCHANGED <<boundaries, next, manifest, limit, foreign, broken>>
  BY <1>1 DEF Add, Ready, MaySave
<1>3. memories \in Lists(MaxMemories) /\ memories \in Seq(Texts) /\ Len(memories) \in Nat
  BY <1>1, ListsAre DEF IInv, FactsInv
<1>4. ms \in Lists(MaxMemories) /\ m = Len(memories) + 1 /\ m \in 1..Len(ms)
  <2>1. ms \in Seq(Texts) /\ Len(ms) = Len(memories) + 1
    BY <1>3
  <2>2. Len(ms) <= MaxMemories
    BY <1>2, <1>3, <2>1, BoundsAssumption
  <2>3. ms \in Lists(MaxMemories)
    BY <2>1, <2>2, ListsAre
  <2> HIDE DEF ms
  <2> QED BY <1>3, <2>1, <2>3
<1>5. /\ plan \in PlansFor(memories)
      /\ \A g \in 1..Len(plan) : Fits(TokensIn(memories, plan[g]))
      /\ plan # <<>> => LastOf(LastOf(plan).indices) <= Len(memories)
  BY <1>1, <1>2 DEF IInv, PlanInv, PlannedTo
<1>6. /\ plan \in PlansFor(ms)
      /\ \A g \in 1..Len(plan) : Fits(TokensIn(ms, plan[g]))
  BY <1>3, <1>5, PlansKept
<1>7. plan # <<>> => LastOf(LastOf(plan).indices) < m
  BY <1>3, <1>4, <1>5, LastIsIndex
<1>8. manual \in BOOLEAN
  OBVIOUS
<1> HIDE DEF ms, m, manual
<1>9. /\ plan' \in PlansFor(ms)
      /\ \A g \in 1..Len(plan') : Fits(TokensIn(ms, plan'[g]))
      /\ LastOf(LastOf(plan').indices) = m
  BY <1>1, <1>2, <1>4, <1>6, <1>7, <1>8, PlacedIInv
<1>10. FactsInv'
  <2>1. saved' \in [memories : Lists(MaxMemories), boundaries : SUBSET (2..MaxMemories + 1)]
    <3>1. /\ saved \in [memories : Lists(MaxMemories), boundaries : SUBSET (2..MaxMemories + 1)]
          /\ boundaries \subseteq 2..MaxMemories + 1
      BY <1>1 DEF IInv, FactsInv
    <3>2. [memories |-> ms, boundaries |-> boundaries]
             \in [memories : Lists(MaxMemories), boundaries : SUBSET (2..MaxMemories + 1)]
      BY <1>4, <3>1
    <3> QED BY <1>2, <3>1, <3>2
  <2>2. memories' \in Lists(MaxMemories) /\ next' \in 0..Len(memories')
    BY <1>2, <1>3, <1>4 DEF m
  <2> QED BY <1>1, <1>2, <2>1, <2>2 DEF IInv, FactsInv
<1>11. PlanInv'
  <2>1. PlannedTo' = m
    BY <1>2 DEF PlannedTo, m
  <2>2. m <= m
    BY <1>3, <1>4
  <2> QED BY <1>2, <1>9, <2>1, <2>2
          DEF PlanInv, PlansFor, Planned, Shaped, Counted, TokensIn, Fits, SoftLimit
<1>12. ManifestInv'
  BY <1>1, <1>2, ManifestKept DEF IInv
<1> QED BY <1>10, <1>11, <1>12 DEF IInv

LEMMA NextSegmentIInv == IInv /\ NextSegment => IInv'
<1>1. SUFFICES ASSUME IInv, NextSegment PROVE IInv'
  OBVIOUS
<1> DEFINE m == Len(memories) + 1
<1>2. /\ plan # None /\ plan # <<>> /\ next = 0
      /\ boundaries' = boundaries \cup {m}
      /\ saved' \in {saved, [memories |-> memories, boundaries |-> boundaries']}
      /\ UNCHANGED <<memories, plan, next, manifest, limit, foreign, broken>>
  BY <1>1 DEF NextSegment, Ready, MaySave
<1>3. memories \in Lists(MaxMemories) /\ Len(memories) \in Nat /\ Len(memories) <= MaxMemories
  BY <1>1, ListsAre DEF IInv, FactsInv
<1>4. plan \in PlansFor(memories)
  BY <1>1, <1>2 DEF IInv, PlanInv
<1>5. m \in 2..MaxMemories + 1
  <2>1. LastOf(LastOf(plan).indices) \in 1..Len(memories)
    BY <1>2, <1>3, <1>4, LastIsIndex
  <2> QED BY <1>3, <2>1, BoundsAssumption
<1> HIDE DEF m
<1>6. boundaries' \subseteq 2..MaxMemories + 1
  BY <1>1, <1>2, <1>5 DEF IInv, FactsInv
<1>7. FactsInv'
  <2>1. saved' \in [memories : Lists(MaxMemories), boundaries : SUBSET (2..MaxMemories + 1)]
    BY <1>1, <1>2, <1>3, <1>6 DEF IInv, FactsInv
  <2> QED BY <1>1, <1>2, <1>6, <2>1 DEF IInv, FactsInv
<1>8. PlanInv'
  BY <1>1, <1>2 DEF IInv, PlanInv, PlansFor, Planned, Shaped, Counted, TokensIn, Fits, SoftLimit, PlannedTo
<1>9. ManifestInv'
  BY <1>1, <1>2, ManifestKept DEF IInv
<1> QED BY <1>7, <1>8, <1>9 DEF IInv

(* Measuring replaces an estimate by the exact count. *)
LEMMA MeasuredIsPlanned ==
    ASSUME IInv, NEW p \in PlansFor(memories), NEW known
    PROVE  /\ Measured(p, known) \in PlansFor(memories)
           /\ Len(Measured(p, known)) = Len(p)
           /\ \A g \in 1..Len(p) : Measured(p, known)[g].indices = p[g].indices
<1> DEFINE Segments == [indices : Seq(1..Len(memories)), estimated : Nat, exact : Nat]
           q == Measured(p, known)
<1>1. p \in Seq(Segments) /\ Len(p) \in Nat /\ Len(p) <= MaxSegments /\ DOMAIN p = 1..Len(p)
  BY LenProperties DEF PlansFor
<1> HIDE DEF Segments
<1>2. ASSUME NEW g \in 1..Len(p)
      PROVE  q[g] \in Segments /\ q[g].indices = p[g].indices /\ Planned(memories, q[g])
  <2> DEFINE e == Tokens(TextsOf(memories, p[g].indices))
  <2>1. p[g] \in Segments /\ Planned(memories, p[g])
    BY <1>1, ElementOfSeq DEF PlansFor
  <2>2. q[g] = IF g \in known THEN Segment(p[g].indices, e, e) ELSE p[g]
    BY <1>1 DEF Measured
  <2> HIDE DEF q
  <2>3. CASE g \notin known
    BY <2>1, <2>2, <2>3
  <2>4. CASE g \in known
    <3> DEFINE x == p[g].indices
    <3>1. x \in Seq(1..Len(memories)) /\ x # <<>> /\ Len(x) <= LastOf(x)
      BY <2>1 DEF Planned, Shaped
    <3>2. e \in Nat
      <4> HIDE DEF x
      <4>1. Len(x) \in 1..Len(x) /\ Len(x) \in Nat
        BY <3>1
      <4>2. LastOf(x) \in 1..Len(memories)
        BY <3>1, <4>1, ElementOfSeq DEF LastOf
      <4>3. memories \in Lists(MaxMemories) /\ Len(memories) \in Nat
            /\ Len(memories) <= MaxMemories /\ MaxMemories \in Nat
        BY ListsAre, BoundsAssumption DEF IInv, FactsInv
      <4>4. Len(x) <= MaxMemories
        BY <3>1, <4>1, <4>2, <4>3
      <4> QED BY <3>1, <4>3, <4>4, TextsAreList DEF x
    <3> HIDE DEF e, x
    <3>3. q[g] = [indices |-> x, estimated |-> e, exact |-> e]
      BY <2>2, <2>4 DEF Segment, x
    <3>4. q[g] \in Segments /\ q[g].indices = x /\ q[g].exact = e /\ q[g].estimated = e
      BY <3>1, <3>2, <3>3 DEF Segments
    <3>5. Shaped(memories, q[g])
      BY <3>1, <3>4 DEF Shaped, Segments
    <3>6. TokensIn(memories, q[g]) = e
      BY <3>4 DEF TokensIn, e, x
    <3>7. Counted(memories, q[g])
      BY <3>2, <3>4, <3>6 DEF Counted
    <3> QED BY <3>4, <3>5, <3>7 DEF Planned, x
  <2> QED BY <2>3, <2>4
<1>3. q \in [1..Len(p) -> Segments]
  <2>1. DOMAIN q = 1..Len(p) /\ q = [g \in 1..Len(p) |-> q[g]]
    BY <1>1 DEF Measured
  <2> HIDE DEF q
  <2> QED BY <1>2, <2>1
<1> HIDE DEF q
<1>4. q \in Seq(Segments) /\ Len(q) = Len(p)
  BY <1>1, <1>3
<1>5. q \in PlansFor(memories)
  BY <1>1, <1>2, <1>4 DEF PlansFor, Segments
<1> QED BY <1>2, <1>4, <1>5 DEF q

(* The manifest an index or save command writes describes its segments. *)
LEMMA WrittenManifest ==
    ASSUME IInv, NEW p \in PlansFor(memories), NEW done \in 1..Len(p),
           \A g \in 1..Len(p) : Fits(TokensIn(memories, p[g]))
    PROVE  LET written == [i \in 1..done |-> EntryOf(p[i])]
           IN /\ written \in Seq(Entries) /\ Len(written) = done
              /\ done \in 1..MaxSegments
              /\ ~foreign => \A i \in 1..done : written[i].tokens <= SoftLimit
<1> DEFINE written == [i \in 1..done |-> EntryOf(p[i])]
<1>1. p \in Seq([indices : Seq(1..Len(memories)), estimated : Nat, exact : Nat])
      /\ Len(p) \in Nat /\ Len(p) <= MaxSegments /\ MaxSegments \in Nat
  BY BoundsAssumption DEF PlansFor
<1>2. ASSUME NEW i \in 1..done
      PROVE  EntryOf(p[i]) \in Entries /\ (~foreign => EntryOf(p[i]).tokens <= SoftLimit)
  <2> DEFINE x == p[i].indices  e == TextsOf(memories, x)
  <2>1. i \in 1..Len(p)
    BY <1>1
  <2>2. Planned(memories, p[i]) /\ Fits(TokensIn(memories, p[i]))
    BY <2>1 DEF PlansFor
  <2>3. x \in Seq(1..Len(memories)) /\ x # <<>> /\ Len(x) <= LastOf(x)
    BY <2>2 DEF Planned, Shaped
  <2>4. EntryOf(p[i]) = [indices |-> x, texts |-> e, tokens |-> Tokens(e)]
    BY DEF EntryOf
  <2>5. Tokens(e) = TokensIn(memories, p[i])
    BY DEF TokensIn
  <2>6. memories \in Lists(MaxMemories) /\ Len(memories) \in Nat
        /\ Len(memories) <= MaxMemories /\ MaxMemories \in Nat
    BY ListsAre, BoundsAssumption DEF IInv, FactsInv
  <2> HIDE DEF x
  <2>7. Len(x) \in 1..Len(x) /\ Len(x) \in Nat
    BY <2>3
  <2>8. LastOf(x) \in 1..Len(memories)
    BY <2>3, <2>7, ElementOfSeq DEF LastOf
  <2>9. Len(x) <= MaxMemories
    BY <2>3, <2>6, <2>7, <2>8
  <2>10. e \in Lists(MaxMemories) /\ Tokens(e) \in Nat
    BY <2>3, <2>6, <2>9, TextsAreList
  <2>11. x \in Seq(1..MaxMemories)
    <3>1. 1..Len(memories) \subseteq 1..MaxMemories
      BY <2>6
    <3> QED BY <2>3, <3>1, SeqMonotonic
  <2> HIDE DEF e
  <2>12. EntryOf(p[i]) \in Entries
    BY <2>3, <2>4, <2>10, <2>11 DEF Entries
  <2> QED BY <2>2, <2>4, <2>5, <2>12 DEF Fits
<1>3. written \in [1..done -> Entries] /\ done \in Nat
  BY <1>1, <1>2
<1>4. \A i \in 1..done : written[i] = EntryOf(p[i])
  OBVIOUS
<1> HIDE DEF written
<1>5. written \in Seq(Entries) /\ Len(written) = done
  BY <1>3
<1>6. ~foreign => \A i \in 1..done : written[i].tokens <= SoftLimit
  BY <1>2, <1>4
<1> QED BY <1>1, <1>5, <1>6 DEF written

LEMMA IndexIInv ==
    ASSUME NEW done \in 0..MaxSegments, NEW persists \in BOOLEAN
    PROVE  IInv /\ done <= Len(plan) /\ Index(done, persists) => IInv'
<1>1. SUFFICES ASSUME IInv, done <= Len(plan), Index(done, persists) PROVE IInv'
  OBVIOUS
<1>2. /\ plan # None /\ plan # <<>> /\ next = 0
      /\ saved' = [memories |-> memories, boundaries |-> boundaries]
      /\ manifest' = IF persists /\ done > 0 THEN [i \in 1..done |-> EntryOf(plan[i])]
                     ELSE manifest
      /\ UNCHANGED <<memories, boundaries, next, limit, foreign, broken>>
  BY <1>1 DEF Index, Ready
<1>3. PICK known \in SUBSET (1..done) : plan' = Measured(plan, known)
  BY <1>1 DEF Index
<1>4. /\ plan \in PlansFor(memories)
      /\ \A g \in 1..Len(plan) : Fits(TokensIn(memories, plan[g]))
      /\ LastOf(LastOf(plan).indices) <= Len(memories)
      /\ Len(plan) \in Nat
  BY <1>1, <1>2 DEF IInv, PlanInv, PlannedTo, PlansFor
<1>5. /\ plan' \in PlansFor(memories) /\ Len(plan') = Len(plan)
      /\ \A g \in 1..Len(plan) : plan'[g].indices = plan[g].indices
  BY <1>1, <1>3, <1>4, MeasuredIsPlanned
<1>6. FactsInv'
  BY <1>1, <1>2 DEF IInv, FactsInv
<1>7. PlanInv'
  <2>1. \A g \in 1..Len(plan') : Fits(TokensIn(memories, plan'[g]))
    BY <1>4, <1>5 DEF TokensIn
  <2>2. Len(plan) \in 1..Len(plan)
    BY <1>2, <1>4 DEF PlansFor
  <2>3. LastOf(LastOf(plan').indices) <= Len(memories) /\ PlannedTo' = Len(memories)
    BY <1>2, <1>4, <1>5, <2>2 DEF LastOf, PlannedTo
  <2> QED BY <1>2, <1>5, <2>1, <2>3
          DEF PlanInv, PlansFor, Planned, Shaped, Counted, TokensIn, Fits, SoftLimit
<1>8. ManifestInv'
  <2>1. CASE persists /\ done > 0
    <3> DEFINE written == [i \in 1..done |-> EntryOf(plan[i])]
    <3>1. done \in 1..Len(plan)
      BY <1>1, <1>4, <2>1
    <3>2. /\ written \in Seq(Entries) /\ Len(written) = done
          /\ done \in 1..MaxSegments
          /\ ~foreign => \A i \in 1..done : written[i].tokens <= SoftLimit
      BY <1>1, <1>4, <3>1, WrittenManifest
    <3> HIDE DEF written
    <3>3. manifest' = written
      BY <1>2, <2>1 DEF written
    <3> QED BY <1>2, <3>2, <3>3 DEF ManifestInv, Entries, SoftLimit
  <2>2. CASE ~(persists /\ done > 0)
    BY <1>1, <1>2, <2>2, ManifestKept DEF IInv
  <2> QED BY <2>1, <2>2
<1> QED BY <1>6, <1>7, <1>8 DEF IInv

LEMMA RecreateIInv == ASSUME NEW left PROVE IInv /\ Recreate(left) => IInv'
<1>1. SUFFICES ASSUME IInv, Recreate(left) PROVE IInv'
  OBVIOUS
<1>2. /\ memories' = <<>> /\ boundaries' = {} /\ plan' = <<>> /\ next' = 0
      /\ saved' = [memories |-> <<>>, boundaries |-> {}]
      /\ manifest' \in {manifest, None} /\ foreign' = (manifest' # None)
      /\ broken' = FALSE /\ limit' = limit
  BY <1>1 DEF Recreate
<1>3. <<>> \in Lists(MaxMemories) /\ Len(<<>>) = 0
  <2>1. <<>> \in Seq(Texts) /\ Len(<<>>) = 0 /\ 0 <= MaxMemories
    BY BoundsAssumption
  <2> QED BY <2>1, ListsAre
<1>4. FactsInv'
  <2>1. saved' \in [memories : Lists(MaxMemories), boundaries : SUBSET (2..MaxMemories + 1)]
    BY <1>2, <1>3
  <2>2. next' \in 0..Len(memories') /\ boundaries' \subseteq 2..MaxMemories + 1
    BY <1>2, <1>3
  <2> QED BY <1>1, <1>2, <1>3, <2>1, <2>2 DEF IInv, FactsInv
<1>5. PlanInv'
  <2>1. plan' \in PlansFor(<<>>) /\ Len(plan') = 0
    BY <1>2, <1>3, EmptyPlan
  <2>2. plan' \in PlansFor(<<>>)'
    BY <2>1 DEF PlansFor, Planned, Shaped, Counted, TokensIn
  <2>3. 1..Len(plan') = {}
    BY <2>1
  <2> QED BY <1>2, <2>2, <2>3 DEF PlanInv
<1>6. ManifestInv'
  BY <1>1, <1>2 DEF IInv, ManifestInv, Entries, SoftLimit
<1> QED BY <1>4, <1>5, <1>6 DEF IInv

LEMMA RestartIInv == ASSUME NEW c \in Contexts PROVE IInv /\ Restart(c) => IInv'
<1>1. SUFFICES ASSUME IInv, Restart(c) PROVE IInv'
  OBVIOUS
<1>2. /\ memories' = saved.memories /\ boundaries' = saved.boundaries
      /\ plan' = None /\ next' = 0 /\ limit' = c
      /\ foreign' = ((foreign \/ c # limit) /\ (saved.memories # <<>> \/ manifest # None))
      /\ broken' = FALSE /\ saved' = saved /\ manifest' = manifest
  BY <1>1 DEF Restart
<1>3. saved.memories \in Lists(MaxMemories) /\ Len(saved.memories) \in Nat
  BY <1>1, ListsAre DEF IInv, FactsInv
<1>4. FactsInv'
  <2>1. 0 \in 0..Len(saved.memories)
    BY <1>3
  <2>2. next' \in 0..Len(memories')
    BY <1>2, <2>1
  <2>3. /\ saved \in [memories : Lists(MaxMemories), boundaries : SUBSET (2..MaxMemories + 1)]
        /\ foreign' \in BOOLEAN
    BY <1>1, <1>2 DEF IInv, FactsInv
  <2>4. boundaries' \subseteq 2..MaxMemories + 1
    BY <1>2, <2>3
  <2> QED BY <1>2, <1>3, <2>2, <2>3, <2>4 DEF FactsInv
<1>5. PlanInv'
  BY <1>2 DEF PlanInv
<1>6. ManifestInv'
  <2>1. manifest # None /\ ~foreign' => ~foreign /\ limit' = limit
    BY <1>2
  <2> QED BY <1>1, <1>2, <2>1 DEF IInv, ManifestInv, Entries, SoftLimit
<1> QED BY <1>4, <1>5, <1>6 DEF IInv

LEMMA IInvIsInductive == IInv /\ [Next]_vars => IInv'
<1>1. SUFFICES ASSUME IInv, [Next]_vars PROVE IInv'
  OBVIOUS
<1>2. CASE Prepare
  BY <1>1, <1>2, PrepareIInv
<1>3. CASE Rebuild
  BY <1>1, <1>3, RebuildIInv
<1>4. CASE \E t \in Texts : Add(t)
  BY <1>1, <1>4, AddIInv
<1>5. CASE NextSegment
  BY <1>1, <1>5, NextSegmentIInv
<1>6. CASE \E done \in 0..MaxSegments, persists \in BOOLEAN :
              Ready /\ done <= Len(plan) /\ Index(done, persists)
  BY <1>1, <1>6, IndexIInv
<1>7. CASE \E left \in {manifest, None} : Recreate(left)
  BY <1>1, <1>7, RecreateIInv
<1>8. CASE \E c \in Contexts : Restart(c)
  BY <1>1, <1>8, RestartIInv
<1>9. CASE UNCHANGED vars
  BY <1>1, <1>9 DEF vars, IInv, FactsInv, PlanInv, ManifestInv, PlansFor, Planned, Shaped,
        Counted, TokensIn, Fits, SoftLimit, PlannedTo, Entries
<1> QED BY <1>1, <1>2, <1>3, <1>4, <1>5, <1>6, <1>7, <1>8, <1>9 DEF Next

LEMMA IInvAlways == Spec => []IInv
<1>1. Init => IInv
  BY InitIInv
<1>2. IInv /\ [Next]_vars => IInv'
  BY IInvIsInductive
<1> QED BY <1>1, <1>2, PTL DEF Spec

-----------------------------------------------------------------------------
(* Every count that claims to be exact is, and no estimate is too low,     *)
(* after any memories, boundaries, indexings, restarts and re-creations    *)
(* (Segment::exact_tokens and estimated_tokens).                           *)
THEOREM CountsAlwaysSafe == Spec => []CountsAreSafe
<1>1. IInv => CountsAreSafe
  <2>1. SUFFICES ASSUME IInv, NEW g \in DOMAIN PlannedSegments
                 PROVE  /\ plan[g].exact # 0 => plan[g].exact = TokensOf(plan[g])
                        /\ TokensOf(plan[g]) <= plan[g].estimated
    BY DEF CountsAreSafe
  <2>2. plan # None
    BY DEF PlannedSegments
  <2>3. plan \in PlansFor(memories) /\ g \in 1..Len(plan)
    BY <2>1, <2>2, LenProperties DEF IInv, PlanInv, PlansFor, PlannedSegments
  <2> QED BY <2>3 DEF PlansFor, Planned, Counted, TokensIn, TokensOf
<1> QED BY <1>1, IInvAlways, PTL

(* Every segment fits the context it is loaded into, and one planned for   *)
(* this context keeps to the soft limit, which leaves the rest to a query  *)
(* (append_memory_and_update_plan, rebuild_segment_plan_fast,              *)
(* restore_segment_plan_from_cache_manifest).                              *)
THEOREM SegmentsAlwaysFit == Spec => []SegmentsFit
<1>1. IInv => SegmentsFit
  <2>1. SUFFICES ASSUME IInv, NEW g \in DOMAIN PlannedSegments
                 PROVE  /\ TokensOf(plan[g]) <= limit
                        /\ ~foreign => TokensOf(plan[g]) <= SoftLimit
    BY DEF SegmentsFit
  <2>2. plan # None
    BY DEF PlannedSegments
  <2>3. /\ plan \in PlansFor(memories) /\ g \in 1..Len(plan)
        /\ Fits(TokensIn(memories, plan[g]))
    BY <2>1, <2>2, LenProperties DEF IInv, PlanInv, PlansFor, PlannedSegments
  <2> QED BY <2>3 DEF Fits, TokensIn, TokensOf
<1> QED BY <1>1, IInvAlways, PTL

(* The shape of the state: no more segments than the limit, each of        *)
(* memories of the session, in the plan and in the manifest.               *)
THEOREM TypeCorrect == Spec => []TypeOK
<1>1. ASSUME NEW n \in 0..MaxMemories, NEW x \in Seq(1..n), x # <<>>, Len(x) <= LastOf(x)
      PROVE  x \in Indices
  <2>1. Len(x) \in 1..Len(x)
    BY <1>1
  <2>2. LastOf(x) \in 1..n
    BY <2>1, ElementOfSeq DEF LastOf
  <2>3. n \in Nat /\ n <= MaxMemories /\ MaxMemories \in Nat
    BY BoundsAssumption
  <2>4. Len(x) \in 1..MaxMemories
    BY <1>1, <2>1, <2>2, <2>3
  <2>5. x \in Seq(1..MaxMemories)
    BY <2>3, SeqMonotonic
  <2>6. x \in [1..Len(x) -> 1..MaxMemories]
    BY <2>5, LenProperties
  <2> QED BY <2>4, <2>6 DEF Indices
<1>2. IInv => TypeOK
  <2>1. SUFFICES ASSUME IInv PROVE TypeOK
    OBVIOUS
  <2>2. ASSUME plan # None
        PROVE  Len(plan) <= MaxSegments /\ \A g \in DOMAIN plan : plan[g] \in SegmentType
    <3>1. plan \in PlansFor(memories) /\ DOMAIN plan = 1..Len(plan)
      BY <2>1, <2>2, LenProperties DEF IInv, PlanInv, PlansFor
    <3>2. Len(memories) \in 0..MaxMemories
      <4>1. memories \in Seq(Texts) /\ Len(memories) <= MaxMemories
        BY <2>1, ListsAre DEF IInv, FactsInv
      <4> QED BY <4>1, BoundsAssumption
    <3>3. ASSUME NEW g \in 1..Len(plan) PROVE plan[g] \in SegmentType
      <4>1. Shaped(memories, plan[g])
        BY <3>1 DEF PlansFor, Planned
      <4>2. plan[g].indices \in Indices
        BY <1>1, <3>2, <4>1 DEF Shaped
      <4> QED BY <4>1, <4>2 DEF Shaped, SegmentType
    <3> QED BY <3>1, <3>3 DEF PlansFor
  <2>3. ASSUME manifest # None
        PROVE  /\ Len(manifest) \in 1..MaxSegments
               /\ \A g \in DOMAIN manifest : manifest[g] \in EntryType
    <3>1. /\ manifest \in Seq(Entries) /\ Len(manifest) \in 1..MaxSegments
          /\ DOMAIN manifest = 1..Len(manifest)
      BY <2>1, <2>3, LenProperties DEF IInv, ManifestInv
    <3>2. ASSUME NEW g \in 1..Len(manifest) PROVE manifest[g] \in EntryType
      <4>1. manifest[g] \in Entries
        BY <3>1, ElementOfSeq
      <4>2. MaxMemories \in 0..MaxMemories
        BY BoundsAssumption
      <4>3. manifest[g].indices \in Indices
        BY <1>1, <4>1, <4>2 DEF Entries
      <4> QED BY <4>1, <4>3 DEF Entries, EntryType
    <3> QED BY <3>1, <3>2
  <2> QED BY <2>1, <2>2, <2>3 DEF TypeOK, IInv, FactsInv
<1> QED BY <1>2, IInvAlways, PTL

-----------------------------------------------------------------------------
(* The cut that the memories ms and the boundaries bs alone determine:     *)
(* head[m] is the first memory of the segment that holds m, number[m] that *)
(* segment's place.  A memory begins a segment when it is the first, at a  *)
(* boundary, or when with it the segment would pass the soft limit.        *)
Begins(ms, bs, first, m) == m \in bs \/ Tokens(TextsOf(ms, Run(first, m))) > SoftLimit

Cut(head, number, ms, bs) ==
    \A m \in 1..Len(ms) :
        /\ head[m] \in 1..m /\ number[m] \in 1..MaxSegments
        /\ Tokens(<<ms[m]>>) <= SoftLimit
        /\ IF m = 1 THEN head[m] = 1 /\ number[m] = 1
           ELSE IF Begins(ms, bs, head[m - 1], m)
           THEN head[m] = m /\ number[m] = number[m - 1] + 1
           ELSE head[m] = head[m - 1] /\ number[m] = number[m - 1]

(* x, the indices of some first segments, follows the cut, up to n.        *)
Holds(s, g, head, number, n) ==
    /\ s[1] \in Nat \ {0} /\ LastOf(s) \in s[1]..n
    /\ s = Run(s[1], LastOf(s))
    /\ \A m \in s[1]..LastOf(s) : head[m] = s[1] /\ number[m] = g

Follows(x, head, number, n) ==
    /\ x \in Seq(Seq(Nat))
    /\ \A g \in 1..Len(x) : /\ Holds(x[g], g, head, number, n)
                            /\ x[g][1] = IF g = 1 THEN 1 ELSE LastOf(x[g - 1]) + 1

EndOf(x) == IF x = <<>> THEN 0 ELSE LastOf(LastOf(x))

IndicesIn(p) == [g \in DOMAIN p |-> p[g].indices]

LEMMA RunIs ==
    ASSUME NEW a \in Nat, NEW b \in Nat, a <= b
    PROVE  /\ Run(a, b) \in Seq(Nat) /\ Len(Run(a, b)) = b - a + 1
           /\ Run(a, b)[1] = a /\ LastOf(Run(a, b)) = b
           /\ \A i \in 1..b - a + 1 : Run(a, b)[i] = a + i - 1
           /\ Append(Run(a, b), b + 1) = Run(a, b + 1)
           /\ Run(b, b) = <<b>>
<1> DEFINE r == Run(a, b)
<1>1. r = [i \in 1..b - a + 1 |-> a + i - 1] /\ b - a + 1 \in Nat
  BY DEF Run
<1>2. r \in [1..b - a + 1 -> Nat]
  BY <1>1
<1>3. r \in Seq(Nat) /\ Len(r) = b - a + 1
  BY <1>1, <1>2, SeqDef
<1>4. r[1] = a /\ r[b - a + 1] = b
  BY <1>1
<1>5. Run(a, b + 1) = [i \in 1..b - a + 2 |-> a + i - 1]
  <2>1. (b + 1) - a + 1 = b - a + 2
    OBVIOUS
  <2> QED BY <2>1 DEF Run
<1>6. Append(r, b + 1) = [i \in 1..b - a + 2 |-> IF i <= b - a + 1 THEN r[i] ELSE b + 1]
  <2>1. Append(r, b + 1) = [i \in 1..Len(r) + 1 |-> IF i <= Len(r) THEN r[i] ELSE b + 1]
    BY <1>3
  <2>2. Len(r) + 1 = b - a + 2
    BY <1>3
  <2> QED BY <1>3, <2>1, <2>2
<1>7. \A i \in 1..b - a + 2 : a + i - 1 = IF i <= b - a + 1 THEN r[i] ELSE b + 1
  BY <1>1
<1>8. Append(r, b + 1) = Run(a, b + 1)
  BY <1>5, <1>6, <1>7
<1>9. Run(b, b) = <<b>>
  <2>1. Run(b, b) = [i \in 1..1 |-> b + i - 1]
    BY DEF Run
  <2>2. <<b>> = [i \in 1..1 |-> b]
    OBVIOUS
  <2> QED BY <2>1, <2>2
<1> HIDE DEF r
<1>10. LastOf(r) = b
  BY <1>3, <1>4 DEF LastOf
<1> QED BY <1>1, <1>3, <1>4, <1>8, <1>9, <1>10 DEF r

LEMMA FollowingLength ==
    ASSUME NEW x, NEW head, NEW number, NEW n \in Nat, Follows(x, head, number, n)
    PROVE  /\ Len(x) \in Nat /\ DOMAIN x = 1..Len(x) /\ (x = <<>> <=> Len(x) = 0)
           /\ \A g \in 1..Len(x) :
                 /\ x[g][1] \in Nat \ {0} /\ LastOf(x[g]) \in x[g][1]..n
                 /\ x[g] \in Seq(Nat) /\ x[g] = Run(x[g][1], LastOf(x[g]))
BY LenProperties, EmptySeq, ElementOfSeq DEF Follows, Holds

(* A cut is followed up to any larger bound. *)
LEMMA FollowsFurther ==
    ASSUME NEW x, NEW head, NEW number, NEW n \in Nat, NEW k \in Nat, n <= k,
           Follows(x, head, number, n)
    PROVE  Follows(x, head, number, k)
BY DEF Follows, Holds

(* The last segment of x is where the cut is at the memory before m.       *)
LEMMA LastFollows ==
    ASSUME NEW n \in Nat, NEW m \in 1..n + 1, NEW x, NEW head, NEW number,
           Follows(x, head, number, n), EndOf(x) = m - 1
    PROVE  /\ x = <<>> <=> m = 1
           /\ x # <<>> => /\ m - 1 \in Nat \ {0}
                          /\ head[m - 1] \in Nat \ {0} /\ head[m - 1] <= m - 1
                          /\ number[m - 1] = Len(x)
                          /\ LastOf(x) = Run(head[m - 1], m - 1)
                          /\ Append(LastOf(x), m) = Run(head[m - 1], m)
<1>1. CASE x = <<>>
  BY <1>1 DEF EndOf
<1>2. CASE x # <<>>
  <2> DEFINE l == Len(x)  s == x[Len(x)]  f == x[Len(x)][1]
  <2>1. l \in 1..Len(x) /\ LastOf(x) = s /\ EndOf(x) = LastOf(s)
    BY <1>2, FollowingLength DEF EndOf, LastOf
  <2>2. /\ f \in Nat \ {0} /\ LastOf(s) \in f..n /\ s = Run(f, LastOf(s))
        /\ \A i \in f..LastOf(s) : head[i] = f /\ number[i] = l
    <3>1. Holds(x[l], l, head, number, n)
      BY <2>1 DEF Follows
    <3> QED BY <3>1 DEF Holds
  <2>3. LastOf(s) = m - 1
    BY <2>1
  <2> HIDE DEF s, f, l
  <2>4. m - 1 \in f..m - 1 /\ m - 1 \in Nat \ {0} /\ m # 1 /\ f <= m - 1 /\ m - 1 + 1 = m
    BY <2>2, <2>3
  <2>5. head[m - 1] = f /\ number[m - 1] = l
    BY <2>2, <2>3, <2>4
  <2>6. s = Run(f, m - 1)
    BY <2>2, <2>3
  <2>7. Append(Run(f, m - 1), m - 1 + 1) = Run(f, m - 1 + 1)
    BY <2>2, <2>4, RunIs
  <2>8. Append(s, m) = Run(f, m)
    BY <2>4, <2>6, <2>7
  <2> QED BY <1>2, <2>1, <2>2, <2>4, <2>5, <2>6, <2>8 DEF l
<1> QED BY <1>1, <1>2

(* Memory m begins a segment, or joins the last one. *)
LEMMA FollowsWithNew ==
    ASSUME NEW n \in Nat, NEW m \in 1..n, NEW x, NEW head, NEW number,
           Follows(x, head, number, n), EndOf(x) = m - 1,
           head[m] = m, number[m] = Len(x) + 1
    PROVE  LET y == Append(x, <<m>>)
           IN Follows(y, head, number, n) /\ EndOf(y) = m
<1> DEFINE y == Append(x, <<m>>)  l == Len(x)
<1>1. x \in Seq(Seq(Nat)) /\ l \in Nat
  BY FollowingLength DEF Follows
<1>2. <<m>> \in Seq(Nat) /\ <<m>> = Run(m, m) /\ <<m>>[1] = m /\ LastOf(<<m>>) = m
  BY RunIs DEF LastOf
<1>3. /\ y \in Seq(Seq(Nat)) /\ Len(y) = l + 1 /\ y[l + 1] = <<m>>
      /\ \A g \in 1..l : y[g] = x[g]
  BY <1>1, <1>2, AppendProperties
<1> HIDE DEF y
<1>4. LastOf(y) = <<m>> /\ y # <<>>
  BY <1>1, <1>3 DEF LastOf
<1>5. Holds(<<m>>, l + 1, head, number, n)
  <2>1. PICK s : s = <<m>>
    OBVIOUS
  <2>2. s[1] = m /\ LastOf(s) = m /\ s = Run(m, m)
    BY <1>2, <2>1
  <2>3. m \in Nat \ {0} /\ m \in m..n /\ \A i \in m..m : i = m
    OBVIOUS
  <2>4. Holds(s, l + 1, head, number, n)
    BY <2>2, <2>3 DEF Holds
  <2> QED BY <2>1, <2>4
<1>6. m = IF l + 1 = 1 THEN 1 ELSE LastOf(y[l + 1 - 1]) + 1
  <2>1. CASE x = <<>>
    BY <1>1, <2>1, LastFollows, FollowingLength
  <2>2. CASE x # <<>>
    <3>1. l # 0 /\ l \in 1..l /\ l + 1 - 1 = l
      BY <1>1, <2>2, FollowingLength
    <3>2. LastOf(x[l]) = m - 1
      BY <2>2 DEF EndOf, LastOf
    <3>3. y[l + 1 - 1] = x[l]
      BY <1>3, <3>1
    <3> QED BY <1>1, <3>1, <3>2, <3>3
  <2> QED BY <2>1, <2>2
<1>7. ASSUME NEW g \in 1..l + 1
      PROVE  /\ Holds(y[g], g, head, number, n)
             /\ y[g][1] = IF g = 1 THEN 1 ELSE LastOf(y[g - 1]) + 1
  <2>1. CASE g \in 1..l
    <3>1. y[g] = x[g] /\ (g # 1 => g - 1 \in 1..l)
      BY <1>1, <1>3, <2>1
    <3>2. g # 1 => y[g - 1] = x[g - 1]
      BY <1>3, <3>1
    <3> QED BY <2>1, <3>1, <3>2 DEF Follows
  <2>2. CASE g = l + 1
    <3>1. y[g] = <<m>> /\ y[g][1] = m
      BY <1>2, <1>3, <2>2
    <3> QED BY <1>5, <1>6, <2>2, <3>1
  <2> QED BY <1>1, <2>1, <2>2
<1>8. Follows(y, head, number, n)
  BY <1>3, <1>7 DEF Follows
<1>9. EndOf(y) = m
  BY <1>2, <1>4 DEF EndOf
<1> QED BY <1>8, <1>9 DEF y

LEMMA FollowsWithMore ==
    ASSUME NEW n \in Nat, NEW m \in 1..n, NEW x, NEW head, NEW number,
           Follows(x, head, number, n), EndOf(x) = m - 1, x # <<>>,
           head[m] = head[m - 1], number[m] = number[m - 1]
    PROVE  LET y == [x EXCEPT ![Len(x)] = Append(@, m)]
           IN Follows(y, head, number, n) /\ EndOf(y) = m
<1> DEFINE l == Len(x)  f == head[m - 1]  s == Run(head[m - 1], m)
           y == [x EXCEPT ![Len(x)] = s]
<1>1. x \in Seq(Seq(Nat)) /\ l \in 1..l /\ l \in Nat
  BY FollowingLength DEF Follows
<1>2. /\ f \in Nat \ {0} /\ f <= m - 1 /\ number[m - 1] = l
      /\ LastOf(x) = Run(f, m - 1) /\ Append(LastOf(x), m) = s
  BY LastFollows
<1>3. s \in Seq(Nat) /\ s[1] = f /\ LastOf(s) = m
  <2>1. f \in Nat /\ m \in Nat /\ f <= m
    BY <1>2
  <2> HIDE DEF f
  <2> QED BY <2>1, RunIs DEF f
<1>4. [x EXCEPT ![Len(x)] = Append(@, m)] = y
  BY <1>2 DEF LastOf
<1>5. /\ y \in Seq(Seq(Nat)) /\ Len(y) = l /\ y[l] = s
      /\ \A g \in 1..l : g # l => y[g] = x[g]
  BY <1>1, <1>3, ExceptSeq
<1>6. x[l] = Run(f, m - 1) /\ x[l][1] = f
  <2>1. x[l] = Run(f, m - 1)
    BY <1>2 DEF LastOf
  <2>2. Run(f, m - 1)[1] = f
    <3>1. f \in Nat /\ m - 1 \in Nat /\ f <= m - 1
      BY <1>2
    <3> HIDE DEF f
    <3> QED BY <3>1, RunIs
  <2> QED BY <2>1, <2>2
<1>7. \A i \in f..m - 1 : head[i] = f /\ number[i] = l
  <2>1. Holds(x[l], l, head, number, n)
    BY <1>1 DEF Follows
  <2>2. LastOf(x[l]) = m - 1
    BY <1>1 DEF EndOf, LastOf
  <2> QED BY <1>6, <2>1, <2>2 DEF Holds
<1>8. \A i \in f..m : head[i] = f /\ number[i] = l
  BY <1>2, <1>7
<1>9. s = Run(f, m) /\ m \in f..n
  BY <1>2
<1> HIDE DEF y, s, f, l
<1>10. Holds(s, l, head, number, n)
  BY <1>2, <1>3, <1>8, <1>9 DEF Holds
<1>11. ASSUME NEW g \in 1..l
      PROVE  /\ Holds(y[g], g, head, number, n)
             /\ y[g][1] = IF g = 1 THEN 1 ELSE LastOf(y[g - 1]) + 1
  <2>1. g - 1 # l /\ (g # 1 => y[g - 1] = x[g - 1])
    BY <1>1, <1>5
  <2>2. x[g][1] = IF g = 1 THEN 1 ELSE LastOf(x[g - 1]) + 1
    BY DEF Follows, l
  <2>3. CASE g # l
    <3>1. y[g] = x[g] /\ Holds(x[g], g, head, number, n)
      BY <1>5, <2>3 DEF Follows, l
    <3> QED BY <2>1, <2>2, <3>1
  <2>4. CASE g = l
    <3>1. y[g] = s /\ s[1] = x[g][1]
      BY <1>3, <1>5, <1>6, <2>4
    <3> QED BY <1>10, <2>1, <2>2, <2>4, <3>1
  <2> QED BY <2>3, <2>4
<1>12. Follows(y, head, number, n)
  BY <1>5, <1>11 DEF Follows
<1>13. EndOf(y) = m
  <2>1. LastOf(y) = s /\ y # <<>>
    BY <1>1, <1>5 DEF LastOf
  <2> QED BY <1>3, <2>1 DEF EndOf
<1> QED BY <1>4, <1>12, <1>13

-----------------------------------------------------------------------------
(* What the planner does with memory m is what the cut says.               *)

LEMMA IndicesInPlan ==
    ASSUME NEW ms \in Lists(MaxMemories), NEW p \in PlansFor(ms)
    PROVE  /\ Len(p) \in Nat /\ DOMAIN p = 1..Len(p)
           /\ IndicesIn(p) \in Seq(Seq(Nat)) /\ Len(IndicesIn(p)) = Len(p)
           /\ \A g \in 1..Len(p) : /\ IndicesIn(p)[g] = p[g].indices
                                   /\ p[g].indices \in Seq(1..Len(ms))
                                   /\ p[g].estimated \in Nat
           /\ IndicesIn(p) = <<>> <=> p = <<>>
<1>1. p \in Seq([indices : Seq(1..Len(ms)), estimated : Nat, exact : Nat])
  BY DEF PlansFor
<1>2. Len(p) \in Nat /\ DOMAIN p = 1..Len(p)
  BY <1>1, LenProperties
<1>3. ASSUME NEW g \in 1..Len(p)
      PROVE  /\ p[g].indices \in Seq(1..Len(ms)) /\ p[g].indices \in Seq(Nat)
             /\ p[g].estimated \in Nat
  <2>1. p[g] \in [indices : Seq(1..Len(ms)), estimated : Nat, exact : Nat]
    BY <1>1, ElementOfSeq
  <2>2. 1..Len(ms) \subseteq Nat
    BY ListsAre, LenProperties
  <2> QED BY <2>1, <2>2, SeqMonotonic
<1>4. IndicesIn(p) \in [1..Len(p) -> Seq(Nat)] /\ \A g \in 1..Len(p) : IndicesIn(p)[g] = p[g].indices
  BY <1>2, <1>3 DEF IndicesIn
<1>5. IndicesIn(p) \in Seq(Seq(Nat)) /\ Len(IndicesIn(p)) = Len(p)
  BY <1>2, <1>4, SeqDef
<1> QED BY <1>1, <1>2, <1>3, <1>4, <1>5, EmptySeq

(* A segment grows exactly when the exact count allows it: the estimate is *)
(* never less, and is not the last word.                                   *)
LEMMA GrownTokens ==
    ASSUME NEW ms \in Lists(MaxMemories), NEW m \in 1..Len(ms), NEW s, Planned(ms, s),
           LastOf(s.indices) < m, limit \in Contexts
    PROVE  Grown(ms, s, m).estimated > SoftLimit
             <=> Tokens(TextsOf(ms, Append(s.indices, m))) > SoftLimit
<1> DEFINE exact == Tokens(TextsOf(ms, Append(s.indices, m)))
           g == Grown(ms, s, m)
<1>1. /\ Planned(ms, g) /\ TokensIn(ms, g) <= g.estimated
  BY GrownIsPlanned
<1>2. g.indices = Append(s.indices, m)
  BY DEF Grown, Segment
<1>3. TokensIn(ms, g) = exact
  BY <1>2 DEF TokensIn
<1>4. g.estimated \in Nat /\ SoftLimit \in Nat
  BY <1>1, SoftBelow DEF Planned, Shaped
<1>5. exact \in Nat
  <2>1. g.indices \in Seq(1..Len(ms)) /\ g.indices # <<>> /\ Len(g.indices) <= LastOf(g.indices)
    BY <1>1 DEF Planned, Shaped
  <2>2. PICK x : x = g.indices
    OBVIOUS
  <2>3. Len(x) \in 1..Len(x) /\ x \in Seq(1..Len(ms)) /\ Len(x) <= LastOf(x)
    BY <2>1, <2>2
  <2>4. LastOf(x) \in 1..Len(ms)
    BY <2>3, ElementOfSeq DEF LastOf
  <2>5. Len(ms) \in Nat /\ Len(ms) <= MaxMemories /\ MaxMemories \in Nat
    BY ListsAre, BoundsAssumption
  <2>6. Len(x) <= MaxMemories
    BY <2>3, <2>4, <2>5
  <2>7. Tokens(TextsOf(ms, x)) \in Nat
    BY <2>3, <2>6, TextsAreList
  <2> QED BY <1>2, <2>2, <2>7
<1>6. IF Estimate(s, ms[m]) <= SoftLimit
      THEN g.estimated = Estimate(s, ms[m]) ELSE g.estimated = exact
  BY DEF Grown, Segment
<1> HIDE DEF g, exact
<1>7. PICK e : e = g.estimated
  OBVIOUS
<1>8. PICK soft : soft = SoftLimit
  OBVIOUS
<1>9. PICK count : count = exact
  OBVIOUS
<1>10. e \in Nat /\ soft \in Nat /\ count \in Nat /\ count <= e /\ (e <= soft \/ e = count)
  BY <1>1, <1>3, <1>4, <1>5, <1>6, <1>7, <1>8, <1>9
<1>11. e > soft <=> count > soft
  BY <1>10
<1>12. g.estimated > SoftLimit <=> exact > SoftLimit
  BY <1>7, <1>8, <1>9, <1>11
<1> QED BY <1>12 DEF g, exact

LEMMA StartsWhereCut ==
    ASSUME NEW ms \in Lists(MaxMemories), NEW m \in 1..Len(ms), NEW p \in PlansFor(ms),
           NEW bs, NEW head, NEW number, limit \in Contexts,
           Follows(IndicesIn(p), head, number, m - 1), EndOf(IndicesIn(p)) = m - 1
    PROVE  /\ p = <<>> <=> m = 1
           /\ m # 1 => number[m - 1] = Len(p)
           /\ Starts(ms, p, m, m \in bs) <=> m = 1 \/ Begins(ms, bs, head[m - 1], m)
<1> DEFINE x == IndicesIn(p)  l == Len(p)
<1>1. /\ l \in Nat /\ Len(x) = l /\ (x = <<>> <=> p = <<>>)
      /\ \A g \in 1..l : x[g] = p[g].indices
  BY IndicesInPlan
<1>2. Len(ms) \in Nat /\ m - 1 \in Nat /\ m \in 1..m - 1 + 1
  BY ListsAre, LenProperties
<1>3. Follows(x, head, number, m - 1) /\ EndOf(x) = m - 1
  OBVIOUS
<1> HIDE DEF x
<1>4. /\ x = <<>> <=> m = 1
      /\ x # <<>> => /\ number[m - 1] = Len(x)
                     /\ Append(LastOf(x), m) = Run(head[m - 1], m)
  BY <1>2, <1>3, LastFollows
<1>5. CASE p = <<>>
  BY <1>1, <1>4, <1>5 DEF Starts
<1>6. CASE p # <<>>
  <2>1. l \in 1..l
    BY <1>1, <1>6, IndicesInPlan, EmptySeq DEF PlansFor
  <2>2. LastOf(x) = LastOf(p).indices /\ LastOf(p) = p[l] /\ x[l] = p[l].indices /\ x # <<>>
    BY <1>1, <1>6, <2>1 DEF LastOf
  <2>3. Planned(ms, LastOf(p))
    BY <2>1, <2>2 DEF PlansFor
  <2>4. LastOf(LastOf(p).indices) = m - 1
    BY <1>3, <2>2 DEF EndOf
  <2>5. m - 1 < m
    BY <1>2
  <2>6. Grown(ms, LastOf(p), m).estimated > SoftLimit
          <=> Tokens(TextsOf(ms, Append(LastOf(p).indices, m))) > SoftLimit
    BY <2>3, <2>4, <2>5, GrownTokens
  <2>7. Append(LastOf(p).indices, m) = Run(head[m - 1], m)
    BY <1>4, <2>2
  <2> QED BY <1>1, <1>4, <1>6, <2>2, <2>6, <2>7 DEF Starts, Begins
<1> QED BY <1>5, <1>6

LEMMA PlacedIndices ==
    ASSUME NEW ms \in Lists(MaxMemories), NEW m \in 1..Len(ms), NEW p \in PlansFor(ms), NEW manual,
           Placed(ms, p, m, manual) \in PlansFor(ms)
    PROVE  LET x == IndicesIn(p)  y == IndicesIn(Placed(ms, p, m, manual))
           IN IF Starts(ms, p, m, manual) THEN y = Append(x, <<m>>)
              ELSE p # <<>> /\ y = [x EXCEPT ![Len(x)] = Append(@, m)]
<1> DEFINE x == IndicesIn(p)  q == Placed(ms, p, m, manual)  y == IndicesIn(q)  l == Len(p)
           alone == Segment(<<m>>, Tokens(<<ms[m]>>), Tokens(<<ms[m]>>))
           R == [indices : Seq(1..Len(ms)), estimated : Nat, exact : Nat]
<1>1. /\ l \in Nat /\ Len(x) = l /\ x \in Seq(Seq(Nat))
      /\ \A g \in 1..l : x[g] = p[g].indices
  BY IndicesInPlan
<1>2. y \in Seq(Seq(Nat)) /\ Len(y) = Len(q) /\ \A g \in 1..Len(q) : y[g] = q[g].indices
  BY IndicesInPlan
<1>3. p \in Seq(R) /\ q \in Seq(R)
  BY DEF PlansFor
<1>4. CASE Starts(ms, p, m, manual)
  <2>1. q = Append(p, alone)
    BY <1>4 DEF Placed
  <2>2. alone.indices = <<m>> /\ <<m>> \in Seq(Nat)
    BY DEF Segment
  <2> HIDE DEF alone, R, x, y, q, l
  <2>3. Len(q) = l + 1 /\ q[l + 1] = alone /\ \A g \in 1..l : q[g] = p[g]
    BY <1>3, <2>1 DEF l
  <2>4. /\ Append(x, <<m>>) \in Seq(Seq(Nat)) /\ Len(Append(x, <<m>>)) = l + 1
        /\ Append(x, <<m>>)[l + 1] = <<m>>
        /\ \A g \in 1..l : Append(x, <<m>>)[g] = x[g]
    BY <1>1, <2>2, AppendProperties
  <2>5. \A g \in 1..l + 1 : y[g] = Append(x, <<m>>)[g]
    <3>1. \A g \in 1..l + 1 : g \in 1..l \/ g = l + 1
      BY <1>1
    <3>2. \A g \in 1..l + 1 : y[g] = q[g].indices
      BY <1>2, <2>3
    <3>3. y[l + 1] = <<m>>
      BY <1>1, <2>2, <2>3, <3>2
    <3> QED BY <1>1, <2>3, <2>4, <3>1, <3>2, <3>3
  <2>6. y = Append(x, <<m>>)
    BY <1>2, <2>3, <2>4, <2>5, SeqEqual
  <2> QED BY <1>4, <2>6 DEF x, y, q
<1>5. CASE ~Starts(ms, p, m, manual)
  <2> DEFINE grown == Grown(ms, p[l], m)
             z == Append(x[l], m)
  <2>1. q = [p EXCEPT ![l] = grown] /\ p # <<>>
    BY <1>5 DEF Placed, Starts
  <2>2. l \in 1..l
    BY <1>1, <1>3, <2>1, EmptySeq
  <2>3. grown.indices = Append(p[l].indices, m)
    BY DEF Grown, Segment
  <2>4. grown.indices = z
    BY <1>1, <2>2, <2>3
  <2>5. z \in Seq(Nat)
    <3>1. x[l] \in Seq(Nat)
      BY <1>1, <2>2, ElementOfSeq
    <3>2. m \in Nat
      OBVIOUS
    <3> HIDE DEF x, l
    <3> QED BY <3>1, <3>2, AppendProperties
  <2> HIDE DEF grown, R, x, y, q, l, z
  <2>6. \A g \in 1..l : q[g] = IF g = l THEN grown ELSE p[g]
    <3>1. DOMAIN p = 1..l
      BY <1>3, LenProperties DEF l
    <3> QED BY <2>1, <3>1
  <2>7. Len(q) = l
    <3>1. DOMAIN q = DOMAIN p /\ DOMAIN q = 1..Len(q) /\ DOMAIN p = 1..l
      BY <1>3, <2>1, LenProperties DEF l
    <3>2. PICK n \in Nat : n = Len(q)
      BY <1>3, LenProperties
    <3>3. PICK k \in Nat : k = l
      BY <1>1
    <3>4. 1..n = 1..k
      BY <3>1, <3>2, <3>3
    <3>5. n = k
      BY <3>4
    <3> QED BY <3>2, <3>3, <3>5
  <2>8. /\ [x EXCEPT ![l] = z] \in Seq(Seq(Nat)) /\ Len([x EXCEPT ![l] = z]) = l
        /\ \A g \in 1..l : [x EXCEPT ![l] = z][g] = IF g = l THEN z ELSE x[g]
    BY <1>1, <2>2, <2>5, ExceptSeq
  <2>9. \A g \in 1..l : y[g] = [x EXCEPT ![l] = z][g]
    <3> SUFFICES ASSUME NEW g \in 1..l PROVE y[g] = [x EXCEPT ![l] = z][g]
      OBVIOUS
    <3>1. y[g] = q[g].indices /\ x[g] = p[g].indices
      BY <1>1, <1>2, <2>7
    <3>2. CASE g = l
      BY <2>4, <2>6, <2>8, <3>1, <3>2
    <3>3. CASE g # l
      BY <2>6, <2>8, <3>1, <3>3
    <3> QED BY <3>2, <3>3
  <2>10. y = [x EXCEPT ![l] = z]
    BY <1>2, <2>7, <2>8, <2>9, SeqEqual
  <2>11. [x EXCEPT ![Len(x)] = Append(@, m)] = [x EXCEPT ![l] = z]
    BY <1>1 DEF z
  <2> QED BY <1>5, <2>1, <2>10, <2>11 DEF x, y, q
<1> QED BY <1>4, <1>5

(* Placing a memory follows the cut, and the cut says that it is admitted. *)
LEMMA PlacedFollows ==
    ASSUME NEW ms \in Lists(MaxMemories), NEW m \in 1..Len(ms), NEW p \in PlansFor(ms),
           NEW bs, NEW head, NEW number, limit \in Contexts, Cut(head, number, ms, bs),
           Follows(IndicesIn(p), head, number, m - 1), EndOf(IndicesIn(p)) = m - 1
    PROVE  /\ Admitted(ms, p, m, m \in bs, SoftLimit)
           /\ LET y == IndicesIn(Placed(ms, p, m, m \in bs))
              IN Follows(y, head, number, m) /\ EndOf(y) = m
<1> DEFINE x == IndicesIn(p)  manual == m \in bs  y == IndicesIn(Placed(ms, p, m, manual))
<1>1. /\ p = <<>> <=> m = 1
      /\ m # 1 => number[m - 1] = Len(p)
      /\ Starts(ms, p, m, manual) <=> m = 1 \/ Begins(ms, bs, head[m - 1], m)
  BY StartsWhereCut
<1>2. /\ head[m] \in 1..m /\ number[m] \in 1..MaxSegments
      /\ Tokens(<<ms[m]>>) <= SoftLimit
      /\ IF m = 1 THEN head[m] = 1 /\ number[m] = 1
         ELSE IF Begins(ms, bs, head[m - 1], m)
         THEN head[m] = m /\ number[m] = number[m - 1] + 1
         ELSE head[m] = head[m - 1] /\ number[m] = number[m - 1]
  BY DEF Cut
<1>3. Len(p) \in Nat /\ Len(x) = Len(p) /\ (p = <<>> <=> Len(p) = 0)
      /\ (x = <<>> <=> p = <<>>)
  BY IndicesInPlan, EmptySeq DEF PlansFor
<1>4. m \in Nat /\ m # 0 /\ m - 1 \in Nat /\ m - 1 <= m /\ m \in 1..m /\ MaxSegments \in Nat
  BY ListsAre, LenProperties, BoundsAssumption
<1>5. Starts(ms, p, m, manual) => head[m] = m /\ number[m] = Len(p) + 1
  BY <1>1, <1>2, <1>3
<1>6. ~Starts(ms, p, m, manual) => head[m] = head[m - 1] /\ number[m] = number[m - 1]
  BY <1>1, <1>2
<1>7. Admitted(ms, p, m, manual, SoftLimit)
  <2>1. Starts(ms, p, m, manual) => Len(p) < MaxSegments
    BY <1>2, <1>3, <1>4, <1>5
  <2> QED BY <1>2, <2>1 DEF Admitted
<1>8. p # <<>> => LastOf(LastOf(p).indices) < m
  <2> HAVE p # <<>>
  <2>1. Len(p) \in 1..Len(p)
    BY <1>3
  <2>2. LastOf(x) = LastOf(p).indices
    BY <1>3, <2>1, IndicesInPlan DEF LastOf
  <2>3. LastOf(LastOf(x)) = m - 1
    BY <1>3 DEF EndOf
  <2> QED BY <1>4, <2>2, <2>3
<1>9. Placed(ms, p, m, manual) \in PlansFor(ms)
  <2>1. manual \in BOOLEAN
    OBVIOUS
  <2> HIDE DEF manual
  <2> QED BY <1>7, <1>8, <2>1, PlacedIsPlanned
<1>10. ASSUME NEW b \in BOOLEAN, b = manual
       PROVE  IF Starts(ms, p, m, b) THEN IndicesIn(Placed(ms, p, m, b)) = Append(x, <<m>>)
              ELSE p # <<>> /\ IndicesIn(Placed(ms, p, m, b)) = [x EXCEPT ![Len(x)] = Append(@, m)]
  <2>1. Placed(ms, p, m, b) \in PlansFor(ms)
    BY <1>9, <1>10
  <2> HIDE DEF manual
  <2> QED BY <2>1, PlacedIndices
<1>11. Follows(x, head, number, m) /\ EndOf(x) = m - 1
  BY <1>4, FollowsFurther
<1>12. manual \in BOOLEAN
  OBVIOUS
<1> HIDE DEF x, y, manual
<1>13. PICK b \in BOOLEAN : b = manual
  BY <1>12
<1>14. y = IndicesIn(Placed(ms, p, m, b))
  BY <1>13 DEF y
<1>15. IF Starts(ms, p, m, manual) THEN y = Append(x, <<m>>)
       ELSE p # <<>> /\ y = [x EXCEPT ![Len(x)] = Append(@, m)]
  BY <1>10, <1>13, <1>14
<1>16. Starts(ms, p, m, manual) => Follows(y, head, number, m) /\ EndOf(y) = m
  <2> SUFFICES ASSUME Starts(ms, p, m, manual)
               PROVE  Follows(y, head, number, m) /\ EndOf(y) = m
    OBVIOUS
  <2>1. head[m] = m /\ number[m] = Len(x) + 1
    BY <1>3, <1>5
  <2>2. Follows(Append(x, <<m>>), head, number, m) /\ EndOf(Append(x, <<m>>)) = m
    BY <1>4, <1>11, <2>1, FollowsWithNew
  <2> QED BY <1>15, <2>2
<1>17. ~Starts(ms, p, m, manual) => Follows(y, head, number, m) /\ EndOf(y) = m
  <2> SUFFICES ASSUME ~Starts(ms, p, m, manual)
               PROVE  Follows(y, head, number, m) /\ EndOf(y) = m
    OBVIOUS
  <2>1. x # <<>>
    BY <1>3, <1>15
  <2>2. head[m] = head[m - 1] /\ number[m] = number[m - 1]
    BY <1>6
  <2>3. LET z == [x EXCEPT ![Len(x)] = Append(@, m)]
        IN Follows(z, head, number, m) /\ EndOf(z) = m
    BY <1>4, <1>11, <2>1, <2>2, FollowsWithMore
  <2> QED BY <1>15, <2>3
<1> QED BY <1>7, <1>16, <1>17 DEF manual, y

-----------------------------------------------------------------------------
(* The cut is an invariant: the facts on disk are the first of those in    *)
(* memory, and the plan and the manifest of the session follow the cut.    *)
SavedInv ==
    /\ Len(saved.memories) <= Len(memories)
    /\ \A m \in 1..Len(saved.memories) :
          saved.memories[m] = memories[m] /\ (m \in boundaries <=> m \in saved.boundaries)

PlanFollows(head, number) ==
    plan # None \/ next # 0 =>
        Follows(IndicesIn(plan), head, number, PlannedTo) /\ EndOf(IndicesIn(plan)) = PlannedTo

ManifestFollows(head, number) ==
    manifest # None => Follows(IndicesIn(manifest), head, number, Len(saved.memories))

CutInv ==
    /\ SavedInv
    /\ ~foreign => /\ ~broken
                   /\ \E head, number : /\ Cut(head, number, memories, boundaries)
                                        /\ PlanFollows(head, number)
                                        /\ ManifestFollows(head, number)

LEMMA FollowsAgree ==
    ASSUME NEW x, NEW head, NEW number, NEW others, NEW places, NEW n \in Nat, NEW k \in Nat,
           n <= k, Follows(x, head, number, n),
           \A m \in 1..n : others[m] = head[m] /\ places[m] = number[m]
    PROVE  Follows(x, others, places, k)
<1>1. ASSUME NEW g \in 1..Len(x) PROVE Holds(x[g], g, others, places, k)
  <2>1. PICK s : s = x[g]
    OBVIOUS
  <2>2. Holds(s, g, head, number, n)
    BY <2>1 DEF Follows
  <2>3. PICK a : a = s[1]
    OBVIOUS
  <2>4. PICK b : b = LastOf(s)
    OBVIOUS
  <2>5. /\ a \in Nat \ {0} /\ b \in a..n /\ s = Run(a, b)
        /\ \A m \in a..b : head[m] = a /\ number[m] = g
    BY <2>2, <2>3, <2>4 DEF Holds
  <2>6. \A m \in a..b : m \in 1..n
    BY <2>5
  <2>7. b \in a..k /\ \A m \in a..b : others[m] = a /\ places[m] = g
    BY <2>5, <2>6
  <2> QED BY <2>1, <2>3, <2>4, <2>5, <2>7 DEF Holds
<1> QED BY <1>1 DEF Follows

LEMMA FollowsPrefix ==
    ASSUME NEW x, NEW head, NEW number, NEW n \in Nat, NEW done \in 1..Len(x),
           Follows(x, head, number, n)
    PROVE  Follows([i \in 1..done |-> x[i]], head, number, n)
<1> DEFINE y == [i \in 1..done |-> x[i]]
<1>1. x \in Seq(Seq(Nat)) /\ Len(x) \in Nat /\ done \in Nat /\ \A i \in 1..done : i \in 1..Len(x)
  BY FollowingLength DEF Follows
<1>2. y \in [1..done -> Seq(Nat)]
  BY <1>1, ElementOfSeq
<1>3. y \in Seq(Seq(Nat)) /\ Len(y) = done
  BY <1>1, <1>2, SeqDef
<1>4. \A i \in 1..done : y[i] = x[i]
  OBVIOUS
<1> HIDE DEF y
<1>5. ASSUME NEW g \in 1..done
      PROVE  /\ Holds(y[g], g, head, number, n)
             /\ y[g][1] = IF g = 1 THEN 1 ELSE LastOf(y[g - 1]) + 1
  <2>1. g \in 1..Len(x) /\ (g # 1 => g - 1 \in 1..done)
    BY <1>1
  <2>2. y[g] = x[g] /\ (g # 1 => y[g - 1] = x[g - 1])
    BY <1>4, <2>1
  <2> QED BY <2>1, <2>2 DEF Follows
<1>6. Follows(y, head, number, n)
  BY <1>3, <1>5 DEF Follows
<1> QED BY <1>6 DEF y

LEMMA EmptyFollows ==
    ASSUME NEW head, NEW number, NEW n
    PROVE  /\ Follows(<<>>, head, number, n) /\ EndOf(<<>>) = 0
           /\ IndicesIn(<<>>) = <<>>
<1>1. <<>> \in Seq(Seq(Nat)) /\ Len(<<>>) = 0
  OBVIOUS
<1>2. Follows(<<>>, head, number, n)
  BY <1>1 DEF Follows
<1>3. IndicesIn(<<>>) = <<>>
  <2>1. [g \in {} |-> <<>>[g].indices] = <<>>
    OBVIOUS
  <2> QED BY <2>1 DEF IndicesIn
<1> QED BY <1>2, <1>3 DEF EndOf

(* The cut of the first memories is that of all of them. *)
LEMMA BeginsSame ==
    ASSUME NEW ms \in Lists(MaxMemories), NEW ns \in Lists(MaxMemories), NEW bs, NEW cs,
           NEW m \in 1..Len(ms), m <= Len(ns), NEW a \in 1..m,
           \A i \in 1..m : ns[i] = ms[i], m \in bs <=> m \in cs
    PROVE  Begins(ns, cs, a, m) <=> Begins(ms, bs, a, m)
<1>1. m \in Nat /\ a \in Nat /\ a <= m
  BY ListsAre, LenProperties
<1>2. DOMAIN Run(a, m) = 1..m - a + 1 /\ \A i \in 1..m - a + 1 : Run(a, m)[i] = a + i - 1
  BY DEF Run
<1>3. \A i \in 1..m - a + 1 : a + i - 1 \in 1..m
  BY <1>1
<1>4. \A i \in 1..m - a + 1 : ns[Run(a, m)[i]] = ms[Run(a, m)[i]]
  BY <1>2, <1>3
<1>5. TextsOf(ns, Run(a, m)) = TextsOf(ms, Run(a, m))
  BY <1>2, <1>4 DEF TextsOf
<1> QED BY <1>5 DEF Begins

LEMMA CutRestricted ==
    ASSUME NEW ms \in Lists(MaxMemories), NEW ns \in Lists(MaxMemories), NEW bs, NEW cs,
           Len(ns) <= Len(ms), NEW head, NEW number, Cut(head, number, ms, bs),
           \A i \in 1..Len(ns) : ns[i] = ms[i] /\ (i \in bs <=> i \in cs)
    PROVE  Cut(head, number, ns, cs)
<1>1. Len(ms) \in Nat /\ Len(ns) \in Nat
  BY ListsAre, LenProperties
<1>2. ASSUME NEW m \in 1..Len(ns)
      PROVE  /\ head[m] \in 1..m /\ number[m] \in 1..MaxSegments
             /\ Tokens(<<ns[m]>>) <= SoftLimit
             /\ IF m = 1 THEN head[m] = 1 /\ number[m] = 1
                ELSE IF Begins(ns, cs, head[m - 1], m)
                THEN head[m] = m /\ number[m] = number[m - 1] + 1
                ELSE head[m] = head[m - 1] /\ number[m] = number[m - 1]
  <2>1. m \in 1..Len(ms) /\ m <= Len(ns) /\ ns[m] = ms[m] /\ \A i \in 1..m : i \in 1..Len(ns)
    BY <1>1
  <2>2. /\ head[m] \in 1..m /\ number[m] \in 1..MaxSegments
        /\ Tokens(<<ms[m]>>) <= SoftLimit
        /\ IF m = 1 THEN head[m] = 1 /\ number[m] = 1
           ELSE IF Begins(ms, bs, head[m - 1], m)
           THEN head[m] = m /\ number[m] = number[m - 1] + 1
           ELSE head[m] = head[m - 1] /\ number[m] = number[m - 1]
    BY <2>1 DEF Cut
  <2>3. m # 1 => (Begins(ns, cs, head[m - 1], m) <=> Begins(ms, bs, head[m - 1], m))
    <3> SUFFICES ASSUME m # 1
                 PROVE  Begins(ns, cs, head[m - 1], m) <=> Begins(ms, bs, head[m - 1], m)
      OBVIOUS
    <3>1. m - 1 \in 1..Len(ms)
      BY <1>1, <2>1
    <3>2. head[m - 1] \in 1..m - 1
      BY <3>1 DEF Cut
    <3>3. PICK a : a = head[m - 1]
      OBVIOUS
    <3>4. a \in 1..m
      BY <3>2, <3>3
    <3>5. \A i \in 1..m : ns[i] = ms[i]
      BY <2>1
    <3>6. Begins(ns, cs, a, m) <=> Begins(ms, bs, a, m)
      BY <2>1, <3>4, <3>5, BeginsSame
    <3> QED BY <3>3, <3>6
  <2> QED BY <2>1, <2>2, <2>3
<1> QED BY <1>2 DEF Cut

(* The cut of one more memory that is admitted. *)
LEMMA CutExtended ==
    ASSUME NEW ms \in Lists(MaxMemories), NEW more \in Lists(MaxMemories), NEW m \in 1..Len(more),
           Len(more) = m, Len(ms) = m - 1, \A i \in 1..m - 1 : more[i] = ms[i],
           NEW bs, NEW head, NEW number, Cut(head, number, ms, bs), limit \in Contexts,
           NEW p \in PlansFor(more),
           Follows(IndicesIn(p), head, number, m - 1), EndOf(IndicesIn(p)) = m - 1,
           Admitted(more, p, m, m \in bs, SoftLimit)
    PROVE  \E others, places : /\ Cut(others, places, more, bs)
                               /\ \A i \in 1..m - 1 : others[i] = head[i] /\ places[i] = number[i]
<1> DEFINE st == Starts(more, p, m, m \in bs)
           others == [i \in 1..m |-> IF i = m THEN IF st THEN m ELSE head[m - 1] ELSE head[i]]
           places == [i \in 1..m |-> IF i = m THEN IF st THEN Len(p) + 1 ELSE number[m - 1]
                                     ELSE number[i]]
<1>1. m \in Nat \ {0} /\ m - 1 \in Nat /\ MaxSegments \in Nat
  BY ListsAre, LenProperties, BoundsAssumption
<1>2. \A i \in 1..m - 1 : i \in 1..m /\ i # m
  BY <1>1
<1>3. \A i \in 1..m - 1 : others[i] = head[i] /\ places[i] = number[i]
  BY <1>2
<1>4. others[m] = (IF st THEN m ELSE head[m - 1]) /\ places[m] = (IF st THEN Len(p) + 1 ELSE number[m - 1])
  BY <1>1
<1> HIDE DEF others, places
<1>5. Follows(IndicesIn(p), others, places, m - 1)
  <2>1. PICK n \in Nat : n = m - 1
    BY <1>1
  <2>2. n <= n /\ Follows(IndicesIn(p), head, number, n)
    BY <2>1
  <2>3. \A i \in 1..n : others[i] = head[i] /\ places[i] = number[i]
    BY <1>3, <2>1
  <2>4. Follows(IndicesIn(p), others, places, n)
    BY <2>2, <2>3, FollowsAgree
  <2> QED BY <2>1, <2>4
<1>6. /\ p = <<>> <=> m = 1
      /\ m # 1 => places[m - 1] = Len(p)
      /\ st <=> m = 1 \/ Begins(more, bs, others[m - 1], m)
  BY <1>5, StartsWhereCut
<1>7. Len(p) \in Nat /\ (p = <<>> <=> Len(p) = 0)
  BY IndicesInPlan, EmptySeq DEF PlansFor
<1>8. Tokens(<<more[m]>>) <= SoftLimit /\ (st => Len(p) < MaxSegments)
  BY DEF Admitted
<1> HIDE DEF st
<1>9. m # 1 => /\ m - 1 \in 1..m - 1 /\ others[m - 1] = head[m - 1] /\ places[m - 1] = number[m - 1]
               /\ head[m - 1] \in 1..m - 1 /\ number[m - 1] \in 1..MaxSegments
  <2> SUFFICES ASSUME m # 1
               PROVE  /\ m - 1 \in 1..m - 1 /\ others[m - 1] = head[m - 1]
                      /\ places[m - 1] = number[m - 1]
                      /\ head[m - 1] \in 1..m - 1 /\ number[m - 1] \in 1..MaxSegments
    OBVIOUS
  <2>1. m - 1 \in 1..m - 1
    BY <1>1
  <2>2. head[m - 1] \in 1..m - 1 /\ number[m - 1] \in 1..MaxSegments
    BY <2>1 DEF Cut
  <2> QED BY <1>3, <2>1, <2>2
<1>10. /\ others[m] \in 1..m /\ places[m] \in 1..MaxSegments
       /\ IF m = 1 THEN others[m] = 1 /\ places[m] = 1
          ELSE IF Begins(more, bs, others[m - 1], m)
          THEN others[m] = m /\ places[m] = places[m - 1] + 1
          ELSE others[m] = others[m - 1] /\ places[m] = places[m - 1]
  <2>1. CASE st
    <3>1. others[m] = m /\ places[m] = Len(p) + 1 /\ m \in 1..m
      BY <1>1, <1>4, <2>1
    <3>2. Len(p) + 1 \in 1..MaxSegments
      BY <1>1, <1>7, <1>8, <2>1
    <3> QED BY <1>6, <1>7, <2>1, <3>1, <3>2
  <2>2. CASE ~st
    <3>1. m # 1 /\ others[m] = head[m - 1] /\ places[m] = number[m - 1]
      BY <1>4, <1>6, <2>2
    <3>2. \A a \in 1..m - 1 : a \in 1..m
      BY <1>1
    <3> QED BY <1>6, <1>9, <2>2, <3>1, <3>2
  <2> QED BY <2>1, <2>2
<1>11. ASSUME NEW i \in 1..m - 1
       PROVE  /\ others[i] \in 1..i /\ places[i] \in 1..MaxSegments
              /\ Tokens(<<more[i]>>) <= SoftLimit
              /\ IF i = 1 THEN others[i] = 1 /\ places[i] = 1
                 ELSE IF Begins(more, bs, others[i - 1], i)
                 THEN others[i] = i /\ places[i] = places[i - 1] + 1
                 ELSE others[i] = others[i - 1] /\ places[i] = places[i - 1]
  <2>1. /\ head[i] \in 1..i /\ number[i] \in 1..MaxSegments
        /\ Tokens(<<ms[i]>>) <= SoftLimit
        /\ IF i = 1 THEN head[i] = 1 /\ number[i] = 1
           ELSE IF Begins(ms, bs, head[i - 1], i)
           THEN head[i] = i /\ number[i] = number[i - 1] + 1
           ELSE head[i] = head[i - 1] /\ number[i] = number[i - 1]
    BY DEF Cut
  <2>2. i # 1 => /\ i - 1 \in 1..m - 1
                 /\ (Begins(more, bs, head[i - 1], i) <=> Begins(ms, bs, head[i - 1], i))
    <3> SUFFICES ASSUME i # 1
                 PROVE  /\ i - 1 \in 1..m - 1
                        /\ (Begins(more, bs, head[i - 1], i) <=> Begins(ms, bs, head[i - 1], i))
      OBVIOUS
    <3>1. i - 1 \in 1..m - 1
      BY <1>1
    <3>2. head[i - 1] \in 1..i - 1
      BY <3>1 DEF Cut
    <3>3. PICK a : a = head[i - 1]
      OBVIOUS
    <3>4. a \in 1..i /\ i <= Len(more) /\ i \in 1..Len(ms) /\ \A k \in 1..i : more[k] = ms[k]
      BY <1>1, <3>2, <3>3
    <3>5. Begins(more, bs, a, i) <=> Begins(ms, bs, a, i)
      BY <3>4, BeginsSame
    <3> QED BY <3>1, <3>3, <3>5
  <2>3. others[i] = head[i] /\ places[i] = number[i] /\ more[i] = ms[i]
    BY <1>3
  <2>4. i # 1 => others[i - 1] = head[i - 1] /\ places[i - 1] = number[i - 1]
    BY <1>3, <2>2
  <2> QED BY <2>1, <2>2, <2>3, <2>4
<1>12. \A i \in 1..Len(more) : i \in 1..m - 1 \/ i = m
  BY <1>1
<1>13. Cut(others, places, more, bs)
  BY <1>8, <1>10, <1>11, <1>12 DEF Cut
<1> QED BY <1>3, <1>13

(* The cut of the next state, for a limit that stays. *)
LEMMA CutNext ==
    ASSUME NEW head, NEW number, limit' = limit, Cut(head, number, memories', boundaries')
    PROVE  Cut(head, number, memories, boundaries)'
BY DEF Cut, Begins, SoftLimit

LEMMA FactsAre ==
    ASSUME FactsInv
    PROVE  /\ memories \in Lists(MaxMemories) /\ Len(memories) \in Nat
           /\ saved.memories \in Lists(MaxMemories) /\ Len(saved.memories) \in Nat
           /\ next \in 0..Len(memories) /\ limit \in Contexts
BY ListsAre, LenProperties DEF FactsInv

LEMMA InitCut == Init => CutInv
<1>1. SUFFICES ASSUME Init PROVE CutInv
  OBVIOUS
<1>2. /\ memories = <<>> /\ plan = <<>> /\ next = 0 /\ manifest = None /\ broken = FALSE
      /\ saved.memories = <<>> /\ Len(<<>>) = 0
  BY <1>1 DEF Init
<1>3. SavedInv
  BY <1>2 DEF SavedInv
<1>4. Cut(<<>>, <<>>, memories, boundaries)
  BY <1>2 DEF Cut
<1>5. PlanFollows(<<>>, <<>>) /\ ManifestFollows(<<>>, <<>>)
  BY <1>2, EmptyFollows DEF PlanFollows, ManifestFollows, PlannedTo
<1> QED BY <1>2, <1>3, <1>4, <1>5 DEF CutInv

(* A manifest that fits follows the cut to the last memory. *)
LEMMA RestoredFollows ==
    ASSUME IInv, SavedInv, ManifestFits, memories # <<>>, NEW head, NEW number,
           ManifestFollows(head, number)
    PROVE  Follows(IndicesIn(Restored), head, number, Len(memories))
           /\ EndOf(IndicesIn(Restored)) = Len(memories)
<1> DEFINE x == IndicesIn(manifest)  n == Len(memories)
<1>1. /\ manifest # None /\ manifest \in Seq(Entries) /\ Len(manifest) \in 1..MaxSegments
      /\ DOMAIN manifest = 1..Len(manifest)
  BY LenProperties DEF IInv, ManifestInv, ManifestFits
<1>2. n \in Nat \ {0} /\ Len(saved.memories) \in Nat /\ Len(saved.memories) <= n
  BY FactsAre, ListsAre, EmptySeq DEF IInv, SavedInv
<1>3. Follows(x, head, number, n)
  BY <1>1, <1>2, FollowsFurther DEF ManifestFollows
<1>4. IndicesIn(Restored) = x
  <2>1. DOMAIN Restored = DOMAIN manifest /\ \A i \in DOMAIN manifest : Restored[i].indices = manifest[i].indices
    BY DEF Restored, Segment
  <2> QED BY <2>1 DEF IndicesIn
<1>5. /\ DOMAIN x = 1..Len(x) /\ Len(x) \in Nat /\ DOMAIN x = DOMAIN manifest
      /\ \A i \in 1..Len(x) : x[i] = manifest[i].indices
  BY <1>2, <1>3, FollowingLength DEF IndicesIn
<1>6. PICK g \in 1..Len(x) : \E k \in DOMAIN x[g] : x[g][k] = n
  <2> DEFINE Holders(m) == {i \in DOMAIN manifest : \E k \in DOMAIN manifest[i].indices : manifest[i].indices[k] = m}
  <2>1. n \in DOMAIN memories
    <3>1. memories \in Seq(Texts)
      BY FactsAre, ListsAre DEF IInv
    <3> QED BY <1>2, <3>1, LenProperties
  <2>2. Cardinality(Holders(n)) = 1
    BY <2>1 DEF ManifestFits
  <2>3. Holders(n) # {}
    BY <2>2, FS_EmptySet
  <2>4. PICK i \in DOMAIN manifest :
           \E k \in DOMAIN manifest[i].indices : manifest[i].indices[k] = n
    BY <2>3
  <2> HIDE DEF x, n
  <2>5. i \in 1..Len(x) /\ x[i] = manifest[i].indices
    BY <1>5, <2>4
  <2> QED BY <2>4, <2>5
<1> HIDE DEF x
<1>7. PICK s : s = x[g]
  OBVIOUS
<1>8. PICK a : a = s[1]
  OBVIOUS
<1>9. PICK b : b = LastOf(s)
  OBVIOUS
<1>10. a \in Nat \ {0} /\ b \in a..n /\ s = Run(a, b)
  <2>1. Holds(s, g, head, number, n)
    BY <1>3, <1>7 DEF Follows
  <2> QED BY <1>8, <1>9, <2>1 DEF Holds
<1>11. b = n
  <2>1. PICK k \in DOMAIN s : s[k] = n
    BY <1>6, <1>7
  <2>2. DOMAIN s = 1..b - a + 1 /\ \A i \in 1..b - a + 1 : s[i] = a + i - 1
    BY <1>10 DEF Run
  <2>3. PICK j : j = k
    OBVIOUS
  <2>4. j \in 1..b - a + 1 /\ a + j - 1 = n
    BY <2>1, <2>2, <2>3
  <2> QED BY <1>2, <1>10, <2>4
<1>12. g = Len(x)
  <2> SUFFICES ASSUME g # Len(x) PROVE FALSE
    OBVIOUS
  <2>1. PICK j : j = g + 1
    OBVIOUS
  <2>2. j \in 1..Len(x) /\ j # 1 /\ j - 1 = g
    <3>1. PICK l \in Nat : l = Len(x)
      BY <1>5
    <3>2. g \in 1..l /\ g # l
      BY <3>1
    <3> QED BY <2>1, <3>1, <3>2
  <2>3. x[j][1] = LastOf(x[g]) + 1 /\ Holds(x[j], j, head, number, n)
    BY <1>3, <2>2 DEF Follows
  <2>4. PICK c : c = x[j][1]
    OBVIOUS
  <2>5. PICK d : d = LastOf(x[j])
    OBVIOUS
  <2>6. c = n + 1 /\ c \in Nat /\ d \in c..n
    BY <1>7, <1>9, <1>11, <2>3, <2>4, <2>5 DEF Holds
  <2> QED BY <1>2, <2>6
<1>13. EndOf(x) = n
  <2>1. x # <<>>
    BY <1>2, <1>3, <1>5, FollowingLength
  <2> QED BY <1>7, <1>9, <1>11, <1>12, <2>1 DEF EndOf, LastOf
<1> QED BY <1>3, <1>4, <1>13 DEF x

LEMMA PrepareCut == IInv /\ CutInv /\ Prepare => CutInv'
<1>1. SUFFICES ASSUME IInv, CutInv, Prepare PROVE CutInv'
  OBVIOUS
<1>2. /\ memories' = memories /\ boundaries' = boundaries /\ saved' = saved
      /\ manifest' = manifest /\ limit' = limit /\ foreign' = foreign /\ broken' = broken
  BY <1>1 DEF Prepare
<1>3. memories \in Seq(Texts) /\ Len(memories) \in Nat
  BY <1>1, FactsAre, ListsAre DEF IInv
<1>4. SavedInv'
  BY <1>1, <1>2 DEF CutInv, SavedInv
<1>5. ASSUME ~foreign
      PROVE  \E head, number : (/\ Cut(head, number, memories, boundaries)
                                /\ PlanFollows(head, number)
                                /\ ManifestFollows(head, number))'
  <2>1. PICK head, number : /\ Cut(head, number, memories, boundaries)
                            /\ ManifestFollows(head, number)
    BY <1>1, <1>5 DEF CutInv
  <2>2. Cut(head, number, memories, boundaries)'
    BY <1>2, <2>1 DEF Cut, Begins, SoftLimit
  <2>3. ManifestFollows(head, number)'
    BY <1>2, <2>1 DEF ManifestFollows
  <2>4. PlanFollows(head, number)'
    <3>1. CASE memories = <<>>
      <4>1. plan' = <<>> /\ next' = 0 /\ Len(memories') = 0
        BY <1>1, <1>2, <1>3, <3>1, EmptySeq DEF Prepare
      <4>2. PlannedTo' = 0
        BY <4>1 DEF PlannedTo
      <4> QED BY <4>1, <4>2, EmptyFollows DEF PlanFollows
    <3>2. CASE memories # <<>> /\ ManifestFits
      <4>1. plan' = Restored /\ PlannedTo' = Len(memories)
        BY <1>1, <1>2, <3>2 DEF Prepare, PlannedTo
      <4>2. Follows(IndicesIn(Restored), head, number, Len(memories))
            /\ EndOf(IndicesIn(Restored)) = Len(memories)
        BY <1>1, <2>1, <3>2, RestoredFollows DEF CutInv
      <4> QED BY <4>1, <4>2 DEF PlanFollows
    <3>3. CASE memories # <<>> /\ ~ManifestFits
      <4>1. plan' = <<>> /\ next' = 1
        BY <1>1, <3>3 DEF Prepare
      <4>2. PlannedTo' = 0
        BY <4>1 DEF PlannedTo
      <4> QED BY <4>1, <4>2, EmptyFollows DEF PlanFollows
    <3> QED BY <3>1, <3>2, <3>3
  <2> QED BY <2>2, <2>3, <2>4
<1> QED BY <1>1, <1>2, <1>4, <1>5 DEF CutInv

LEMMA RebuildCut == IInv /\ CutInv /\ Rebuild => CutInv'
<1>1. SUFFICES ASSUME IInv, CutInv, Rebuild PROVE CutInv'
  OBVIOUS
<1>2. /\ next # 0 /\ memories' = memories /\ boundaries' = boundaries /\ saved' = saved
      /\ manifest' = manifest /\ limit' = limit /\ foreign' = foreign
  BY <1>1 DEF Rebuild
<1>3. /\ memories \in Lists(MaxMemories) /\ next \in 1..Len(memories) /\ Len(memories) \in Nat
      /\ limit \in Contexts /\ plan \in PlansFor(memories)
  BY <1>1, <1>2, FactsAre DEF IInv, PlanInv
<1>4. SavedInv'
  BY <1>1, <1>2 DEF CutInv, SavedInv
<1>5. ASSUME ~foreign
      PROVE  /\ ~broken'
             /\ \E head, number : (/\ Cut(head, number, memories, boundaries)
                                   /\ PlanFollows(head, number)
                                   /\ ManifestFollows(head, number))'
  <2>1. PICK head, number : /\ Cut(head, number, memories, boundaries)
                            /\ PlanFollows(head, number) /\ ManifestFollows(head, number)
    BY <1>1, <1>5 DEF CutInv
  <2>2. Cut(head, number, memories, boundaries)'
    BY <1>2, <2>1 DEF Cut, Begins, SoftLimit
  <2>3. ManifestFollows(head, number)'
    BY <1>2, <2>1 DEF ManifestFollows
  <2>4. Follows(IndicesIn(plan), head, number, next - 1) /\ EndOf(IndicesIn(plan)) = next - 1
    BY <1>2, <2>1 DEF PlanFollows, PlannedTo
  <2> DEFINE manual == next \in boundaries
  <2>5. /\ Admitted(memories, plan, next, manual, SoftLimit)
        /\ LET y == IndicesIn(Placed(memories, plan, next, manual))
           IN Follows(y, head, number, next) /\ EndOf(y) = next
    BY <1>3, <2>1, <2>4, PlacedFollows
  <2>6. /\ plan' = Placed(memories, plan, next, manual)
        /\ next' = IF next = Len(memories) THEN 0 ELSE next + 1
        /\ broken' = broken
    BY <1>1, <2>5 DEF Rebuild
  <2> HIDE DEF manual
  <2>7. PlannedTo' = next
    BY <1>2, <1>3, <2>6 DEF PlannedTo
  <2>8. PlanFollows(head, number)'
    BY <2>5, <2>6, <2>7 DEF PlanFollows
  <2>9. ~broken'
    BY <1>1, <1>5, <2>6 DEF CutInv
  <2> QED BY <2>2, <2>3, <2>8, <2>9
<1> QED BY <1>1, <1>2, <1>4, <1>5 DEF CutInv

LEMMA AddCut == ASSUME NEW t \in Texts PROVE IInv /\ CutInv /\ Add(t) => CutInv'
<1>1. SUFFICES ASSUME IInv, CutInv, Add(t) PROVE CutInv'
  OBVIOUS
<1> DEFINE more == Append(memories, t)
           m == Len(more)
           manual == m \in boundaries
<1>2. /\ plan # None /\ next = 0 /\ Len(memories) < MaxMemories
      /\ Admitted(more, plan, m, manual, SoftLimit)
      /\ memories' = more /\ plan' = Placed(more, plan, m, manual)
      /\ saved' \in {saved, [memories |-> more, boundaries |-> boundaries]}
      /\ boundaries' = boundaries /\ next' = next /\ manifest' = manifest /\ limit' = limit
      /\ foreign' = foreign /\ broken' = broken
  BY <1>1 DEF Add, Ready, MaySave
<1>3. /\ memories \in Lists(MaxMemories) /\ memories \in Seq(Texts) /\ Len(memories) \in Nat
      /\ Len(saved.memories) \in Nat /\ limit \in Contexts
  BY <1>1, FactsAre, ListsAre DEF IInv
<1>4. more \in Seq(Texts) /\ m = Len(memories) + 1 /\ \A i \in 1..Len(memories) : more[i] = memories[i]
  BY <1>3, AppendProperties
<1>5. more \in Lists(MaxMemories)
  <2>1. m <= MaxMemories
    BY <1>2, <1>3, <1>4, BoundsAssumption
  <2> QED BY <1>4, <2>1, ListsAre
<1>6. plan \in PlansFor(more)
  <2>1. plan \in PlansFor(memories)
    BY <1>1, <1>2 DEF IInv, PlanInv
  <2> QED BY <1>3, <2>1, PlansKept
<1> HIDE DEF more
<1>7. m \in 1..Len(more) /\ m \in Nat /\ m - 1 = Len(memories) /\ Len(more) = m
  BY <1>3, <1>4
<1> HIDE DEF m
<1>8. SavedInv'
  <2>1. CASE saved' = saved
    <3>1. Len(saved.memories) <= Len(memories) /\ Len(saved.memories) <= m
      BY <1>1, <1>3, <1>4 DEF CutInv, SavedInv
    <3>2. \A i \in 1..Len(saved.memories) : i \in 1..Len(memories)
      BY <1>3, <3>1
    <3> QED BY <1>1, <1>2, <1>4, <1>7, <2>1, <3>1, <3>2 DEF CutInv, SavedInv
  <2>2. CASE saved' = [memories |-> more, boundaries |-> boundaries]
    <3>1. Len(more) <= Len(more)
      BY <1>7
    <3> QED BY <1>2, <2>2, <3>1 DEF SavedInv
  <2> QED BY <1>2, <2>1, <2>2
<1>9. ASSUME ~foreign
      PROVE  \E head, number : (/\ Cut(head, number, memories, boundaries)
                                /\ PlanFollows(head, number)
                                /\ ManifestFollows(head, number))'
  <2>1. PICK head, number : /\ Cut(head, number, memories, boundaries)
                            /\ PlanFollows(head, number) /\ ManifestFollows(head, number)
    BY <1>1, <1>9 DEF CutInv
  <2>2. Follows(IndicesIn(plan), head, number, m - 1) /\ EndOf(IndicesIn(plan)) = m - 1
    BY <1>2, <1>7, <2>1 DEF PlanFollows, PlannedTo
  <2>3. PICK others, places :
           /\ Cut(others, places, more, boundaries)
           /\ \A i \in 1..m - 1 : others[i] = head[i] /\ places[i] = number[i]
    <3>1. \A i \in 1..m - 1 : more[i] = memories[i]
      BY <1>4, <1>7
    <3>2. Admitted(more, plan, m, m \in boundaries, SoftLimit)
      BY <1>2
    <3> QED BY <1>3, <1>5, <1>6, <1>7, <2>1, <2>2, <3>1, <3>2, CutExtended
  <2>4. Follows(IndicesIn(plan), others, places, m - 1)
    <3>1. PICK n \in Nat : n = m - 1
      BY <1>3, <1>7
    <3>2. n <= n /\ Follows(IndicesIn(plan), head, number, n)
      BY <2>2, <3>1
    <3>3. \A i \in 1..n : others[i] = head[i] /\ places[i] = number[i]
      BY <2>3, <3>1
    <3> QED BY <3>1, <3>2, <3>3, FollowsAgree
  <2>5. LET y == IndicesIn(Placed(more, plan, m, manual))
        IN Follows(y, others, places, m) /\ EndOf(y) = m
    BY <1>3, <1>5, <1>6, <1>7, <2>2, <2>3, <2>4, PlacedFollows
  <2> HIDE DEF manual
  <2>6. PlanFollows(others, places)'
    <3>1. PlannedTo' = m
      BY <1>2, <1>7 DEF PlannedTo
    <3> QED BY <1>2, <2>5, <3>1 DEF PlanFollows
  <2>7. Cut(others, places, memories, boundaries)'
    BY <1>2, <2>3, CutNext
  <2>8. ManifestFollows(others, places)'
    <3> SUFFICES ASSUME manifest # None
                 PROVE  Follows(IndicesIn(manifest), others, places, Len(saved'.memories))
      BY <1>2 DEF ManifestFollows
    <3>1. PICK n \in Nat : n = Len(saved.memories)
      BY <1>3
    <3>2. PICK k \in Nat : k = Len(saved'.memories)
      BY <1>2, <1>3, <1>7
    <3>3. n <= Len(memories) /\ (k = n \/ k = m)
      BY <1>1, <1>2, <1>7, <3>1, <3>2 DEF CutInv, SavedInv
    <3>4. n <= k /\ \A i \in 1..n : i \in 1..m - 1
      BY <1>3, <1>4, <1>7, <3>3
    <3>5. Follows(IndicesIn(manifest), head, number, n)
      BY <2>1, <3>1 DEF ManifestFollows
    <3>6. \A i \in 1..n : others[i] = head[i] /\ places[i] = number[i]
      BY <2>3, <3>4
    <3> QED BY <3>2, <3>4, <3>5, <3>6, FollowsAgree
  <2> QED BY <2>6, <2>7, <2>8
<1> QED BY <1>1, <1>2, <1>8, <1>9 DEF CutInv

LEMMA NextSegmentCut == IInv /\ CutInv /\ NextSegment => CutInv'
<1>1. SUFFICES ASSUME IInv, CutInv, NextSegment PROVE CutInv'
  OBVIOUS
<1> DEFINE m == Len(memories) + 1
<1>2. /\ next = 0 /\ boundaries' = boundaries \cup {m}
      /\ saved' \in {saved, [memories |-> memories, boundaries |-> boundaries']}
      /\ memories' = memories /\ plan' = plan /\ next' = next /\ manifest' = manifest
      /\ limit' = limit /\ foreign' = foreign /\ broken' = broken
  BY <1>1 DEF NextSegment, Ready, MaySave
<1>3. /\ memories \in Lists(MaxMemories) /\ Len(memories) \in Nat
      /\ Len(saved.memories) \in Nat /\ Len(saved.memories) <= Len(memories)
  BY <1>1, FactsAre DEF IInv, CutInv, SavedInv
<1>4. \A i \in 1..Len(memories) : i \in boundaries' <=> i \in boundaries
  BY <1>2, <1>3
<1> HIDE DEF m
<1>5. SavedInv'
  <2>1. CASE saved' = saved
    <3>1. \A i \in 1..Len(saved.memories) : i \in 1..Len(memories)
      BY <1>3
    <3> QED BY <1>1, <1>2, <1>4, <2>1, <3>1 DEF CutInv, SavedInv
  <2>2. CASE saved' = [memories |-> memories, boundaries |-> boundaries']
    <3>1. Len(memories) <= Len(memories)
      BY <1>3
    <3> QED BY <1>2, <2>2, <3>1 DEF SavedInv
  <2> QED BY <1>2, <2>1, <2>2
<1>6. ASSUME ~foreign
      PROVE  \E head, number : (/\ Cut(head, number, memories, boundaries)
                                /\ PlanFollows(head, number)
                                /\ ManifestFollows(head, number))'
  <2>1. PICK head, number : /\ Cut(head, number, memories, boundaries)
                            /\ PlanFollows(head, number) /\ ManifestFollows(head, number)
    BY <1>1, <1>6 DEF CutInv
  <2>2. Cut(head, number, memories, boundaries)'
    <3>1. PICK bs : bs = boundaries'
      OBVIOUS
    <3>2. Len(memories) <= Len(memories) /\ \A i \in 1..Len(memories) : i \in boundaries <=> i \in bs
      BY <1>3, <1>4, <3>1
    <3>3. Cut(head, number, memories, bs)
      BY <1>3, <2>1, <3>2, CutRestricted
    <3> QED BY <1>2, <3>1, <3>3, CutNext
  <2>3. PlanFollows(head, number)'
    BY <1>2, <2>1 DEF PlanFollows, PlannedTo
  <2>4. ManifestFollows(head, number)'
    <3> SUFFICES ASSUME manifest # None
                 PROVE  Follows(IndicesIn(manifest), head, number, Len(saved'.memories))
      BY <1>2 DEF ManifestFollows
    <3>1. /\ Len(saved'.memories) \in Nat /\ Len(saved.memories) <= Len(saved'.memories)
          /\ Follows(IndicesIn(manifest), head, number, Len(saved.memories))
      BY <1>2, <1>3, <2>1 DEF ManifestFollows
    <3> QED BY <1>3, <3>1, FollowsFurther
  <2> QED BY <2>2, <2>3, <2>4
<1> QED BY <1>1, <1>2, <1>5, <1>6 DEF CutInv

LEMMA IndexCut ==
    ASSUME NEW done \in 0..MaxSegments, NEW persists \in BOOLEAN
    PROVE  IInv /\ CutInv /\ done <= Len(plan) /\ Index(done, persists) => CutInv'
<1>1. SUFFICES ASSUME IInv, CutInv, done <= Len(plan), Index(done, persists) PROVE CutInv'
  OBVIOUS
<1>2. /\ plan # None /\ next = 0
      /\ saved' = [memories |-> memories, boundaries |-> boundaries]
      /\ manifest' = IF persists /\ done > 0 THEN [i \in 1..done |-> EntryOf(plan[i])]
                     ELSE manifest
      /\ memories' = memories /\ boundaries' = boundaries /\ next' = next /\ limit' = limit
      /\ foreign' = foreign /\ broken' = broken
  BY <1>1 DEF Index, Ready
<1>3. PICK known \in SUBSET (1..done) : plan' = Measured(plan, known)
  BY <1>1 DEF Index
<1>4. /\ memories \in Lists(MaxMemories) /\ Len(memories) \in Nat
      /\ Len(saved.memories) \in Nat /\ Len(saved.memories) <= Len(memories)
      /\ plan \in PlansFor(memories)
  BY <1>1, <1>2, FactsAre DEF IInv, CutInv, SavedInv, PlanInv
<1>5. IndicesIn(plan') = IndicesIn(plan)
  <2>1. /\ DOMAIN Measured(plan, known) = DOMAIN plan
        /\ \A i \in DOMAIN plan : Measured(plan, known)[i].indices = plan[i].indices
    BY DEF Measured, Segment
  <2> QED BY <1>3, <2>1 DEF IndicesIn
<1>6. SavedInv'
  <2>1. Len(memories) <= Len(memories)
    BY <1>4
  <2> QED BY <1>2, <2>1 DEF SavedInv
<1>7. ASSUME ~foreign
      PROVE  \E head, number : (/\ Cut(head, number, memories, boundaries)
                                /\ PlanFollows(head, number)
                                /\ ManifestFollows(head, number))'
  <2>1. PICK head, number : /\ Cut(head, number, memories, boundaries)
                            /\ PlanFollows(head, number) /\ ManifestFollows(head, number)
    BY <1>1, <1>7 DEF CutInv
  <2>2. Cut(head, number, memories, boundaries)'
    BY <1>2, <2>1 DEF Cut, Begins, SoftLimit
  <2>3. Follows(IndicesIn(plan), head, number, Len(memories)) /\ EndOf(IndicesIn(plan)) = Len(memories)
    BY <1>2, <2>1 DEF PlanFollows, PlannedTo
  <2>4. PlanFollows(head, number)'
    <3>1. PlannedTo' = Len(memories)
      BY <1>2 DEF PlannedTo
    <3> QED BY <1>5, <2>3, <3>1 DEF PlanFollows
  <2>5. manifest' # None => Follows(IndicesIn(manifest'), head, number, Len(memories))
    <3>1. CASE persists /\ done > 0
      <4>1. Len(plan) \in Nat /\ Len(IndicesIn(plan)) = Len(plan)
            /\ \A g \in 1..Len(plan) : IndicesIn(plan)[g] = plan[g].indices
        BY <1>4, IndicesInPlan
      <4>2. done \in 1..Len(plan) /\ \A i \in 1..done : i \in 1..Len(plan)
        BY <1>1, <3>1, <4>1
      <4>3. Follows([i \in 1..done |-> IndicesIn(plan)[i]], head, number, Len(memories))
        BY <1>4, <2>3, <4>1, <4>2, FollowsPrefix
      <4>4. DOMAIN manifest' = 1..done /\ \A i \in 1..done : manifest'[i].indices = plan[i].indices
        BY <1>2, <3>1 DEF EntryOf
      <4>5. \A i \in 1..done : manifest'[i].indices = IndicesIn(plan)[i]
        BY <4>1, <4>2, <4>4
      <4>6. IndicesIn(manifest') = [i \in 1..done |-> IndicesIn(plan)[i]]
        BY <4>4, <4>5 DEF IndicesIn
      <4> QED BY <4>3, <4>6
    <3>2. CASE ~(persists /\ done > 0)
      BY <1>2, <1>4, <2>1, <3>2, FollowsFurther DEF ManifestFollows
    <3> QED BY <3>1, <3>2
  <2>6. ManifestFollows(head, number)'
    BY <1>2, <2>5 DEF ManifestFollows
  <2> QED BY <2>2, <2>4, <2>6
<1> QED BY <1>1, <1>2, <1>6, <1>7 DEF CutInv

LEMMA RecreateCut == ASSUME NEW left PROVE Recreate(left) => CutInv'
<1>1. SUFFICES ASSUME Recreate(left) PROVE CutInv'
  OBVIOUS
<1>2. /\ memories' = <<>> /\ plan' = <<>> /\ next' = 0
      /\ saved' = [memories |-> <<>>, boundaries |-> {}]
      /\ foreign' = (manifest' # None) /\ broken' = FALSE
  BY <1>1 DEF Recreate
<1>3. Len(memories') = 0 /\ Len(saved'.memories) = 0
  BY <1>2
<1>4. SavedInv'
  BY <1>3 DEF SavedInv
<1>5. Cut(<<>>, <<>>, memories, boundaries)'
  BY <1>3 DEF Cut
<1>6. PlannedTo' = 0
  BY <1>2, <1>3 DEF PlannedTo
<1>7. PlanFollows(<<>>, <<>>)' /\ (~foreign' => ManifestFollows(<<>>, <<>>)')
  BY <1>2, <1>6, EmptyFollows DEF PlanFollows, ManifestFollows
<1> QED BY <1>2, <1>4, <1>5, <1>7 DEF CutInv

LEMMA RestartCut == ASSUME NEW c \in Contexts PROVE IInv /\ CutInv /\ Restart(c) => CutInv'
<1>1. SUFFICES ASSUME IInv, CutInv, Restart(c) PROVE CutInv'
  OBVIOUS
<1>2. /\ memories' = saved.memories /\ boundaries' = saved.boundaries
      /\ plan' = None /\ next' = 0 /\ limit' = c
      /\ foreign' = ((foreign \/ c # limit) /\ (saved.memories # <<>> \/ manifest # None))
      /\ broken' = FALSE /\ saved' = saved /\ manifest' = manifest
  BY <1>1 DEF Restart
<1>3. /\ memories \in Lists(MaxMemories) /\ saved.memories \in Lists(MaxMemories)
      /\ Len(saved.memories) \in Nat /\ Len(saved.memories) <= Len(memories)
      /\ \A i \in 1..Len(saved.memories) :
            saved.memories[i] = memories[i] /\ (i \in boundaries <=> i \in saved.boundaries)
  BY <1>1, FactsAre DEF IInv, CutInv, SavedInv
<1>4. SavedInv'
  BY <1>2, <1>3 DEF SavedInv
<1>5. ASSUME NEW head, NEW number PROVE PlanFollows(head, number)'
  BY <1>2 DEF PlanFollows
<1>6. ASSUME ~foreign'
      PROVE  \E head, number : (/\ Cut(head, number, memories, boundaries)
                                /\ PlanFollows(head, number)
                                /\ ManifestFollows(head, number))'
  <2>1. CASE ~foreign /\ c = limit
    <3>1. PICK head, number : /\ Cut(head, number, memories, boundaries)
                              /\ ManifestFollows(head, number)
      BY <1>1, <2>1 DEF CutInv
    <3>2. Cut(head, number, saved.memories, saved.boundaries)
      BY <1>3, <3>1, CutRestricted
    <3>3. Cut(head, number, memories, boundaries)'
      BY <1>2, <2>1, <3>2, CutNext
    <3>4. ManifestFollows(head, number)'
      BY <1>2, <3>1 DEF ManifestFollows
    <3> QED BY <1>5, <3>3, <3>4
  <2>2. CASE saved.memories = <<>> /\ manifest = None
    <3>1. Len(memories') = 0
      BY <1>2, <2>2
    <3>2. Cut(<<>>, <<>>, memories, boundaries)'
      BY <3>1 DEF Cut
    <3>3. ManifestFollows(<<>>, <<>>)'
      BY <1>2, <2>2 DEF ManifestFollows
    <3> QED BY <1>5, <3>2, <3>3
  <2> QED BY <1>2, <1>6, <2>1, <2>2
<1> QED BY <1>2, <1>4, <1>6 DEF CutInv

LEMMA CutIsInductive == IInv /\ CutInv /\ [Next]_vars => CutInv'
<1>1. SUFFICES ASSUME IInv, CutInv, [Next]_vars PROVE CutInv'
  OBVIOUS
<1>2. CASE Prepare
  BY <1>1, <1>2, PrepareCut
<1>3. CASE Rebuild
  BY <1>1, <1>3, RebuildCut
<1>4. CASE \E t \in Texts : Add(t)
  BY <1>1, <1>4, AddCut
<1>5. CASE NextSegment
  BY <1>1, <1>5, NextSegmentCut
<1>6. CASE \E done \in 0..MaxSegments, persists \in BOOLEAN :
              Ready /\ done <= Len(plan) /\ Index(done, persists)
  BY <1>1, <1>6, IndexCut
<1>7. CASE \E left \in {manifest, None} : Recreate(left)
  BY <1>7, RecreateCut
<1>8. CASE \E c \in Contexts : Restart(c)
  BY <1>1, <1>8, RestartCut
<1>9. CASE UNCHANGED vars
  <2>1. /\ memories' = memories /\ boundaries' = boundaries /\ saved' = saved /\ plan' = plan
        /\ next' = next /\ manifest' = manifest /\ limit' = limit /\ foreign' = foreign
        /\ broken' = broken
    BY <1>9 DEF vars
  <2>2. SavedInv'
    BY <1>1, <2>1 DEF CutInv, SavedInv
  <2>3. ASSUME NEW head, NEW number, Cut(head, number, memories, boundaries),
               PlanFollows(head, number), ManifestFollows(head, number)
        PROVE  (/\ Cut(head, number, memories, boundaries)
                /\ PlanFollows(head, number)
                /\ ManifestFollows(head, number))'
    <3>1. Cut(head, number, memories, boundaries)'
      BY <2>1, <2>3, CutNext
    <3> QED BY <2>1, <2>3, <3>1 DEF PlanFollows, ManifestFollows, PlannedTo
  <2>4. ~foreign => \E head, number : (/\ Cut(head, number, memories, boundaries)
                                       /\ PlanFollows(head, number)
                                       /\ ManifestFollows(head, number))'
    BY <1>1, <2>3 DEF CutInv
  <2> QED BY <1>1, <2>1, <2>2, <2>4 DEF CutInv
<1> QED BY <1>1, <1>2, <1>3, <1>4, <1>5, <1>6, <1>7, <1>8, <1>9 DEF Next

LEMMA CutAlways == Spec => []CutInv
<1>1. Init => CutInv
  BY InitCut
<1>2. IInv /\ CutInv /\ [Next]_vars => CutInv'
  BY CutIsInductive
<1> QED BY <1>1, <1>2, IInvAlways, PTL DEF Spec

(* A rebuild after a restart fails only for a session whose plan or        *)
(* manifest may be another's or was made for another context: what append  *)
(* admitted, rebuild_segment_plan_fast admits again, after any number of   *)
(* crashes, failed saves, boundaries and indexings.                        *)
THEOREM RebuildAlwaysSucceeds == Spec => []RebuildSucceeds
<1>1. CutInv => RebuildSucceeds
  BY DEF CutInv, RebuildSucceeds
<1> QED BY <1>1, CutAlways, PTL

(* A plan is the one that the memories and the boundaries alone determine, *)
(* whether it grew with the memories, was rebuilt or was restored          *)
(* (append_memory_and_update_plan, rebuild_segment_plan_fast,              *)
(* restore_segment_plan_from_cache_manifest).                              *)
THEOREM PlanAlwaysGreedy == Spec => []PlanIsGreedy
<1>1. ASSUME IInv, CutInv PROVE PlanIsGreedy
  <2> SUFFICES ASSUME plan # None, ~foreign, ~broken
               PROVE  /\ \A g \in DOMAIN plan : Continues(g) /\ Greedy(g)
                      /\ PlannedTo = IF plan = <<>> THEN 0 ELSE LastOf(LastOf(plan).indices)
    BY DEF PlanIsGreedy
  <2> DEFINE x == IndicesIn(plan)
  <2>1. /\ memories \in Lists(MaxMemories) /\ Len(memories) \in Nat /\ next \in 0..Len(memories)
        /\ plan \in PlansFor(memories)
    BY <1>1, FactsAre DEF IInv, PlanInv
  <2>2. PICK head, number : /\ Cut(head, number, memories, boundaries)
                            /\ Follows(x, head, number, PlannedTo) /\ EndOf(x) = PlannedTo
    BY <1>1 DEF CutInv, PlanFollows
  <2>3. /\ Len(plan) \in Nat /\ DOMAIN plan = 1..Len(plan) /\ Len(x) = Len(plan)
        /\ \A g \in 1..Len(plan) : x[g] = plan[g].indices
        /\ x = <<>> <=> plan = <<>>
    BY <2>1, IndicesInPlan
  <2>4. PlannedTo \in 0..Len(memories)
    BY <2>1 DEF PlannedTo
  <2>5. PlannedTo = IF plan = <<>> THEN 0 ELSE LastOf(LastOf(plan).indices)
    <3>1. plan # <<>> => Len(plan) \in 1..Len(plan)
      BY <2>1, <2>3, EmptySeq DEF PlansFor
    <3> QED BY <2>2, <2>3, <3>1 DEF EndOf, LastOf
  <2> HIDE DEF x
  <2>6. ASSUME NEW g \in 1..Len(plan) PROVE Continues(g) /\ Greedy(g)
    <3>1. PICK s : s = plan[g].indices
      OBVIOUS
    <3>2. /\ Holds(s, g, head, number, PlannedTo)
          /\ s[1] = IF g = 1 THEN 1 ELSE LastOf(x[g - 1]) + 1
      BY <2>2, <2>3, <3>1 DEF Follows
    <3>3. PICK a : a = s[1]
      OBVIOUS
    <3>4. PICK b : b = LastOf(s)
      OBVIOUS
    <3>5. /\ a \in Nat \ {0} /\ b \in a..PlannedTo /\ s = Run(a, b)
          /\ \A m \in a..b : head[m] = a /\ number[m] = g
      BY <3>2, <3>3, <3>4 DEF Holds
    <3>6. g # 1 => g - 1 \in 1..Len(plan) /\ x[g - 1] = plan[g - 1].indices
      BY <2>3
    <3>7. Continues(g)
      BY <3>1, <3>2, <3>3, <3>4, <3>5, <3>6 DEF Continues
    <3>8. ASSUME NEW i \in DOMAIN s \ {1} PROVE s[i] \notin boundaries
      <4>1. DOMAIN s = 1..b - a + 1 /\ s[i] = a + i - 1
        BY <3>5 DEF Run
      <4>2. PICK m : m = s[i]
        OBVIOUS
      <4>3. m \in a..b /\ m - 1 \in a..b /\ m # a /\ m # 1 /\ m \in 1..Len(memories)
        BY <2>1, <2>4, <3>5, <4>1, <4>2
      <4>4. head[m] = a
        BY <3>5, <4>3
      <4>5. ~Begins(memories, boundaries, head[m - 1], m)
        BY <2>2, <4>3, <4>4 DEF Cut
      <4> QED BY <4>2, <4>5 DEF Begins
    <3>9. ASSUME g # 1
          PROVE  \/ s[1] \in boundaries
                 \/ Tokens(TextsOf(memories, Append(plan[g - 1].indices, s[1]))) > SoftLimit
      <4>1. PICK r : r = x[g - 1]
        OBVIOUS
      <4>2. Holds(r, g - 1, head, number, PlannedTo)
        BY <2>2, <2>3, <3>6, <3>9, <4>1 DEF Follows
      <4>3. PICK f : f = r[1]
        OBVIOUS
      <4>4. PICK l : l = LastOf(r)
        OBVIOUS
      <4>5. /\ f \in Nat \ {0} /\ l \in f..PlannedTo /\ r = Run(f, l)
            /\ \A m \in f..l : head[m] = f /\ number[m] = g - 1
        BY <4>2, <4>3, <4>4 DEF Holds
      <4>6. a = l + 1
        BY <3>2, <3>3, <3>9, <4>1, <4>4
      <4>7. a # 1 /\ a - 1 = l /\ a \in 1..Len(memories) /\ a \in a..b /\ f # a /\ l \in f..l /\ f <= l
        BY <2>1, <2>4, <3>5, <4>5, <4>6
      <4>8. head[a] = a /\ head[a - 1] = f
        BY <3>5, <4>5, <4>7
      <4>9. Begins(memories, boundaries, f, a)
        BY <2>2, <4>7, <4>8 DEF Cut
      <4>10. Append(Run(f, l), l + 1) = Run(f, l + 1)
        <5>1. l \in Nat /\ f \in Nat /\ f <= l
          BY <2>1, <2>4, <4>5
        <5> QED BY <5>1, RunIs
      <4> QED BY <3>3, <3>6, <3>9, <4>1, <4>5, <4>6, <4>9, <4>10 DEF Begins
    <3> QED BY <3>1, <3>7, <3>8, <3>9 DEF Greedy
  <2> QED BY <2>3, <2>5, <2>6
<1> QED BY <1>1, IInvAlways, CutAlways, PTL

=============================================================================
