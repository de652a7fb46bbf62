------------------------ MODULE DurableMemory_proofs ------------------------
(***************************************************************************)
(* Proofs about DurableMemory, for any texts, system texts and settings.   *)
(***************************************************************************)
EXTENDS DurableMemory, TLAPS

Facts == [system : Systems \cup {""}, settings : Settings, memories : Seq(Texts)]

Typed ==
    /\ memory # None => memory \in Facts
    /\ saved # None => saved \in Facts

IInv == Typed /\ SavedIsPrefix

(* A sequence is a prefix of itself and of what is appended to it. *)
LEMMA PrefixOfSelf ==
  ASSUME NEW S, NEW s \in Seq(S)
  PROVE  IsPrefixOf(s, s)
BY DEF IsPrefixOf

LEMMA PrefixOfAppend ==
  ASSUME NEW S, NEW s \in Seq(S), NEW t \in Seq(S), NEW x \in S, IsPrefixOf(s, t)
  PROVE  IsPrefixOf(s, Append(t, x))
BY DEF IsPrefixOf

(* The first elements of a sequence are a prefix of it. *)
LEMMA PrefixOfTake ==
  ASSUME NEW S, NEW s \in Seq(S), NEW n \in 1..Len(s)
  PROVE  SubSeq(s, 1, n) \in Seq(S) /\ IsPrefixOf(SubSeq(s, 1, n), s)
BY DEF IsPrefixOf

(* One lemma serves every change: the new facts are typed, and the copy,   *)
(* when it stays, is still a prefix of them.                               *)
LEMMA ChangeKeeps ==
  ASSUME IInv, NEW f \in Facts, Changed(f),
         saved # None => /\ IsPrefixOf(saved.memories, f.memories)
                         /\ saved.memories # <<>> => saved.system = f.system
  PROVE  IInv'
<1>1. f.memories \in Seq(Texts) /\ IsPrefixOf(f.memories, f.memories)
  BY PrefixOfSelf DEF Facts
<1> QED
  BY <1>1 DEF IInv, Typed, SavedIsPrefix, Changed

LEMMA IInvInductive == IInv /\ [Next]_vars => IInv'
<1> SUFFICES ASSUME IInv, [Next]_vars PROVE IInv'
  OBVIOUS
<1>typed. /\ memory # None => memory \in Facts /\ memory.memories \in Seq(Texts)
          /\ saved # None => saved \in Facts /\ saved.memories \in Seq(Texts)
  BY DEF IInv, Typed, Facts
<1>prefix. memory # None /\ saved # None =>
             /\ IsPrefixOf(saved.memories, memory.memories)
             /\ saved.memories # <<>> => saved.system = memory.system
  BY DEF IInv, SavedIsPrefix
<1>1. ASSUME NEW x \in Settings, Create(x) PROVE IInv'
  <2>0. <<>> \in Seq(Texts)
    OBVIOUS
  <2>1. memory' \in Facts /\ memory'.memories = <<>> /\ saved' = memory'
    BY <1>1, <2>0 DEF Create, Facts
  <2> QED
    BY <2>1, PrefixOfSelf DEF IInv, Typed, SavedIsPrefix, Facts
<1>2. ASSUME NEW x \in Settings, memory # None, Configure(x) PROVE IInv'
  <2> DEFINE f == [memory EXCEPT !.settings = x]
  <2>1. f \in Facts /\ f.memories = memory.memories /\ f.system = memory.system
    BY <1>typed, <1>2 DEF Facts
  <2>2. Changed(f)
    BY <1>2 DEF Configure
  <2> HIDE DEF f
  <2> QED
    BY <1>2, <1>prefix, <2>1, <2>2, ChangeKeeps
<1>3. ASSUME NEW t \in Systems, memory # None, SetSystem(t) PROVE IInv'
  <2> DEFINE f == [memory EXCEPT !.system = t]
  <2>1. f \in Facts /\ f.memories = memory.memories /\ memory.memories = <<>>
    BY <1>typed, <1>3 DEF Facts, SetSystem
  <2>2. Changed(f)
    BY <1>3 DEF SetSystem
  <2>3. saved # None => saved.memories = <<>>
    BY <1>typed, <1>prefix, <1>3, <2>1 DEF IsPrefixOf
  <2> HIDE DEF f
  <2> QED
    BY <1>3, <1>prefix, <2>1, <2>2, <2>3, ChangeKeeps
<1>4. ASSUME NEW t \in Texts, memory # None, Add(t) PROVE IInv'
  <2> DEFINE f == [memory EXCEPT !.memories = Append(@, t)]
  <2>0. Append(memory.memories, t) \in Seq(Texts)
    BY <1>typed, <1>4
  <2>1. f \in Facts /\ f.memories = Append(memory.memories, t) /\ f.system = memory.system
    BY <1>typed, <1>4, <2>0 DEF Facts
  <2>2. Changed(f)
    BY <1>4 DEF Add
  <2>3. saved # None => IsPrefixOf(saved.memories, f.memories)
    BY <1>typed, <1>prefix, <1>4, <2>1, PrefixOfAppend
  <2> HIDE DEF f
  <2> QED
    BY <1>4, <1>prefix, <2>1, <2>2, <2>3, ChangeKeeps
<1>5. CASE Save
  BY <1>5, <1>typed, PrefixOfSelf DEF Save, IInv, Typed, SavedIsPrefix
<1>6. CASE Recover
  <2>1. PICK n \in 1..Len(memory.memories), x \in Settings :
           saved' = [memory EXCEPT !.settings = x, !.memories = SubSeq(memory.memories, 1, n)]
    BY <1>6 DEF Recover
  <2>2. memory # None /\ memory' = memory
    BY <1>6 DEF Recover
  <2>3. /\ SubSeq(memory.memories, 1, n) \in Seq(Texts)
        /\ IsPrefixOf(SubSeq(memory.memories, 1, n), memory.memories)
    BY <1>typed, <2>2, PrefixOfTake
  <2>4. /\ saved' \in Facts
        /\ saved'.memories = SubSeq(memory.memories, 1, n)
        /\ saved'.system = memory.system
    BY <1>typed, <2>1, <2>2, <2>3 DEF Facts
  <2> QED
    BY <1>typed, <2>2, <2>3, <2>4 DEF IInv, Typed, SavedIsPrefix
<1>7. CASE Lose \/ Drop
  BY <1>7, <1>typed DEF Lose, Drop, IInv, Typed, SavedIsPrefix
<1>8. CASE Restart
  BY <1>8, <1>typed, PrefixOfSelf DEF Restart, IInv, Typed, SavedIsPrefix
<1>9. CASE UNCHANGED vars
  BY <1>9 DEF vars, IInv, Typed, SavedIsPrefix
<1> QED
  BY <1>1, <1>2, <1>3, <1>4, <1>5, <1>6, <1>7, <1>8, <1>9 DEF Next

(* What a restart brings back is a prefix of the memories, under the       *)
(* system text they were added with.                                       *)
THEOREM SavedAlwaysPrefix == Spec => []SavedIsPrefix
<1>1. Init => IInv
  BY DEF Init, IInv, Typed, SavedIsPrefix
<1>2. IInv => SavedIsPrefix
  BY DEF IInv
<1> QED
  BY <1>1, <1>2, IInvInductive, PTL DEF Spec

=============================================================================
