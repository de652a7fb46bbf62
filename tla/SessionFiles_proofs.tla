------------------------ MODULE SessionFiles_proofs ------------------------
(***************************************************************************)
(* Proofs about SessionFiles, for any texts, system texts and bounds:      *)
(* what was saved survives, and the two files implement DurableMemory.     *)
(***************************************************************************)
EXTENDS SessionFiles, TLAPS

(* session.meta counts no more memories than the session has, under its    *)
(* system text, also when memories.bin is lost.                            *)
MetaFits ==
    facts # None /\ meta # None =>
        /\ meta.count <= Len(facts.memories)
        /\ meta.count # 0 => meta.system = facts.system

(* Between the two files memories.bin holds what session.meta will count.  *)
Stages ==
    /\ op = "create" => facts = None /\ OnDisk = None /\ dir
    /\ op = "delete" => acked = None
    /\ op \in {"memories", "meta"} => dirty
    /\ op = "meta" => facts.memories = <<>> \/ mems = facts.memories

IInv ==
    /\ TypeOK /\ MetaFits /\ Stages /\ RestoresPrefix
    /\ AckedSurvives /\ CleanMeansLoadable /\ GoneStaysGone

-----------------------------------------------------------------------------
(* What load_session returns.                                              *)

LEMMA LoadedType ==
  ASSUME NEW header \in MetaType \cup {None}, NEW records \in Seq(Texts) \cup {None}
  PROVE  /\ Loaded(header, records) \in FactsType \cup {None}
         /\ Loaded(header, records) # None =>
               /\ header \in MetaType
               /\ Loaded(header, records).system = header.system
               /\ Loaded(header, records).settings = header.settings
               /\ Loaded(header, records).memories \in Seq(Texts)
               /\ Len(Loaded(header, records).memories) = header.count
               /\ header.count # 0 =>
                     /\ records \in Seq(Texts) /\ header.count <= Len(records)
                     /\ Loaded(header, records).memories = SubSeq(records, 1, header.count)
<1> DEFINE l == Loaded(header, records)
<1>1. CASE header = None \/ (header.count # 0 /\ (records = None \/ header.count > Len(records)))
  BY <1>1 DEF Loaded
<1>2. CASE ~(header = None \/ (header.count # 0 /\ (records = None \/ header.count > Len(records))))
  <2>1. header \in MetaType /\ header.count \in Nat
    BY <1>2 DEF MetaType
  <2>2. l = [system |-> header.system, settings |-> header.settings,
             memories |-> IF header.count = 0 THEN <<>> ELSE SubSeq(records, 1, header.count)]
    BY <1>2 DEF Loaded
  <2>3. CASE header.count = 0
    <3>1. <<>> \in Seq(Texts)
      OBVIOUS
    <3> QED
      BY <2>1, <2>2, <2>3, <3>1 DEF MetaType, FactsType
  <2>4. CASE header.count # 0
    <3>1. records \in Seq(Texts) /\ header.count <= Len(records)
      BY <1>2, <2>1, <2>4
    <3>2. /\ SubSeq(records, 1, header.count) \in Seq(Texts)
          /\ Len(SubSeq(records, 1, header.count)) = header.count
      BY <2>1, <2>4, <3>1
    <3> QED
      BY <2>1, <2>2, <2>4, <3>1, <3>2 DEF MetaType, FactsType
  <2> QED
    BY <2>3, <2>4
<1> QED
  BY <1>1, <1>2

LEMMA LoadedMetaOf ==
  ASSUME NEW f \in FactsType, NEW records \in Seq(Texts) \cup {None},
         f.memories = <<>> \/ records = f.memories
  PROVE  MetaOf(f) \in MetaType /\ Loaded(MetaOf(f), records) = f
<1>1. f.memories \in Seq(Texts) /\ Len(f.memories) \in Nat
  BY DEF FactsType
<1>2. MetaOf(f) \in MetaType /\ MetaOf(f) # None /\ MetaOf(f).count = Len(f.memories)
  BY <1>1, NoneAssumption DEF FactsType, MetaType, MetaOf
<1>3. f = [system |-> f.system, settings |-> f.settings, memories |-> f.memories]
  BY DEF FactsType
<1>4. CASE f.memories = <<>>
  BY <1>2, <1>3, <1>4 DEF Loaded, MetaOf
<1>5. CASE f.memories # <<>>
  <2>1. records = f.memories /\ records # None /\ Len(records) # 0
    BY <1>1, <1>5, NoneAssumption
  <2>2. SubSeq(records, 1, Len(records)) = records
    BY <1>1, <2>1
  <2> QED
    BY <1>2, <1>3, <2>1, <2>2 DEF Loaded, MetaOf
<1> QED
  BY <1>4, <1>5

(* Rewriting memories.bin with a longer list loads the same. *)
LEMMA LoadedKept ==
  ASSUME NEW header \in MetaType \cup {None}, NEW records \in Seq(Texts) \cup {None},
         NEW longer \in Seq(Texts), Loaded(header, records) # None,
         Durable!IsPrefixOf(Loaded(header, records).memories, longer)
  PROVE  Loaded(header, longer) = Loaded(header, records)
<1> DEFINE l == Loaded(header, records)
<1>1. /\ header \in MetaType /\ header # None /\ header.count \in Nat
      /\ l = [system |-> header.system, settings |-> header.settings, memories |-> l.memories]
      /\ l.memories \in Seq(Texts) /\ Len(l.memories) = header.count
  BY LoadedType, NoneAssumption DEF MetaType, FactsType
<1>2. header.count <= Len(longer) /\ l.memories = SubSeq(longer, 1, header.count)
  BY <1>1 DEF Durable!IsPrefixOf
<1>3. longer # None
  BY NoneAssumption
<1>4. header.count = 0 => l.memories = <<>>
  BY <1>1
<1> HIDE DEF l
<1>5. Loaded(header, longer) = [system |-> header.system, settings |-> header.settings,
                                memories |-> IF header.count = 0 THEN <<>> ELSE SubSeq(longer, 1, header.count)]
  BY <1>1, <1>2, <1>3 DEF Loaded
<1>6. Loaded(header, longer) = l
  BY <1>1, <1>2, <1>4, <1>5
<1> QED
  BY <1>6 DEF l

-----------------------------------------------------------------------------
(* The invariant.                                                          *)

LEMMA OnDiskType ==
  ASSUME IInv
  PROVE  /\ OnDisk \in FactsType \cup {None}
         /\ facts # None => facts \in FactsType /\ facts.memories \in Seq(Texts)
         /\ OnDisk # None => OnDisk.memories \in Seq(Texts) /\ meta \in MetaType
BY LoadedType DEF IInv, TypeOK, OnDisk, FactsType

LEMMA TextsAppend ==
  ASSUME NEW s \in Seq(Texts), NEW t \in Texts
  PROVE  /\ Append(s, t) \in Seq(Texts) /\ Len(Append(s, t)) = Len(s) + 1
         /\ Append(s, t) # <<>>
         /\ \A r \in Seq(Texts) : Durable!IsPrefixOf(r, s) => Durable!IsPrefixOf(r, Append(s, t))
BY DEF Durable!IsPrefixOf

LEMMA PrefixOfSelf ==
  ASSUME NEW s \in Seq(Texts)
  PROVE  Durable!IsPrefixOf(s, s)
BY DEF Durable!IsPrefixOf

(* A command changes the facts in memory, marks them dirty and touches no  *)
(* file; what is on disk stays an earlier state of them.                   *)
LEMMA ChangeKeeps ==
  ASSUME IInv, Quiet, NEW f \in FactsType, facts' = f, dirty' = TRUE,
         op' \in {"idle", "memories", "meta"}, op' = "meta" => f.memories = <<>>,
         UNCHANGED <<dir, meta, mems, acked>>,
         Len(facts.memories) <= Len(f.memories),
         f.memories # <<>> => f.system = facts.system,
         \A r \in Seq(Texts) : Durable!IsPrefixOf(r, facts.memories) => Durable!IsPrefixOf(r, f.memories)
  PROVE  IInv'
<1>1. facts # None /\ facts \in FactsType /\ f # None /\ OnDisk' = OnDisk
  BY NoneAssumption DEF Quiet, IInv, TypeOK, OnDisk
<1>2. Len(facts.memories) \in Nat /\ Len(f.memories) \in Nat /\ (meta # None => meta.count \in Nat)
  BY <1>1 DEF FactsType, IInv, TypeOK, MetaType
<1>3. f.memories = <<>> => Len(f.memories) = 0
  OBVIOUS
<1>4. TypeOK'
  BY <1>1 DEF IInv, TypeOK
<1>5. MetaFits'
  BY <1>1, <1>2, <1>3 DEF IInv, MetaFits
<1>6. Stages'
  BY <1>1 DEF Stages
<1>7. RestoresPrefix'
  <2> SUFFICES ASSUME OnDisk # None
               PROVE  /\ Durable!IsPrefixOf(OnDisk.memories, f.memories)
                      /\ OnDisk.memories # <<>> => OnDisk.system = f.system
    BY <1>1 DEF RestoresPrefix, Durable!SavedIsPrefix
  <2>1. /\ OnDisk.memories \in Seq(Texts)
        /\ Durable!IsPrefixOf(OnDisk.memories, facts.memories)
        /\ OnDisk.memories # <<>> => OnDisk.system = facts.system
    BY <1>1, OnDiskType DEF IInv, RestoresPrefix, Durable!SavedIsPrefix
  <2>2. OnDisk.memories # <<>> => f.memories # <<>>
    BY <1>1, <1>2, <1>3, <2>1 DEF Durable!IsPrefixOf, FactsType
  <2> QED
    BY <2>1, <2>2
<1> QED
  BY <1>1, <1>4, <1>5, <1>6, <1>7
     DEF IInv, AckedSurvives, CleanMeansLoadable, Quiet, GoneStaysGone

(* A step that leaves the facts and loses a file, or leaves both, loses    *)
(* the copy on disk or leaves it.                                          *)
LEMMA OnDiskAfterLoss ==
  ASSUME IInv, meta' \in {meta, None}, mems' \in {mems, None}
  PROVE  OnDisk' \in {OnDisk, None}
<1>1. CASE meta' = None \/ meta = None
  BY <1>1 DEF OnDisk, Loaded
<1>2. CASE meta' = meta /\ meta # None
  BY <1>2, NoneAssumption DEF OnDisk, Loaded, IInv, TypeOK
<1> QED
  BY <1>1, <1>2

LEMMA LossKeeps ==
  ASSUME IInv, facts # None, facts' = facts, meta' \in {meta, None}, mems' \in {mems, None},
         dir' \in BOOLEAN, dir' = dir \/ dir' = TRUE,
         \/ acked' = None
         \/ acked' = acked /\ meta' = meta /\ mems' = mems,
         \/ op' = "idle" /\ dirty' = TRUE
         \/ op' = "delete" /\ dirty' = dirty /\ acked' = None
  PROVE  IInv'
<1>1. OnDisk' \in {OnDisk, None} /\ (meta' = meta /\ mems' = mems => OnDisk' = OnDisk)
  BY OnDiskAfterLoss DEF OnDisk
<1>2. TypeOK'
  BY DEF IInv, TypeOK
<1>3. MetaFits' /\ Stages'
  BY DEF IInv, MetaFits, Stages
<1>4. RestoresPrefix'
  BY <1>1 DEF IInv, RestoresPrefix, Durable!SavedIsPrefix
<1> QED
  BY <1>1, <1>2, <1>3, <1>4 DEF IInv, AckedSurvives, CleanMeansLoadable, Quiet, GoneStaysGone

(* A commit: the facts in memory are what session.meta and memories.bin    *)
(* now hold.                                                               *)
LEMMA CommitKeeps ==
  ASSUME IInv, NEW f \in FactsType, facts' = f, dirty' = FALSE, op' = "idle", dir' = TRUE,
         meta' = MetaOf(f), mems' = mems, acked' = f,
         f.memories = <<>> \/ mems = f.memories
  PROVE  IInv' /\ OnDisk' = f
<1>1. MetaOf(f) \in MetaType /\ OnDisk' = f
  BY LoadedMetaOf DEF IInv, TypeOK, OnDisk
<1>2. f # None /\ f.memories \in Seq(Texts)
  BY NoneAssumption DEF FactsType
<1>3. TypeOK' /\ Stages'
  BY <1>1, <1>2 DEF IInv, TypeOK, Stages
<1>4. MetaFits'
  BY <1>2 DEF MetaFits, MetaOf
<1>5. RestoresPrefix'
  BY <1>1, <1>2, PrefixOfSelf DEF RestoresPrefix, Durable!SavedIsPrefix
<1> QED
  BY <1>1, <1>2, <1>3, <1>4, <1>5
     DEF IInv, AckedSurvives, CleanMeansLoadable, GoneStaysGone

(* memories.bin is replaced by the list in memory: what was saved still    *)
(* loads, and what was lost may load again, in part.                       *)
LEMMA WriteMemoriesKeeps ==
  ASSUME IInv, op = "memories", dir' = TRUE, mems' = facts.memories, op' = "meta",
         UNCHANGED <<facts, dirty, meta, acked>>
  PROVE  /\ IInv'
         /\ OnDisk' = OnDisk \/ OnDisk = None
<1>1. facts # None /\ facts \in FactsType /\ facts.memories \in Seq(Texts)
  BY OnDiskType DEF IInv, TypeOK
<1>2. OnDisk # None => OnDisk' = OnDisk
  BY <1>1, LoadedKept DEF IInv, TypeOK, OnDisk, RestoresPrefix, Durable!SavedIsPrefix
<1>3. TypeOK' /\ MetaFits' /\ Stages'
  BY <1>1 DEF IInv, TypeOK, MetaFits, Stages
<1>4. RestoresPrefix'
  <2> SUFFICES ASSUME OnDisk' # None
               PROVE  /\ Durable!IsPrefixOf(OnDisk'.memories, facts.memories)
                      /\ OnDisk'.memories # <<>> => OnDisk'.system = facts.system
    BY DEF RestoresPrefix, Durable!SavedIsPrefix
  <2>1. /\ meta \in MetaType /\ meta # None /\ meta.count \in Nat
        /\ OnDisk'.system = meta.system
        /\ OnDisk'.memories \in Seq(Texts) /\ Len(OnDisk'.memories) = meta.count
        /\ meta.count # 0 => OnDisk'.memories = SubSeq(facts.memories, 1, meta.count)
    BY <1>1, LoadedType, NoneAssumption DEF OnDisk, MetaType, IInv, TypeOK
  <2>2. meta.count <= Len(facts.memories) /\ (meta.count # 0 => meta.system = facts.system)
    BY <1>1, <2>1 DEF IInv, MetaFits
  <2>3. meta.count = 0 => OnDisk'.memories = <<>>
    BY <2>1
  <2> QED
    BY <1>1, <2>1, <2>2, <2>3 DEF Durable!IsPrefixOf
<1>5. acked # None => OnDisk' = acked
  BY <1>2 DEF IInv, AckedSurvives
<1>6. dirty'
  BY DEF IInv, Stages, Quiet
<1> QED
  BY <1>1, <1>2, <1>3, <1>4, <1>5, <1>6
     DEF IInv, AckedSurvives, CleanMeansLoadable, Quiet, GoneStaysGone

LEMMA RestartKeeps == IInv /\ Restart => IInv'
<1> SUFFICES ASSUME IInv, Restart PROVE IInv'
  OBVIOUS
<1>1. OnDisk \in FactsType \cup {None} /\ OnDisk' = OnDisk
  BY OnDiskType DEF Restart, OnDisk
<1>2. TypeOK' /\ Stages'
  BY <1>1 DEF Restart, IInv, TypeOK, Stages
<1>3. MetaFits'
  <2> SUFFICES ASSUME OnDisk # None, meta # None
               PROVE  /\ meta.count <= Len(OnDisk.memories)
                      /\ meta.count # 0 => meta.system = OnDisk.system
    BY DEF Restart, MetaFits
  <2>1. Len(OnDisk.memories) = meta.count /\ OnDisk.system = meta.system /\ meta.count \in Nat
    BY LoadedType DEF OnDisk, IInv, TypeOK, MetaType
  <2> QED
    BY <2>1
<1>4. RestoresPrefix'
  BY <1>1, PrefixOfSelf, OnDiskType DEF Restart, RestoresPrefix, Durable!SavedIsPrefix
<1> QED
  BY <1>1, <1>2, <1>3, <1>4
     DEF Restart, IInv, AckedSurvives, CleanMeansLoadable, Quiet, GoneStaysGone

LEMMA IInvInductive == IInv /\ [Next]_vars => IInv'
<1> SUFFICES ASSUME IInv, [Next]_vars PROVE IInv'
  OBVIOUS
<1>1. CASE Create
  BY <1>1 DEF Create, OnDisk, Loaded, IInv, TypeOK, MetaFits, Stages, RestoresPrefix,
              Durable!SavedIsPrefix, AckedSurvives, CleanMeansLoadable, Quiet, GoneStaysGone
<1>2. CASE CreateMeta
  <2>1. facts = None /\ OnDisk = None /\ dir' = dir /\ mems' = mems
    BY <1>2 DEF CreateMeta, IInv, Stages
  <2>2. ASSUME meta' = MetaOf(NewFacts), facts' = NewFacts, dirty' = FALSE, acked' = NewFacts
        PROVE  IInv'
    <3>1. NewFacts \in FactsType /\ NewFacts.memories = <<>>
      <4>1. <<>> \in Seq(Texts)
        OBVIOUS
      <4> QED
        BY <4>1, BoundsAssumption DEF NewFacts, FactsType, AnySystem
    <3>2. dir' = TRUE
      BY <1>2, <2>1 DEF CreateMeta, IInv, TypeOK, Stages
    <3> QED
      BY <1>2, <2>1, <2>2, <3>1, <3>2, CommitKeeps DEF CreateMeta
  <2>3. CASE UNCHANGED <<meta, facts, dirty, acked>>
    BY <1>2, <2>1, <2>3
       DEF CreateMeta, OnDisk, IInv, TypeOK, MetaFits, Stages, RestoresPrefix,
           Durable!SavedIsPrefix, AckedSurvives, CleanMeansLoadable, Quiet, GoneStaysGone
  <2> QED
    BY <1>2, <2>2, <2>3 DEF CreateMeta
<1>3. ASSUME NEW x \in Systems, AddSystem(x) PROVE IInv'
  <2> DEFINE f == [facts EXCEPT !.system = x]
  <2>1. facts \in FactsType /\ facts.memories \in Seq(Texts)
    BY <1>3, OnDiskType DEF AddSystem, Quiet
  <2>2. f \in FactsType /\ f.memories = facts.memories /\ f.memories = <<>>
    BY <1>3, <2>1 DEF AddSystem, FactsType, AnySystem
  <2>3. Len(facts.memories) <= Len(f.memories)
    BY <2>1, <2>2
  <2> HIDE DEF f
  <2>4. facts' = f
    BY <1>3 DEF AddSystem, f
  <2> QED
    BY <1>3, <2>2, <2>3, <2>4, ChangeKeeps DEF AddSystem
<1>4. ASSUME NEW t \in Texts, AddMemory(t) PROVE IInv'
  <2> DEFINE f == [facts EXCEPT !.memories = Append(@, t)]
  <2>1. facts \in FactsType /\ facts.memories \in Seq(Texts)
    BY <1>4, OnDiskType DEF AddMemory, Quiet
  <2>2. f \in FactsType /\ f.memories = Append(facts.memories, t) /\ f.system = facts.system
    BY <2>1, TextsAppend DEF FactsType
  <2>3. /\ Len(facts.memories) <= Len(f.memories)
        /\ \A r \in Seq(Texts) : Durable!IsPrefixOf(r, facts.memories) => Durable!IsPrefixOf(r, f.memories)
    BY <2>1, <2>2, TextsAppend
  <2> HIDE DEF f
  <2>4. facts' = f
    BY <1>4 DEF AddMemory, f
  <2> QED
    BY <1>4, <2>2, <2>3, <2>4, ChangeKeeps DEF AddMemory
<1>5. CASE Configure
  <2> DEFINE f == [facts EXCEPT !.settings = @ + 1]
  <2>1. facts \in FactsType /\ facts.memories \in Seq(Texts)
    BY <1>5, OnDiskType DEF Configure, Quiet
  <2>2. facts.settings + 1 \in 0..MaxSettings
    BY <1>5, <2>1, BoundsAssumption DEF Configure, FactsType
  <2>3. f \in FactsType /\ f.memories = facts.memories /\ f.system = facts.system
    BY <2>1, <2>2 DEF FactsType
  <2>4. Len(facts.memories) <= Len(f.memories)
    BY <2>1, <2>3
  <2> HIDE DEF f
  <2>5. facts' = f
    BY <1>5 DEF Configure, f
  <2> QED
    BY <1>5, <2>3, <2>4, <2>5, ChangeKeeps DEF Configure
<1>6. CASE SaveDirty
  BY <1>6 DEF SaveDirty, OnDisk, IInv, TypeOK, MetaFits, Stages, RestoresPrefix,
              Durable!SavedIsPrefix, AckedSurvives, CleanMeansLoadable, Quiet, GoneStaysGone
<1>7. CASE WriteMemories
  <2>1. CASE mems' = facts.memories /\ op' = "meta" /\ UNCHANGED <<dirty, acked>>
    BY <1>7, <2>1, WriteMemoriesKeeps DEF WriteMemories
  <2>2. ASSUME FailedToReplace(mems, mems'), op' = "idle", dirty' = TRUE,
               acked' = StillAcked(mems' # mems)
        PROVE  IInv'
    BY <1>7, <2>2, LossKeeps DEF WriteMemories, FailedToReplace, StillAcked, IInv, TypeOK
  <2> QED
    BY <1>7, <2>1, <2>2 DEF WriteMemories
<1>8. CASE WriteMeta
  <2>1. CASE meta' = MetaOf(facts) /\ dirty' = FALSE /\ acked' = facts
    BY <1>8, <2>1, CommitKeeps, OnDiskType DEF WriteMeta, IInv, TypeOK, Stages
  <2>2. ASSUME FailedToReplace(meta, meta'), dirty' = TRUE, acked' = StillAcked(meta' # meta)
        PROVE  IInv'
    BY <1>8, <2>2, LossKeeps DEF WriteMeta, FailedToReplace, StillAcked, IInv, TypeOK
  <2> QED
    BY <1>8, <2>1, <2>2 DEF WriteMeta
<1>9. CASE Delete
  BY <1>9, LossKeeps DEF Delete, Quiet, IInv, TypeOK
<1>10. CASE RemoveFile
  <2>1. acked = None
    BY <1>10 DEF RemoveFile, IInv, Stages
  <2> QED
    BY <1>10, <2>1, LossKeeps DEF RemoveFile, IInv, TypeOK
<1>11. CASE RemoveDirectory
  BY <1>11 DEF RemoveDirectory, OnDisk, Loaded, IInv, TypeOK, MetaFits, Stages, RestoresPrefix,
               Durable!SavedIsPrefix, AckedSurvives, CleanMeansLoadable, Quiet, GoneStaysGone
<1>12. CASE DeleteFails
  BY <1>12 DEF DeleteFails, OnDisk, IInv, TypeOK, MetaFits, Stages, RestoresPrefix,
               Durable!SavedIsPrefix, AckedSurvives, CleanMeansLoadable, Quiet, GoneStaysGone
<1>13. CASE Restart
  BY <1>13, RestartKeeps
<1>14. CASE UNCHANGED vars
  BY <1>14 DEF vars, OnDisk, IInv, TypeOK, MetaFits, Stages, RestoresPrefix,
               Durable!SavedIsPrefix, AckedSurvives, CleanMeansLoadable, Quiet, GoneStaysGone
<1> QED
  BY <1>1, <1>2, <1>3, <1>4, <1>5, <1>6, <1>7, <1>8, <1>9, <1>10, <1>11, <1>12, <1>13, <1>14
     DEF Next

-----------------------------------------------------------------------------
(* The refinement: every step is a step of DurableMemory or leaves its     *)
(* variables as they are.                                                  *)

LEMMA LossImplements ==
  ASSUME IInv, facts # None, facts' = facts, meta' \in {meta, None}, mems' \in {mems, None}
  PROVE  Durable!Lose \/ UNCHANGED Durable!vars
BY OnDiskAfterLoss DEF Durable!Lose, Durable!vars

LEMMA WriteMemoriesImplements ==
  ASSUME IInv, op = "memories", dir' = TRUE, mems' = facts.memories, op' = "meta",
         UNCHANGED <<facts, dirty, meta, acked>>
  PROVE  Durable!Recover \/ UNCHANGED Durable!vars
<1>1. facts # None /\ facts \in FactsType /\ facts.memories \in Seq(Texts)
  BY OnDiskType DEF IInv, TypeOK
<1>2. CASE OnDisk' = OnDisk
  BY <1>2 DEF Durable!vars
<1>3. CASE OnDisk = None /\ OnDisk' # None
  <2>1. meta \in MetaType /\ meta # None /\ meta.count \in Nat /\ meta.count # 0
    BY <1>1, <1>3, LoadedType, NoneAssumption DEF OnDisk, Loaded, MetaType, IInv, TypeOK
  <2>2. /\ OnDisk' \in FactsType
        /\ OnDisk'.system = meta.system /\ OnDisk'.settings = meta.settings
        /\ OnDisk'.memories = SubSeq(facts.memories, 1, meta.count)
    BY <1>1, <1>3, <2>1, LoadedType DEF OnDisk, IInv, TypeOK
  <2>3. meta.count <= Len(facts.memories) /\ meta.system = facts.system
    BY <1>1, <2>1 DEF IInv, MetaFits
  <2>4. meta.count \in 1..Len(facts.memories) /\ meta.settings \in 0..MaxSettings
    BY <1>1, <2>1, <2>3 DEF MetaType
  <2>5. OnDisk' = [facts EXCEPT !.settings = meta.settings,
                                !.memories = SubSeq(facts.memories, 1, meta.count)]
    BY <1>1, <2>2, <2>3 DEF FactsType
  <2> QED
    BY <1>1, <1>3, <2>4, <2>5 DEF Durable!Recover
<1> QED
  BY <1>2, <1>3, WriteMemoriesKeeps DEF IInv

LEMMA StepImplements == IInv /\ [Next]_vars => [Durable!Next]_(Durable!vars)
<1> SUFFICES ASSUME IInv, [Next]_vars
             PROVE  Durable!Next \/ UNCHANGED Durable!vars
  OBVIOUS
<1>1. CASE Create \/ SaveDirty \/ Delete \/ DeleteFails \/ UNCHANGED vars
  BY <1>1 DEF Create, SaveDirty, Delete, DeleteFails, vars, OnDisk, Durable!vars
<1>2. CASE CreateMeta
  <2>1. facts = None /\ OnDisk = None /\ mems' = mems
    BY <1>2 DEF CreateMeta, IInv, Stages
  <2>2. CASE UNCHANGED <<meta, facts, dirty, acked>>
    BY <2>1, <2>2 DEF OnDisk, Durable!vars
  <2>3. ASSUME meta' = MetaOf(NewFacts), facts' = NewFacts, dirty' = FALSE, acked' = NewFacts
        PROVE  Durable!Next
    <3>1. <<>> \in Seq(Texts)
      OBVIOUS
    <3>2. NewFacts \in FactsType /\ NewFacts.memories = <<>>
      BY <3>1, BoundsAssumption DEF NewFacts, FactsType, AnySystem
    <3>3. OnDisk' = NewFacts
      BY <2>1, <2>3, <3>2, LoadedMetaOf DEF OnDisk, IInv, TypeOK
    <3>4. Durable!Create(0)
      BY <2>1, <2>3, <3>3 DEF Durable!Create, NewFacts
    <3>5. 0 \in 0..MaxSettings
      BY BoundsAssumption
    <3> QED
      BY <3>4, <3>5 DEF Durable!Next
  <2> QED
    BY <1>2, <2>2, <2>3 DEF CreateMeta
<1>3. ASSUME NEW x \in Systems, AddSystem(x) PROVE Durable!Next
  BY <1>3 DEF AddSystem, Quiet, OnDisk, Durable!SetSystem, Durable!Changed, Durable!Next
<1>4. ASSUME NEW t \in Texts, AddMemory(t) PROVE Durable!Next
  BY <1>4 DEF AddMemory, Quiet, OnDisk, Durable!Add, Durable!Changed, Durable!Next
<1>5. CASE Configure
  <2>1. facts # None /\ facts.settings + 1 \in 0..MaxSettings
    BY <1>5, BoundsAssumption, OnDiskType DEF Configure, Quiet, FactsType
  <2>2. Durable!Configure(facts.settings + 1)
    BY <1>5, <2>1 DEF Configure, OnDisk, Durable!Configure, Durable!Changed
  <2> QED
    BY <2>1, <2>2 DEF Durable!Next
<1>6. CASE WriteMemories
  <2>1. facts # None
    BY <1>6 DEF WriteMemories, IInv, TypeOK
  <2>2. CASE mems' = facts.memories /\ op' = "meta" /\ UNCHANGED <<dirty, acked>>
    BY <1>6, <2>2, WriteMemoriesImplements DEF WriteMemories, Durable!Next
  <2>3. CASE FailedToReplace(mems, mems')
    BY <1>6, <2>1, <2>3, LossImplements DEF WriteMemories, FailedToReplace, Durable!Next
  <2> QED
    BY <1>6, <2>2, <2>3 DEF WriteMemories
<1>7. CASE WriteMeta
  <2>1. facts # None /\ facts \in FactsType /\ (facts.memories = <<>> \/ mems = facts.memories)
    BY <1>7, OnDiskType DEF WriteMeta, IInv, TypeOK, Stages
  <2>2. CASE meta' = MetaOf(facts)
    <3>1. OnDisk' = facts
      BY <1>7, <2>1, <2>2, LoadedMetaOf DEF WriteMeta, OnDisk, IInv, TypeOK
    <3> QED
      BY <1>7, <2>1, <3>1 DEF WriteMeta, Durable!Save, Durable!Next
  <2>3. CASE FailedToReplace(meta, meta')
    BY <1>7, <2>1, <2>3, LossImplements DEF WriteMeta, FailedToReplace, Durable!Next
  <2> QED
    BY <1>7, <2>2, <2>3 DEF WriteMeta
<1>8. CASE RemoveFile
  BY <1>8, LossImplements DEF RemoveFile, IInv, TypeOK, Durable!Next
<1>9. CASE RemoveDirectory
  <2>1. facts # None /\ OnDisk = None /\ OnDisk' = None
    BY <1>9 DEF RemoveDirectory, IInv, TypeOK, OnDisk, Loaded
  <2> QED
    BY <1>9, <2>1 DEF RemoveDirectory, Durable!Drop, Durable!Next
<1>10. CASE Restart
  BY <1>10 DEF Restart, OnDisk, Durable!Restart, Durable!Next
<1> QED
  BY <1>1, <1>2, <1>3, <1>4, <1>5, <1>6, <1>7, <1>8, <1>9, <1>10 DEF Next

-----------------------------------------------------------------------------
LEMMA InitHolds == Init => IInv /\ Durable!Init
BY DEF Init, IInv, TypeOK, MetaFits, Stages, RestoresPrefix, Durable!SavedIsPrefix,
       AckedSurvives, CleanMeansLoadable, Quiet, GoneStaysGone, OnDisk, Loaded, Durable!Init

LEMMA IInvAlways == Spec => []IInv
BY InitHolds, IInvInductive, PTL DEF Spec

(* The state is well formed.                                               *)
THEOREM TypeCorrect == Spec => []TypeOK
<1>1. IInv => TypeOK
  BY DEF IInv
<1> QED
  BY <1>1, IInvAlways, PTL

(* What was reported as saved is what a restart loads.                     *)
THEOREM AckedAlwaysSurvives == Spec => []AckedSurvives
<1>1. IInv => AckedSurvives
  BY DEF IInv
<1> QED
  BY <1>1, IInvAlways, PTL

(* A session that is not dirty is the one on disk, or a delete that was    *)
(* asked for has taken it from there.                                      *)
THEOREM CleanAlwaysLoadable == Spec => []CleanMeansLoadable
<1>1. IInv => CleanMeansLoadable
  BY DEF IInv
<1> QED
  BY <1>1, IInvAlways, PTL

(* A session the server does not have does not come back.                  *)
THEOREM GoneAlwaysStaysGone == Spec => []GoneStaysGone
<1>1. IInv => GoneStaysGone
  BY DEF IInv
<1> QED
  BY <1>1, IInvAlways, PTL

(* A restart loads the first memories of the session, or nothing.          *)
THEOREM AlwaysRestoresPrefix == Spec => []RestoresPrefix
<1>1. IInv => RestoresPrefix
  BY DEF IInv
<1> QED
  BY <1>1, IInvAlways, PTL

(* The two files implement one copy that is replaced as a whole.           *)
THEOREM FilesImplementDurable == Spec => DurableSpec
BY InitHolds, IInvAlways, StepImplements, PTL DEF Spec, DurableSpec, Durable!Spec

=============================================================================
