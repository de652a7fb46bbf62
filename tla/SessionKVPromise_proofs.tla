----------------------- MODULE SessionKVPromise_proofs -----------------------
(***************************************************************************)
(* Proofs that SessionKV implements DurableMemory and SearchableMemory:    *)
(* whatever a command, a failure or a restart does to the facts and to     *)
(* their copy on disk, a client sees it as one of a few kinds of step, and *)
(* a search shows the model every memory before it is answered.            *)
(***************************************************************************)
EXTENDS SessionKVPromise, SessionKV_proofs

FactsType == {f \in Facts : Len(f.memories) <= MaxMemories}

(* Facts and their copy have their type, and the copy of a session is gone *)
(* before its cache directory is removed.                                  *)
CopyInv ==
    /\ facts # None => facts \in FactsType
    /\ stored \notin {None, Husk} => stored \in FactsType
    /\ cmd.at = "cache" => stored = None

-----------------------------------------------------------------------------
(* The kinds of steps.                                                     *)
NewFacts(b) == [system |-> "", memories |-> <<>>, boundaries |-> {}, kv_persist |-> b]

StepCreates ==
    /\ facts = None /\ stored = None
    /\ \E b \in BOOLEAN : facts' = NewFacts(b)
    /\ stored' = facts'

ChangedFacts ==
    \/ facts' = facts
    \/ Len(facts.memories) = 0 /\ \E x \in Systems : facts' = [facts EXCEPT !.system = x]
    \/ Next1 <= MaxMemories /\ \E t \in Texts : facts' = Appended(t)
    \/ facts' = [facts EXCEPT !.boundaries = @ \cup {Next1}]
    \/ facts' = [facts EXCEPT !.kv_persist = TRUE]

StepChanges == facts # None /\ ChangedFacts /\ stored' \in {stored, facts', Husk}
StepLoses == facts # None /\ facts' = facts /\ stored' \in {None, Husk}
StepDrops == facts # None /\ stored = None /\ facts' = None /\ stored' = None
StepRestarts == facts' = Restored /\ stored' = stored
StepFails == facts = None /\ stored = None /\ facts' = None /\ stored' \in {None, Husk}

StepKind ==
    \/ UNCHANGED <<facts, stored>>
    \/ StepCreates \/ StepChanges \/ StepLoses \/ StepDrops \/ StepRestarts \/ StepFails

LEMMA EveryStepHasAKind ==
  ASSUME FactsInv, CopyInv, [Next]_vars
  PROVE  StepKind
<1>run. cmd.op \in Planned => facts # None
  BY DEF FactsInv, Idle, Planned
<1>1. ASSUME NEW b \in BOOLEAN, CreateSession(b) PROVE StepKind
  BY <1>1 DEF CreateSession, PersistOk, NewFacts, StepKind, StepCreates
<1>2. ASSUME NEW t \in Systems, AddSystem(t) PROVE StepKind
  BY <1>2 DEF AddSystem, Quiet, PersistOk, PersistFails, LeftOf, StepKind, StepChanges,
              ChangedFacts
<1>3. ASSUME NEW t \in Texts, AddToLastSegment(t) \/ AddInNewSegment(t) PROVE StepKind
  <2>1. facts # None
    BY <1>run, <1>3 DEF AddToLastSegment, AddInNewSegment, Running, Planned
  <2>2. Next1 <= MaxMemories /\ facts' = Appended(t)
        /\ stored' \in {stored, facts', Husk}
    BY <1>3 DEF AddToLastSegment, AddInNewSegment, PersistOk, PersistFails, LeftOf
  <2> QED
    BY <2>1, <2>2 DEF StepKind, StepChanges, ChangedFacts
<1>4. CASE NextSegment
  <2>1. facts # None
    BY <1>run, <1>4 DEF NextSegment, Running, Planned
  <2> QED
    BY <1>4, <2>1 DEF NextSegment, PersistOk, PersistFails, LeftOf, StepKind, StepChanges, ChangedFacts
<1>5. CASE Index \/ Save
  <2>1. facts # None
    BY <1>run, <1>5 DEF Index, Save, IndexOrSave, Running, Planned
  <2>2. PersistIfDirty(TRUE) \/ PersistIfDirty(FALSE)
    BY <1>5 DEF Index, Save, IndexOrSave
  <2>3. facts' = facts /\ stored' \in {stored, facts', Husk}
    BY <2>2 DEF PersistIfDirty, PersistOk, PersistFails, LeftOf
  <2> QED
    BY <2>1, <2>3 DEF StepKind, StepChanges, ChangedFacts
<1>6. CASE PersistEnd
  <2>1. facts # None
    BY <1>6 DEF PersistEnd, FactsInv, Idle
  <2> QED
    BY <1>6, <2>1 DEF PersistEnd, PersistOk, PersistFails, LeftOf, StepKind, StepChanges, ChangedFacts
<1>7. CASE DeleteSession
  BY <1>7 DEF DeleteSession, LeftOf, Quiet, StepKind, StepLoses, StepChanges, ChangedFacts
<1>11. CASE CreateFails
  BY <1>11 DEF CreateFails, LeftOf, StepKind, StepFails
<1>8. CASE DeleteCache
  <2>1. facts # None
    BY <1>8 DEF DeleteCache, FactsInv, Idle
  <2> QED
    BY <1>8, <2>1 DEF DeleteCache, CopyInv, StepKind, StepDrops
<1>9. CASE Restart
  BY <1>9 DEF Restart, StepKind, StepRestarts
<1>10. ASSUME \/ \E op \in Planned : Begin(op) \/ BeginFails(op)
              \/ AddMemoryRejected \/ NextSegmentRejected
              \/ IndexResidentSegment \/ IndexResidentEnd
              \/ PersistSegment \/ PersistFile \/ PersistManifest
              \/ Search \/ SearchActivate \/ SearchInfer \/ SearchEnd
              \/ ClearSession \/ OtherCommand \/ UNCHANGED vars
       PROVE  StepKind
  BY <1>10 DEF Begin, BeginFails, AddMemoryRejected, NextSegmentRejected,
               IndexResidentSegment, IndexResidentEnd, PersistSegment, PersistFile,
               PersistManifest, Search, SearchActivate, SearchInfer, SearchEnd,
               ClearSession, OtherCommand, vars, StepKind
<1> QED
  BY <1>1, <1>2, <1>3, <1>4, <1>5, <1>6, <1>7, <1>8, <1>9, <1>10, <1>11 DEF Next

(* Only a delete goes on to the cache directory, once the copy is gone. *)
LEMMA CacheComesLast ==
  ASSUME FactsInv, CopyInv, [Next]_vars, cmd'.at = "cache"
  PROVE  stored' = None
<1>1. ASSUME NEW at \in Stages \ {"cache"}, NEW seg, Goto(at, seg) PROVE FALSE
  BY <1>1 DEF Goto, FactsInv, CmdOK
<1>2. ASSUME NEW ok, Return(ok) PROVE FALSE
  BY <1>2 DEF Return, Idle
<1>3. CASE DeleteSession
  BY <1>3 DEF DeleteSession
<1>4. CASE \/ \E op \in Planned : Begin(op)
           \/ Restart
  BY <1>4 DEF Begin, Restart, Idle
<1>5. CASE \/ \E b \in BOOLEAN : CreateSession(b)
           \/ \E t \in Systems : AddSystem(t)
           \/ \E op \in Planned : BeginFails(op)
           \/ ClearSession \/ OtherCommand \/ CreateFails
  <2>1. cmd = Idle /\ cmd' = cmd
    <3>1. ASSUME NEW b \in BOOLEAN, CreateSession(b) PROVE cmd = Idle /\ cmd' = cmd
      BY <3>1 DEF CreateSession
    <3>2. ASSUME NEW t \in Systems, AddSystem(t) PROVE cmd = Idle /\ cmd' = cmd
      BY <3>2 DEF AddSystem, Quiet
    <3>3. ASSUME NEW op \in Planned, BeginFails(op) PROVE cmd = Idle /\ cmd' = cmd
      BY <3>3 DEF BeginFails, Quiet
    <3>4. ClearSession \/ OtherCommand \/ CreateFails => cmd = Idle /\ cmd' = cmd
      BY DEF ClearSession, OtherCommand, CreateFails, Quiet
    <3> QED
      BY <1>5, <3>1, <3>2, <3>3, <3>4
  <2> QED
    BY <2>1 DEF Idle
<1>6. CASE \/ \E t \in Texts : AddToLastSegment(t) \/ AddInNewSegment(t)
           \/ AddMemoryRejected \/ NextSegment \/ NextSegmentRejected
           \/ IndexResidentEnd \/ PersistEnd \/ SearchEnd
  BY <1>2, <1>6 DEF AddToLastSegment, AddInNewSegment, AddMemoryRejected, NextSegment,
                    NextSegmentRejected, IndexResidentEnd, PersistEnd, SearchEnd
<1>7. CASE DeleteCache
  BY <1>2, <1>7 DEF DeleteCache
<1>8. CASE Index \/ Save
  <2>1. "segment" \in Stages \ {"cache"} /\ "build" \in Stages \ {"cache"}
    BY DEF Stages, KVStages
  <2> QED
    BY <1>1, <1>2, <1>8, <2>1 DEF Index, Save, IndexOrSave
<1>9. CASE IndexResidentSegment \/ PersistSegment \/ PersistFile \/ PersistManifest
           \/ Search \/ SearchActivate \/ SearchInfer
  <2>1. {"build", "file", "manifest", "segment", "activate", "infer"} \subseteq Stages \ {"cache"}
    BY DEF Stages, KVStages
  <2> QED
    BY <1>1, <1>2, <1>9, <2>1 DEF IndexResidentSegment, PersistSegment, PersistFile,
                       PersistManifest, Search, SearchActivate, SearchInfer
<1>10. CASE UNCHANGED vars
  BY <1>10 DEF vars, CopyInv
<1> QED
  BY <1>3, <1>4, <1>5, <1>6, <1>7, <1>8, <1>9, <1>10 DEF Next

LEMMA FieldsTyped ==
  ASSUME NEW f \in FactsType
  PROVE  /\ f \in Facts
         /\ f.system \in Systems \cup {""}
         /\ f.memories \in Seq(Texts)
         /\ Len(f.memories) \in Nat /\ Len(f.memories) <= MaxMemories
         /\ f.boundaries \subseteq 1..MaxMemories + 1
         /\ f.kv_persist \in BOOLEAN
<1>1. f \in Facts /\ Len(f.memories) <= MaxMemories
  BY DEF FactsType
<1>2. /\ f.system \in Systems \cup {""}
      /\ f.memories \in Seq(Texts)
      /\ f.boundaries \subseteq 1..MaxMemories + 1
      /\ f.kv_persist \in BOOLEAN
  BY <1>1 DEF Facts
<1>3. Len(f.memories) \in Nat
  <2>1. \A s \in Seq(Texts) : Len(s) \in Nat
    OBVIOUS
  <2> QED
    BY <1>2, <2>1
<1> QED
  BY <1>1, <1>2, <1>3

LEMMA NewFactsTyped ==
  ASSUME NEW b \in BOOLEAN
  PROVE  NewFacts(b) \in FactsType
<1>1. NewFacts(b) \in Facts
  BY DEF NewFacts, Facts
<1>2. Len(NewFacts(b).memories) = 0
  BY DEF NewFacts
<1> QED
  BY <1>1, <1>2, BoundsAssumption DEF FactsType

LEMMA ChangedTyped ==
  ASSUME facts \in FactsType, ChangedFacts
  PROVE  facts' \in FactsType
<1>1. /\ facts \in Facts
      /\ facts.memories \in Seq(Texts) /\ Len(facts.memories) \in Nat
      /\ Len(facts.memories) <= MaxMemories
      /\ facts.boundaries \subseteq 1..MaxMemories + 1
  BY FieldsTyped
<1>2. Next1 \in 1..MaxMemories + 1
  BY <1>1, BoundsAssumption DEF Next1
<1>3. ASSUME NEW x \in Systems PROVE [facts EXCEPT !.system = x] \in FactsType
  BY <1>1 DEF FactsType, Facts
<1>4. ASSUME NEW t \in Texts, Next1 <= MaxMemories PROVE Appended(t) \in FactsType
  <2>1. /\ Append(facts.memories, t) \in Seq(Texts)
        /\ Len(Append(facts.memories, t)) = Next1
    BY <1>1 DEF Next1
  <2>2. Appended(t) \in Facts /\ Appended(t).memories = Append(facts.memories, t)
    BY <1>1, <2>1 DEF Facts, Appended
  <2> QED
    BY <1>4, <2>1, <2>2 DEF FactsType
<1>5. [facts EXCEPT !.boundaries = @ \cup {Next1}] \in FactsType
  BY <1>1, <1>2 DEF FactsType, Facts
<1>6. [facts EXCEPT !.kv_persist = TRUE] \in FactsType
  BY <1>1 DEF FactsType, Facts
<1> QED
  BY <1>3, <1>4, <1>5, <1>6 DEF ChangedFacts

LEMMA FactsTyped ==
  ASSUME CopyInv, StepKind
  PROVE  /\ facts' # None => facts' \in FactsType
         /\ stored' \notin {None, Husk} => stored' \in FactsType
BY NewFactsTyped, ChangedTyped DEF CopyInv, StepKind, StepCreates, StepChanges, StepLoses,
                                   StepDrops, StepRestarts, StepFails, Restored

LEMMA CopyInvariant == Spec => []CopyInv
<1>1. Init => CopyInv
  BY DEF Init, CopyInv, Idle
<1>2. FactsInv /\ CopyInv /\ [Next]_vars => CopyInv'
  BY EveryStepHasAKind, CacheComesLast, FactsTyped DEF CopyInv
<1> QED
  BY <1>1, <1>2, FactsInvariant, PTL DEF Spec

-----------------------------------------------------------------------------
(* Every kind of step is a step of DurableMemory, or changes nothing there. *)

LEMMA FactsOfType ==
  ASSUME NEW f \in FactsType
  PROVE  /\ f # None /\ FactsOf(f) # None
         /\ FactsOf(f) = [system |-> f.system, memories |-> f.memories,
                          settings |-> [boundaries |-> f.boundaries,
                                        kv_persist |-> f.kv_persist]]
         /\ FactsOf(f).settings \in SettingsType
<1>1. f # None
  BY NoneAssumption DEF FactsType
<1>2. [system |-> f.system, memories |-> f.memories,
       settings |-> [boundaries |-> f.boundaries, kv_persist |-> f.kv_persist]]
        \in [system : Systems \cup {""}, memories : Seq(Texts), settings : SettingsType]
  BY DEF FactsType, Facts, SettingsType
<1> QED
  BY <1>1, <1>2, FactsOfNoneAssumption DEF FactsOf

(* What a restart would bring back follows the copy.                       *)
LEMMA RestoredFollows ==
  /\ stored' = stored => FactsOf(Restored)' = FactsOf(Restored)
  /\ stored' \in {None, Husk} => FactsOf(Restored)' = None
  /\ stored \in {None, Husk} => FactsOf(Restored) = None
  /\ stored' = facts' /\ facts' # Husk => FactsOf(Restored)' = FactsOf(facts)'
BY DEF Restored, FactsOf

LEMMA ChangeImplements ==
  ASSUME CopyInv, StepChanges
  PROVE  Durable!Next \/ UNCHANGED Durable!vars
<1>0. facts \in FactsType /\ facts' \in FactsType
  BY ChangedTyped DEF CopyInv, StepChanges
<1>1. /\ FactsOf(facts) # None
      /\ FactsOf(Restored)' \in {FactsOf(Restored), FactsOf(facts)', None}
  <2>1. facts' # Husk
    BY <1>0, HuskAssumption DEF FactsType
  <2> QED
    BY <1>0, <2>1, FactsOfType, RestoredFollows DEF StepChanges
<1>m. FactsOf(facts).memories = facts.memories /\ FactsOf(facts).system = facts.system
  BY <1>0, FactsOfType
<1>f. facts \in Facts /\ facts.memories \in Seq(Texts)
  BY <1>0, FieldsTyped
<1>2. CASE facts' = facts
  <2>1. FactsOf(facts)' = FactsOf(facts)
    BY <1>2
  <2>2. CASE FactsOf(Restored)' = FactsOf(Restored)
    BY <2>1, <2>2 DEF Durable!vars
  <2>3. CASE FactsOf(Restored)' = FactsOf(facts)
    BY <1>1, <2>1, <2>3 DEF Durable!Save, Durable!Next
  <2>4. CASE FactsOf(Restored)' = None
    BY <1>1, <2>1, <2>4 DEF Durable!Lose, Durable!Next
  <2> QED
    BY <1>1, <2>1, <2>2, <2>3, <2>4
<1>3. ASSUME Len(facts.memories) = 0, NEW x \in Systems, facts' = [facts EXCEPT !.system = x]
      PROVE  Durable!Next
  <2>1. /\ facts'.system = x /\ facts'.memories = facts.memories
        /\ facts'.boundaries = facts.boundaries /\ facts'.kv_persist = facts.kv_persist
    BY <1>f, <1>3 DEF Facts
  <2>4. FactsOf(facts)' = [FactsOf(facts) EXCEPT !.system = x]
    BY <1>0, <2>1, FactsOfType
  <2>2. facts.memories = <<>>
    BY <1>f, <1>3
  <2>3. Durable!SetSystem(x)
    BY <1>1, <1>m, <2>4, <2>2 DEF Durable!SetSystem, Durable!Changed
  <2> QED
    BY <1>1, <2>3 DEF Durable!Next
<1>4. ASSUME NEW t \in Texts, facts' = Appended(t) PROVE Durable!Next
  <2>1. /\ facts'.system = facts.system /\ facts'.memories = Append(facts.memories, t)
        /\ facts'.boundaries = facts.boundaries /\ facts'.kv_persist = facts.kv_persist
    BY <1>f, <1>4 DEF Facts, Appended
  <2>3. FactsOf(facts)' = [FactsOf(facts) EXCEPT !.memories = Append(@, t)]
    BY <1>0, <2>1, FactsOfType
  <2>2. Durable!Add(t)
    BY <1>1, <2>3 DEF Durable!Add, Durable!Changed
  <2> QED
    BY <1>1, <2>2 DEF Durable!Next
<1>5. ASSUME \/ facts' = [facts EXCEPT !.boundaries = @ \cup {Next1}]
             \/ facts' = [facts EXCEPT !.kv_persist = TRUE]
      PROVE  Durable!Next
  <2> DEFINE x == [boundaries |-> facts'.boundaries, kv_persist |-> facts'.kv_persist]
  <2>1. x \in SettingsType
    BY <1>0 DEF FactsType, Facts, SettingsType
  <2>2. facts'.system = facts.system /\ facts'.memories = facts.memories
    BY <1>0, <1>5 DEF FactsType, Facts
  <2>3. FactsOf(facts)' = [FactsOf(facts) EXCEPT !.settings = x]
    BY <1>0, <2>2, FactsOfType
  <2>4. Durable!Configure(x)
    BY <1>1, <2>3 DEF Durable!Configure, Durable!Changed
  <2> QED
    BY <1>1, <2>1, <2>4 DEF Durable!Next
<1> QED
  BY <1>2, <1>3, <1>4, <1>5 DEF StepChanges, ChangedFacts

LEMMA CreateImplements ==
  ASSUME StepCreates
  PROVE  Durable!Next
<1>1. PICK b \in BOOLEAN : facts' = NewFacts(b)
  BY DEF StepCreates
<1>2. NewFacts(b) \in FactsType
  BY NewFactsTyped
<1> DEFINE x == [boundaries |-> {}, kv_persist |-> b]
<1>3. FactsOf(NewFacts(b)) = [system |-> "", settings |-> x, memories |-> <<>>]
  BY <1>2, FactsOfType DEF NewFacts
<1>4. FactsOf(facts) = None /\ FactsOf(Restored) = None
  BY RestoredFollows DEF StepCreates, FactsOf
<1>5. FactsOf(facts)' = FactsOf(NewFacts(b)) /\ FactsOf(Restored)' = FactsOf(facts)'
  <2>1. NewFacts(b) # Husk
    BY <1>2, HuskAssumption DEF FactsType
  <2> QED
    BY <1>1, <2>1, RestoredFollows DEF StepCreates
<1>6. x \in SettingsType
  BY DEF SettingsType
<1>7. Durable!Create(x)
  BY <1>3, <1>4, <1>5 DEF Durable!Create
<1> QED
  BY <1>6, <1>7 DEF Durable!Next

LEMMA StepImplements ==
  ASSUME FactsInv, CopyInv, [Next]_vars
  PROVE  Durable!Next \/ UNCHANGED Durable!vars
<1>1. StepKind
  BY EveryStepHasAKind
<1>2. CASE UNCHANGED <<facts, stored>>
  BY <1>2, RestoredFollows DEF Durable!vars
<1>3. CASE StepLoses
  <2>1. FactsOf(facts) # None
    BY <1>3, FactsOfType DEF StepLoses, CopyInv
  <2>2. FactsOf(facts)' = FactsOf(facts) /\ FactsOf(Restored)' = None
    BY <1>3, RestoredFollows DEF StepLoses
  <2> QED
    BY <2>1, <2>2 DEF Durable!Lose, Durable!Next
<1>4. CASE StepDrops
  <2>1. FactsOf(facts) # None
    BY <1>4, FactsOfType DEF StepDrops, CopyInv
  <2>2. FactsOf(facts)' = None /\ FactsOf(Restored) = None /\ FactsOf(Restored)' = None
    BY <1>4, RestoredFollows DEF StepDrops, FactsOf
  <2> QED
    BY <2>1, <2>2 DEF Durable!Drop, Durable!Next
<1>5. CASE StepRestarts
  <2>1. FactsOf(facts)' = FactsOf(Restored) /\ FactsOf(Restored)' = FactsOf(Restored)
    BY <1>5, RestoredFollows DEF StepRestarts
  <2> QED
    BY <2>1 DEF Durable!Restart, Durable!Next
<1>6. CASE StepFails
  <2>1. FactsOf(facts)' = FactsOf(facts) /\ FactsOf(Restored)' = FactsOf(Restored)
    BY <1>6, RestoredFollows DEF StepFails
  <2> QED
    BY <2>1 DEF Durable!vars
<1> QED
  BY <1>1, <1>2, <1>3, <1>4, <1>5, <1>6, ChangeImplements, CreateImplements DEF StepKind

(* What a restart brings back is the facts of some moment as a whole, or   *)
(* nothing, whatever crashed or failed; and a session that ends was gone   *)
(* from disk before it left memory.                                        *)
THEOREM CommandsImplementDurable == Spec => DurableSpec
<1>1. Init => Durable!Init
  BY RestoredFollows DEF Init, Durable!Init, FactsOf
<1>2. FactsInv /\ CopyInv /\ [Next]_vars => [Durable!Next]_(Durable!vars)
  BY StepImplements
<1> QED
  BY <1>1, <1>2, FactsInvariant, CopyInvariant, PTL DEF Spec, DurableSpec, Durable!Spec

-----------------------------------------------------------------------------
(* The search a client waits for.  SearchInv: a search that is past its    *)
(* check works through a plan that has segments.                           *)
SearchInv ==
    cmd.op = "search" => /\ cmd.at \in {"run", "activate", "infer"}
                         /\ cmd.at # "run" => plan # <<>> /\ cmd.seg \in 1..Len(plan) + 1

LEMMA IdleIsNoSearch == cmd = Idle => cmd.op = "idle" /\ cmd.op \notin Planned
BY DEF Idle, Planned

(* No other command answers a search; a search begins with its Begin.      *)
LEMMA OtherQueries ==
  ASSUME FactsInv, DoneInv, cmd.op # "search", Next
  PROVE  \/ Begin("search")
         \/ cmd'.op # "search" /\ reply' # Reply("search", TRUE)
<1>0. cmd # Idle => reply = NoReply
  BY DEF DoneInv, ProgressOK
<1>1. NoReply # Reply("search", TRUE)
      /\ \A op : /\ Reply(op, FALSE) # Reply("search", TRUE)
                 /\ op # "search" => Reply(op, TRUE) # Reply("search", TRUE)
                 /\ \A ok : op # "search" => Reply(op, ok) # Reply("search", TRUE)
  BY DEF NoReply, Reply
<1>2. ASSUME NEW ok, Return(ok) PROVE cmd'.op # "search" /\ reply' # Reply("search", TRUE)
  BY <1>1, <1>2 DEF Return, Idle
<1>3. ASSUME cmd # Idle, NEW at, NEW seg, Goto(at, seg)
      PROVE  cmd'.op # "search" /\ reply' # Reply("search", TRUE)
  <2>1. cmd' = [op |-> cmd.op, at |-> at, seg |-> seg] /\ reply' = reply
    BY <1>3, GoneTo
  <2>2. cmd'.op = cmd.op /\ reply' = NoReply
    BY <1>0, <1>3, <2>1
  <2> QED
    BY <1>1, <2>2
<1>4. ASSUME \/ \E b \in BOOLEAN : CreateSession(b)
             \/ \E t \in Systems : AddSystem(t)
             \/ \E op \in Planned : BeginFails(op)
             \/ ClearSession \/ OtherCommand \/ CreateFails \/ DeleteSession \/ Restart
      PROVE  cmd'.op # "search" /\ reply' # Reply("search", TRUE)
  <2>1. CASE \E b \in BOOLEAN : CreateSession(b)
    BY <1>1, <2>1, IdleIsNoSearch DEF CreateSession
  <2>2. CASE \E t \in Systems : AddSystem(t)
    BY <1>1, <2>2, IdleIsNoSearch DEF AddSystem, Quiet
  <2>3. CASE \E op \in Planned : BeginFails(op)
    BY <1>1, <2>3, IdleIsNoSearch DEF BeginFails, Quiet
  <2>4. CASE ClearSession \/ OtherCommand \/ CreateFails
    BY <1>1, <2>4, IdleIsNoSearch DEF ClearSession, OtherCommand, CreateFails, Quiet
  <2>5. CASE DeleteSession
    <3>1. cmd'.op = "delete" /\ reply' = NoReply
      BY <2>5 DEF DeleteSession
    <3> QED
      BY <1>1, <3>1
  <2>6. CASE Restart
    BY <1>1, <2>6 DEF Restart, Idle
  <2> QED
    BY <1>4, <2>1, <2>2, <2>3, <2>4, <2>5, <2>6
<1>5. ASSUME NEW op \in Planned, Begin(op), op # "search"
      PROVE  cmd'.op # "search" /\ reply' # Reply("search", TRUE)
  BY <1>1, <1>5 DEF Begin
<1>6. CASE \/ \E t \in Texts : AddToLastSegment(t) \/ AddInNewSegment(t)
           \/ AddMemoryRejected \/ NextSegment \/ NextSegmentRejected
  <2>1. \E ok : Return(ok)
    <3>1. CASE \E t \in Texts : AddToLastSegment(t) \/ AddInNewSegment(t)
      BY <3>1 DEF AddToLastSegment, AddInNewSegment
    <3>2. CASE AddMemoryRejected \/ NextSegment \/ NextSegmentRejected
      BY <3>2 DEF AddMemoryRejected, NextSegment, NextSegmentRejected
    <3> QED
      BY <1>6, <3>1, <3>2
  <2> QED
    BY <1>2, <2>1
<1>7. CASE \/ Index \/ Save
           \/ IndexResidentSegment \/ IndexResidentEnd
           \/ PersistSegment \/ PersistFile \/ PersistManifest \/ PersistEnd
           \/ DeleteCache
  <2>1. cmd # Idle
    <3>0. cmd = Idle => cmd.op = "idle" /\ cmd.at = "run"
      BY DEF Idle
    <3>1. CASE Index \/ Save
      BY <3>0, <3>1 DEF Index, Save, IndexOrSave, Running
    <3>2. CASE IndexResidentSegment \/ IndexResidentEnd \/ DeleteCache
      BY <3>0, <3>2 DEF IndexResidentSegment, IndexResidentEnd, DeleteCache, Running
    <3>3. CASE PersistSegment \/ PersistFile
      BY <3>0, <3>3 DEF PersistSegment, PersistFile
    <3>4. CASE PersistManifest \/ PersistEnd
      BY <3>0, <3>4 DEF PersistManifest, PersistEnd
    <3> QED
      BY <1>7, <3>1, <3>2, <3>3, <3>4
  <2>2. CASE Index \/ Save
    <3>1. (\E ok : Return(ok)) \/ (\E at, seg : Goto(at, seg))
      BY <2>2 DEF Index, Save, IndexOrSave
    <3> QED
      BY <1>2, <1>3, <2>1, <3>1
  <2>3. CASE IndexResidentSegment \/ IndexResidentEnd
    <3>1. (\E ok : Return(ok)) \/ (\E at, seg : Goto(at, seg))
      BY <2>3 DEF IndexResidentSegment, IndexResidentEnd
    <3> QED
      BY <1>2, <1>3, <2>1, <3>1
  <2>4. CASE PersistSegment \/ PersistFile
    <3>1. (\E ok : Return(ok)) \/ (\E at, seg : Goto(at, seg))
      BY <2>4 DEF PersistSegment, PersistFile
    <3> QED
      BY <1>2, <1>3, <2>1, <3>1
  <2>5. CASE PersistManifest \/ PersistEnd \/ DeleteCache
    <3>1. (\E ok : Return(ok)) \/ (\E at, seg : Goto(at, seg))
      BY <2>5 DEF PersistManifest, PersistEnd, DeleteCache
    <3> QED
      BY <1>2, <1>3, <2>1, <3>1
  <2> QED
    BY <1>7, <2>2, <2>3, <2>4, <2>5
<1>8. ~(Search \/ SearchActivate \/ SearchInfer \/ SearchEnd)
  BY DEF Search, SearchActivate, SearchInfer, SearchEnd, Running
<1> QED
  BY <1>4, <1>5, <1>6, <1>7, <1>8 DEF Next

(* While a search runs nothing but its own steps and a restart happen.     *)
LEMMA SearchQueries ==
  ASSUME FactsInv, SearchInv, cmd.op = "search", Next
  PROVE  Search \/ SearchActivate \/ SearchInfer \/ SearchEnd \/ Restart
<1>1. cmd # Idle /\ cmd.at \in {"run", "activate", "infer"}
  BY DEF Idle, SearchInv
<1>2. /\ \A b \in BOOLEAN : ~CreateSession(b)
      /\ \A t \in Systems : ~AddSystem(t)
      /\ \A op \in Planned : ~Begin(op) /\ ~BeginFails(op)
      /\ ~ClearSession /\ ~DeleteSession /\ ~OtherCommand /\ ~CreateFails
  BY <1>1 DEF CreateSession, CreateFails, AddSystem, Begin, BeginFails, ClearSession, DeleteSession,
              OtherCommand, Quiet
<1>3. /\ \A t \in Texts : ~AddToLastSegment(t) /\ ~AddInNewSegment(t)
      /\ ~AddMemoryRejected /\ ~NextSegment /\ ~NextSegmentRejected /\ ~Index /\ ~Save
      /\ ~IndexResidentSegment /\ ~IndexResidentEnd /\ ~DeleteCache
  BY DEF AddToLastSegment, AddInNewSegment, AddMemoryRejected, NextSegment,
         NextSegmentRejected, Index, Save, IndexOrSave, IndexResidentSegment,
         IndexResidentEnd, DeleteCache, Running
<1>4. ~PersistSegment /\ ~PersistFile /\ ~PersistManifest /\ ~PersistEnd
  BY <1>1 DEF PersistSegment, PersistFile, PersistManifest, PersistEnd
<1> QED
  BY <1>2, <1>3, <1>4 DEF Next

LEMMA PlanLength ==
  ASSUME CachesInv, plan # None
  PROVE  /\ Len(plan) \in Nat /\ DOMAIN plan = 1..Len(plan)
         /\ plan # <<>> => Len(plan) # 0
         /\ facts # None /\ Held(facts) /\ PlanOf(plan, Len(facts.memories))
<1>1. facts # None /\ Held(facts) /\ PlanOf(plan, Len(facts.memories))
  BY DEF CachesInv, DataOK
<1>2. plan \in Plans
  BY <1>1, MemoriesOf, PlanTyped
<1>3. plan \in Seq(Segments)
  BY <1>2 DEF Plans
<1> QED
  BY <1>1, <1>3, LenProperties, EmptySeq

LEMMA SearchInvInductive ==
  ASSUME FactsInv, CachesInv, DoneInv, SearchInv, [Next]_vars
  PROVE  SearchInv'
<1>1. CASE UNCHANGED vars
  BY <1>1 DEF vars, SearchInv
<1>2. CASE Next /\ cmd.op # "search"
  <2>1. CASE Begin("search")
    BY <2>1 DEF Begin, SearchInv
  <2>2. CASE cmd'.op # "search"
    BY <2>2 DEF SearchInv
  <2> QED
    BY <1>2, <2>1, <2>2, OtherQueries
<1>3. CASE Next /\ cmd.op = "search"
  <2>0. plan # None /\ Len(plan) \in Nat /\ DOMAIN plan = 1..Len(plan)
        /\ (plan # <<>> => Len(plan) # 0)
    BY <1>3, PlanLength DEF CachesInv, StageOK, Planned
  <2>1. ASSUME NEW ok, Return(ok) PROVE SearchInv'
    BY <2>1 DEF Return, Idle, SearchInv
  <2>2. ASSUME NEW at \in {"activate", "infer"}, NEW seg \in 1..Len(plan) + 1, Goto(at, seg),
               plan' = plan, plan # <<>>
        PROVE  SearchInv'
    <3>1. cmd' = [op |-> cmd.op, at |-> at, seg |-> seg]
      BY <2>2, GoneTo
    <3>2. cmd'.at = at /\ cmd'.seg = seg
      BY <3>1
    <3> QED
      BY <2>2, <3>2 DEF SearchInv
  <2>3. CASE Search
    <3>1. plan' = plan /\ (\/ plan # <<>> /\ Goto("activate", 1)
                           \/ Return(FALSE))
      BY <2>3 DEF Search
    <3>2. 1 \in 1..Len(plan) + 1
      BY <2>0
    <3> QED
      BY <2>1, <2>2, <3>1, <3>2
  <2>4. CASE SearchActivate
    <3>1. plan' = plan /\ cmd.seg \in DOMAIN plan /\ cmd.at = "activate"
          /\ (Goto("infer", cmd.seg) \/ Return(FALSE))
      BY <2>4 DEF SearchActivate, Running
    <3>2. plan # <<>> /\ cmd.seg \in 1..Len(plan) + 1
      BY <1>3, <3>1 DEF SearchInv
    <3> QED
      BY <2>1, <2>2, <3>1, <3>2
  <2>5. CASE SearchInfer
    <3>1. plan' = plan /\ cmd.at = "infer" /\ (Goto("activate", cmd.seg + 1) \/ Return(FALSE))
      BY <2>5 DEF SearchInfer, Running
    <3>2. plan # <<>> /\ cmd.seg \in 1..Len(plan)
      BY <1>3, <2>0, <3>1 DEF SearchInv, CachesInv, StageOK
    <3>3. cmd.seg + 1 \in 1..Len(plan) + 1
      BY <2>0, <3>2
    <3> QED
      BY <2>1, <2>2, <3>1, <3>2, <3>3
  <2>6. CASE SearchEnd
    BY <2>1, <2>6 DEF SearchEnd
  <2>7. CASE Restart
    BY <2>7 DEF Restart, Idle, SearchInv
  <2> QED
    BY <1>3, <2>3, <2>4, <2>5, <2>6, <2>7, SearchQueries
<1> QED
  BY <1>1, <1>2, <1>3

-----------------------------------------------------------------------------
(* The piece shown for segment g: the memories after those searched.       *)
Before(g) == IF g = 1 THEN 0 ELSE LastOf(plan[g - 1])

LEMMA PieceOfSegment ==
  ASSUME CachesInv, CoverInv, plan # None, NEW g \in DOMAIN plan
  PROVE  /\ Before(g) \in Nat /\ LastOf(plan[g]) \in Nat
         /\ \E n \in 1..Len(facts.memories) - Before(g) :
              /\ Content(g) = <<facts.system>>
                                \o SubSeq(facts.memories, Before(g) + 1, Before(g) + n)
              /\ Len(Content(g)) = n + 1 /\ Content(g) # <<>>
              /\ LastOf(plan[g]) = Before(g) + n
<1>1. /\ Len(plan) \in Nat /\ DOMAIN plan = 1..Len(plan)
      /\ Held(facts) /\ PlanOf(plan, Len(facts.memories))
  BY PlanLength
<1>2. facts.memories \in Seq(Texts) /\ Len(facts.memories) \in Nat
      /\ Len(facts.memories) <= MaxMemories /\ facts \in Facts
  BY <1>1, MemoriesOf DEF Held
<1>3. Covers(plan, Len(facts.memories))
  BY DEF CoverInv, PlanCoversMemories
<1>4. PICK N, F, L : N = Len(facts.memories) /\ F = plan[g][1] /\ L = LastOf(plan[g])
  OBVIOUS
<1>5. /\ F \in 1..N /\ L \in F..N /\ plan[g] = Run(F, L)
      /\ F = IF g = 1 THEN 1 ELSE LastOf(plan[g - 1]) + 1
  <2>1. /\ plan[g][1] \in 1..Len(facts.memories)
        /\ LastOf(plan[g]) \in plan[g][1]..Len(facts.memories)
        /\ plan[g][1] = IF g = 1 THEN 1 ELSE LastOf(plan[g - 1]) + 1
    BY <1>1, <1>2, <1>3, CoveringSegments
  <2>2. plan[g] = Run(plan[g][1], LastOf(plan[g]))
    BY <1>3 DEF Covers
  <2> QED
    BY <1>4, <2>1, <2>2
<1>6. Before(g) = F - 1
  <2>1. CASE g = 1
    BY <1>5, <2>1 DEF Before
  <2>2. CASE g # 1
    <3>1. g - 1 \in DOMAIN plan
      BY <1>1, <2>2
    <3>2. LastOf(plan[g - 1]) \in plan[g - 1][1]..Len(facts.memories)
          /\ plan[g - 1][1] \in 1..Len(facts.memories)
      BY <1>1, <1>2, <1>3, <3>1, CoveringSegments
    <3>3. LastOf(plan[g - 1]) \in Nat
      BY <1>2, <3>2
    <3> QED
      BY <1>5, <2>2, <3>3 DEF Before
  <2> QED
    BY <2>1, <2>2
<1> DEFINE n == L - F + 1
           ms == [i \in DOMAIN plan[g] |-> facts.memories[plan[g][i]]]
<1>7. n \in 1..N - (F - 1) /\ n \in Nat /\ L = F - 1 + n /\ F - 1 \in Nat /\ L \in Nat
      /\ N \in Nat
  BY <1>2, <1>4, <1>5, SMTT(20)
<1>8. ms = [i \in 1..n |-> facts.memories[F + i - 1]]
  <2>1. plan[g] = [i \in 1..n |-> F + i - 1]
    BY <1>5 DEF Run
  <2> QED
    BY <2>1
<1>9. \A i \in 1..n : /\ F + i - 1 \in 1..N /\ facts.memories[F + i - 1] \in Texts
                      /\ ms[i] = facts.memories[F + i - 1]
  <2>1. \A i \in 1..n : F + i - 1 \in 1..N
    BY <1>5, <1>7
  <2> QED
    BY <1>2, <1>4, <1>8, <2>1, ElementOfSeq
<1>10. ms \in Seq(Texts) /\ Len(ms) = n
  <2>1. ms \in [1..n -> Texts]
    BY <1>8, <1>9
  <2> HIDE DEF ms, n
  <2> QED
    BY <1>7, <2>1, SeqDef
<1>11. Content(g) = <<facts.system>> \o ms
  BY DEF Content, ContentOf
<1>12. ms = SubSeq(facts.memories, F, L)
  <2>1. F \in Int /\ L \in Int /\ F <= L /\ F - 1 \in Nat /\ \A i \in F..L : i \in 1..N
    BY <1>5, <1>7
  <2>2. \A i \in F..L : facts.memories[i] \in Texts
    BY <1>2, <1>4, <2>1, ElementOfSeq
  <2>3. /\ SubSeq(facts.memories, F, L) \in Seq(Texts)
        /\ Len(SubSeq(facts.memories, F, L)) = n
        /\ \A i \in 1..n : SubSeq(facts.memories, F, L)[i] = facts.memories[F + i - 1]
    BY <2>1, <2>2, SubSeqProperties
  <2> HIDE DEF ms, n
  <2> QED
    BY <1>9, <1>10, <2>3, SeqEqual
<1> HIDE DEF ms, n
<1>13. Len(Content(g)) = n + 1 /\ Content(g) # <<>>
  <2>1. Texts \subseteq Words /\ facts.system \in Words
    BY <1>2 DEF Words, Facts
  <2>2. ms \in Seq(Words)
    <3>1. \A i \in 1..n : ms[i] \in Words
      BY <1>9, <2>1
    <3>2. ms = [i \in 1..n |-> ms[i]]
      BY <1>7, <1>10
    <3> QED
      BY <1>7, <3>1, <3>2, SeqDef
  <2>3. <<facts.system>> \in Seq(Words) /\ Len(<<facts.system>>) = 1
    BY <2>1
  <2>4. Len(<<facts.system>> \o ms) = 1 + n
    BY <1>10, <2>2, <2>3, ConcatProperties
  <2>5. 1 + n = n + 1 /\ n + 1 # 0
    BY <1>7
  <2> QED
    BY <1>11, <2>4, <2>5
<1>14. /\ Content(g) = <<facts.system>> \o SubSeq(facts.memories, F - 1 + 1, F - 1 + n)
       /\ LastOf(plan[g]) = F - 1 + n
  <2>1. F - 1 + 1 = F /\ F - 1 + n = L
    BY <1>5, <1>7
  <2> QED
    BY <1>4, <1>11, <1>12, <2>1
<1> QED
  BY <1>4, <1>6, <1>7, <1>13, <1>14

-----------------------------------------------------------------------------
(* What a client sees of its search.                                       *)
Asked(done, piece) == [state |-> "running", done |-> done, piece |-> piece]

LEMMA QueryShape ==
  /\ cmd.op = "search" => QueryNow = Asked(Searched, Shown)
  /\ cmd.op # "search" => /\ QueryNow.state # "running"
                          /\ reply = Reply("search", TRUE) => QueryNow = Searchable!Answered
                          /\ reply # Reply("search", TRUE) => QueryNow = Searchable!NoQuery
  /\ \A done, piece : /\ Asked(done, piece).state = "running"
                      /\ Asked(done, piece).done = done /\ Asked(done, piece).piece = piece
  /\ \A done : Asked(done, <<>>) = Searchable!Between(done)
BY DEF QueryNow, Asked, Searchable!Answered, Searchable!NoQuery, Searchable!Between,
       Searchable!Query

LEMMA SameFacts ==
  ASSUME UNCHANGED <<facts, stored>>
  PROVE  UNCHANGED Searchable!vars
BY RestoredFollows DEF Searchable!vars

(* The two abstract specifications have the same steps on the facts.       *)
LEMMA DurableIsSearchable ==
  ASSUME Durable!Next \/ UNCHANGED Durable!vars
  PROVE  Searchable!Next \/ UNCHANGED Searchable!vars
BY DEF Durable!Next, Durable!vars, Searchable!Next, Searchable!vars,
       Durable!Create, Durable!Configure, Durable!SetSystem, Durable!Add, Durable!Changed,
       Durable!Save, Durable!Recover, Durable!Lose, Durable!Drop, Durable!Restart,
       Searchable!Create, Searchable!Configure, Searchable!SetSystem, Searchable!Add,
       Searchable!Changed, Searchable!Save, Searchable!Recover, Searchable!Lose,
       Searchable!Drop, Searchable!Restart

LEMMA SearchEnds ==
  ASSUME cmd.op = "search", Return(FALSE)
  PROVE  QueryNow' = Searchable!NoQuery
<1>1. cmd' = Idle /\ reply' = Reply("search", FALSE)
  BY DEF Return
<1>2. cmd'.op # "search" /\ reply' # Reply("search", TRUE)
  BY <1>1 DEF Idle, Reply
<1> QED
  BY <1>2 DEF QueryNow, Searchable!NoQuery, Searchable!Query

LEMMA StopImplements ==
  ASSUME UNCHANGED <<facts, stored>>, QueryNow' = Searchable!NoQuery
  PROVE  Searchable!SearchableNext
BY SameFacts DEF Searchable!SearchableNext, Searchable!SearchStep, Searchable!Forget

LEMMA FactsSeen ==
  ASSUME CachesInv, facts # None
  PROVE  /\ FactsOf(facts) # None
         /\ FactsOf(facts).memories = facts.memories /\ FactsOf(facts).system = facts.system
<1>1. facts \in FactsType
  BY DEF CachesInv, DataOK, Held, FactsType
<1> QED
  BY <1>1, FactsOfType

LEMMA BeginImplements ==
  ASSUME CachesInv, cmd.op # "search", Begin("search")
  PROVE  Searchable!SearchableNext
<1>1. /\ UNCHANGED <<facts, stored>> /\ facts # None
      /\ cmd' = [op |-> "search", at |-> "run", seg |-> 0]
  BY DEF Begin, Quiet
<1>2. cmd'.op = "search" /\ cmd'.at = "run"
  BY <1>1
<1>3. QueryNow' = Searchable!Between(0)
  BY <1>2 DEF QueryNow, Searched, Shown, Searchable!Between, Searchable!Query
<1>4. FactsOf(facts) # None /\ QueryNow.state # "running"
  BY <1>1, FactsSeen, QueryShape
<1> QED
  BY <1>1, <1>3, <1>4, SameFacts
     DEF Searchable!SearchableNext, Searchable!SearchStep, Searchable!Ask

(* A step of the search to another stage or segment. *)
LEMMA SearchGoesOn ==
  ASSUME FactsInv, cmd.op = "search", NEW at, NEW seg, Goto(at, seg), plan' = plan
  PROVE  /\ cmd'.op = "search" /\ cmd'.at = at /\ cmd'.seg = seg
         /\ QueryNow' = Asked(IF at = "run" \/ seg = 1 THEN 0 ELSE LastOf(plan[seg - 1]),
                              IF at = "infer" THEN kv'.active.content ELSE <<>>)
<1>1. cmd' = [op |-> cmd.op, at |-> at, seg |-> seg]
  BY GoneTo
<1>2. cmd'.op = "search" /\ cmd'.at = at /\ cmd'.seg = seg
  BY <1>1
<1> QED
  BY <1>2 DEF QueryNow, Searched, Shown, Asked

LEMMA SearchImplements ==
  ASSUME FactsInv, cmd.op = "search", Search
  PROVE  [Searchable!SearchableNext]_(Searchable!allVars)
<1>1. /\ UNCHANGED <<facts, stored, plan>> /\ cmd.at = "run"
      /\ Goto("activate", 1) \/ Return(FALSE)
  BY DEF Search, Running
<1>2. CASE Goto("activate", 1)
  <2>1. QueryNow' = Asked(0, <<>>)
    BY <1>1, <1>2, SearchGoesOn
  <2>2. QueryNow = Asked(0, <<>>)
    BY <1>1, QueryShape DEF Searched, Shown
  <2> QED
    BY <1>1, <2>1, <2>2, SameFacts DEF Searchable!allVars, Searchable!vars
<1>3. CASE Return(FALSE)
  BY <1>1, <1>3, SearchEnds, StopImplements
<1> QED
  BY <1>1, <1>2, <1>3

(* The piece shown is the KV of the segment, and the KV is current.        *)
LEMMA SearchActivateImplements ==
  ASSUME FactsInv, CachesInv, CoverInv, CachesInv', cmd.op = "search", SearchActivate
  PROVE  Searchable!SearchableNext
<1>1. /\ UNCHANGED <<facts, stored, plan>> /\ cmd.at = "activate" /\ cmd.seg \in DOMAIN plan
      /\ Goto("infer", cmd.seg) \/ Return(FALSE)
  BY DEF SearchActivate, Running
<1>2. CASE Goto("infer", cmd.seg)
  <2> DEFINE g == cmd.seg
             piece == Content(g)
  <2>1. plan # None /\ facts # None
    BY <1>1, AtStage
  <2>2. cmd'.at = "infer" /\ cmd'.seg = g
        /\ QueryNow' = Asked(Before(g), kv'.active.content)
    BY <1>1, <1>2, SearchGoesOn DEF Before
  <2>3. SearchReadsCurrent'
    BY DEF SearchReadsCurrent, CachesInv, StageOK, Usable, Sound, Current
  <2>4. kv'.active.content = ContentOf(facts', plan'[g])
    BY <2>2, <2>3 DEF SearchReadsCurrent, Content
  <2>5. QueryNow' = Asked(Before(g), piece)
    BY <1>1, <2>2, <2>4 DEF Content
  <2>6. QueryNow = Asked(Before(g), <<>>)
    BY <1>1, QueryShape DEF Searched, Shown, Before
  <2>7. PICK n \in 1..Len(facts.memories) - Before(g) :
           piece = <<facts.system>> \o SubSeq(facts.memories, Before(g) + 1, Before(g) + n)
    BY <1>1, <2>1, PieceOfSegment
  <2> HIDE DEF piece, g
  <2>8. /\ QueryNow.state = "running" /\ QueryNow.piece = <<>> /\ QueryNow.done = Before(g)
        /\ QueryNow' = [QueryNow EXCEPT !.piece = piece]
    BY <2>5, <2>6 DEF Asked
  <2>9. Searchable!Read
    BY <2>1, <2>7, <2>8, FactsSeen DEF Searchable!Read
  <2> QED
    BY <1>1, <2>9, SameFacts DEF Searchable!SearchableNext, Searchable!SearchStep
<1>3. CASE Return(FALSE)
  BY <1>1, <1>3, SearchEnds, StopImplements
<1> QED
  BY <1>1, <1>2, <1>3

LEMMA SearchInferImplements ==
  ASSUME FactsInv, CachesInv, CoverInv, cmd.op = "search", SearchInfer
  PROVE  Searchable!SearchableNext
<1>1. /\ UNCHANGED <<facts, stored, plan>> /\ cmd.at = "infer"
      /\ Goto("activate", cmd.seg + 1) \/ Return(FALSE)
  BY DEF SearchInfer, Running
<1>2. CASE Goto("activate", cmd.seg + 1)
  <2>1. plan # None /\ cmd.seg \in DOMAIN plan
    BY <1>1, AtStage DEF CachesInv, StageOK
  <2>2. PICK g : g = cmd.seg
    OBVIOUS
  <2>3. g \in DOMAIN plan /\ g \in 1..Len(plan) /\ Len(plan) \in Nat
    BY <2>1, <2>2, PlanLength
  <2>4. QueryNow' = Asked(LastOf(plan[g]), <<>>)
    <3>1. PICK next : next = g + 1
      OBVIOUS
    <3>2. next # 1 /\ next - 1 = g
      BY <2>3, <3>1
    <3>3. Goto("activate", next) /\ plan' = plan
      BY <1>1, <1>2, <2>2, <3>1
    <3>4. QueryNow' = Asked(IF next = 1 THEN 0 ELSE LastOf(plan[next - 1]), <<>>)
      BY <3>3, SearchGoesOn
    <3> QED
      BY <3>2, <3>4
  <2>5. SearchReadsCurrent
    BY DEF SearchReadsCurrent, CachesInv, StageOK, Usable, Sound, Current
  <2>6. QueryNow = Asked(Before(g), Content(g))
    BY <1>1, <2>2, <2>5, QueryShape DEF Searched, Shown, Before, SearchReadsCurrent
  <2>7. PICK n \in 1..Len(facts.memories) - Before(g) :
           /\ Len(Content(g)) = n + 1 /\ Content(g) # <<>>
           /\ LastOf(plan[g]) = Before(g) + n
    BY <2>1, <2>3, PieceOfSegment
  <2>8. QueryNow' = Searchable!Between(QueryNow.done + Len(QueryNow.piece) - 1)
    <3>1. QueryNow.done = Before(g) /\ QueryNow.piece = Content(g)
      BY <2>6 DEF Asked
    <3>2. n \in Int /\ Before(g) \in Nat
      BY <2>1, <2>3, PieceOfSegment
    <3>3. Before(g) + (n + 1) - 1 = Before(g) + n
      BY <3>2
    <3> QED
      BY <2>4, <2>7, <3>1, <3>3, QueryShape
  <2>9. QueryNow.state = "running" /\ QueryNow.piece # <<>>
    BY <2>6, <2>7 DEF Asked
  <2> QED
    BY <1>1, <2>8, <2>9, SameFacts
       DEF Searchable!SearchableNext, Searchable!SearchStep, Searchable!Rank
<1>3. CASE Return(FALSE)
  BY <1>1, <1>3, SearchEnds, StopImplements
<1> QED
  BY <1>1, <1>2, <1>3

(* Only when the last segment was searched, and with it every memory.      *)
LEMMA SearchEndImplements ==
  ASSUME FactsInv, CachesInv, CoverInv, SearchInv, cmd.op = "search", SearchEnd
  PROVE  Searchable!SearchableNext
<1>1. /\ UNCHANGED <<facts, stored, plan>> /\ cmd.at = "activate" /\ cmd.seg \notin DOMAIN plan
      /\ cmd' = Idle /\ reply' = Reply("search", TRUE)
  BY DEF SearchEnd, Running, Return
<1>2. plan # None /\ plan # <<>> /\ cmd.seg \in 1..Len(plan) + 1
  BY <1>1, AtStage DEF SearchInv
<1>3. /\ Len(plan) \in Nat /\ DOMAIN plan = 1..Len(plan) /\ Len(plan) # 0
      /\ facts # None /\ Held(facts) /\ PlanOf(plan, Len(facts.memories))
  BY <1>2, PlanLength
<1>4. cmd.seg = Len(plan) + 1 /\ cmd.seg # 1 /\ cmd.seg - 1 = Len(plan) /\ 1 \in DOMAIN plan
  <2>1. PICK g, l : g = cmd.seg /\ l = Len(plan)
    OBVIOUS
  <2>2. g \in 1..l + 1 /\ l \in Nat /\ l # 0 /\ g \notin 1..l
    BY <1>1, <1>2, <1>3, <2>1
  <2>3. g = l + 1 /\ g # 1 /\ g - 1 = l /\ 1 \in 1..l
    BY <2>2
  <2> QED
    BY <1>3, <2>1, <2>3
<1>5. Len(facts.memories) \in Nat /\ Len(facts.memories) <= MaxMemories
  BY <1>3, MemoriesOf
<1>6. Covers(plan, Len(facts.memories))
  BY <1>2 DEF CoverInv, PlanCoversMemories
<1>7. plan[1][1] \in 1..Len(facts.memories)
      /\ (Len(facts.memories) # 0 => LastOf(plan[Len(plan)]) = Len(facts.memories))
  BY <1>3, <1>4, <1>5, <1>6, CoveringSegments
<1>8. Len(facts.memories) > 0 /\ LastOf(plan[Len(plan)]) = Len(facts.memories)
  BY <1>5, <1>7
<1>9. QueryNow = Asked(Len(facts.memories), <<>>)
  BY <1>1, <1>4, <1>8, QueryShape DEF Searched, Shown
<1>10. /\ QueryNow.state = "running" /\ QueryNow.piece = <<>>
       /\ QueryNow.done = Len(facts.memories)
  BY <1>9 DEF Asked
<1>11. QueryNow' = Searchable!Answered
  <2>1. cmd'.op # "search"
    BY <1>1 DEF Idle
  <2> QED
    BY <1>1, <2>1 DEF QueryNow, Searchable!Answered, Searchable!Query
<1>12. Searchable!Answer
  BY <1>3, <1>8, <1>10, <1>11, FactsSeen DEF Searchable!Answer
<1> QED
  BY <1>1, <1>12, SameFacts DEF Searchable!SearchableNext, Searchable!SearchStep

LEMMA RestartImplements ==
  ASSUME Restart
  PROVE  Searchable!SearchableNext
<1>1. facts' = Restored /\ stored' = stored /\ cmd' = Idle /\ reply' = NoReply
  BY DEF Restart
<1>2. cmd'.op # "search" /\ reply' # Reply("search", TRUE)
  BY <1>1 DEF Idle, NoReply, Reply
<1>3. QueryNow' = Searchable!NoQuery
  BY <1>2 DEF QueryNow, Searchable!NoQuery, Searchable!Query
<1>4. Searchable!Restart
  BY <1>1, RestoredFollows DEF Searchable!Restart
<1> QED
  BY <1>3, <1>4 DEF Searchable!SearchableNext, Searchable!Forget

LEMMA OtherStepImplements ==
  ASSUME FactsInv, CopyInv, DoneInv, CachesInv, cmd.op # "search", Next
  PROVE  Searchable!SearchableNext
<1>1. CASE Begin("search")
  BY <1>1, BeginImplements
<1>2. CASE cmd'.op # "search" /\ reply' # Reply("search", TRUE)
  <2>1. QueryNow' = Searchable!NoQuery
    BY <1>2 DEF QueryNow, Searchable!NoQuery, Searchable!Query
  <2>2. Searchable!Next \/ UNCHANGED Searchable!vars
    BY StepImplements, DurableIsSearchable
  <2>3. QueryNow.state # "running"
    BY QueryShape
  <2> QED
    BY <2>1, <2>2, <2>3
       DEF Searchable!SearchableNext, Searchable!SearchStep, Searchable!Forget
<1> QED
  BY <1>1, <1>2, OtherQueries

LEMMA StepImplementsSearch ==
  ASSUME FactsInv, CopyInv, CachesInv, DoneInv, CoverInv, SearchInv, [Next]_vars
  PROVE  [Searchable!SearchableNext]_(Searchable!allVars)
<1>1. CASE UNCHANGED vars
  BY <1>1, SameFacts DEF vars, Searchable!allVars, Searchable!vars, QueryNow, Searched, Shown
<1>2. CASE Next /\ cmd.op # "search"
  BY <1>2, OtherStepImplements
<1>3. CASE Next /\ cmd.op = "search"
  <2>1. CASE Search
    BY <1>3, <2>1, SearchImplements
  <2>2. CASE SearchActivate
    <3>1. CachesInv'
      BY CachesInvInductive
    <3> QED
      BY <1>3, <2>2, <3>1, SearchActivateImplements
  <2>3. CASE SearchInfer
    BY <1>3, <2>3, SearchInferImplements
  <2>4. CASE SearchEnd
    BY <1>3, <2>4, SearchEndImplements
  <2>5. CASE Restart
    BY <2>5, RestartImplements
  <2> QED
    BY <1>3, <2>1, <2>2, <2>3, <2>4, <2>5, SearchQueries
<1> QED
  BY <1>1, <1>2, <1>3

(* When no token estimate fails, a search that is answered has shown the   *)
(* model every memory of the session, once and in order, under its system  *)
(* text: whatever was added, indexed, evicted, saved, deleted or restarted *)
(* before, and whatever of it failed.                                      *)
THEOREM SearchesImplementSearchable ==
  ASSUME PlanMayFail = FALSE
  PROVE  Spec => SearchableSpec
<1> DEFINE Inv == FactsInv /\ CopyInv /\ CachesInv /\ DoneInv /\ CoverInv
<1>1. Spec => []Inv
  BY CopyInvariant, DoneInvariant, CoverInvariant, PTL
<1>2. Init => SearchInv
  BY DEF Init, Idle, SearchInv
<1>3. Inv /\ SearchInv /\ [Next]_vars => SearchInv'
  BY SearchInvInductive
<1>4. Init => Searchable!Init /\ QueryNow = Searchable!NoQuery
  BY RestoredFollows DEF Init, Idle, NoReply, Reply, Searchable!Init, FactsOf, QueryNow,
         Searchable!NoQuery, Searchable!Query
<1>5. Inv /\ SearchInv /\ [Next]_vars => [Searchable!SearchableNext]_(Searchable!allVars)
  BY StepImplementsSearch
<1> HIDE DEF Inv
<1> QED
  BY <1>1, <1>2, <1>3, <1>4, <1>5, PTL DEF Spec, SearchableSpec, Searchable!SearchableSpec

=============================================================================
