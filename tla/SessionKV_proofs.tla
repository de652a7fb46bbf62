-------------------------- MODULE SessionKV_proofs --------------------------
(***************************************************************************)
(* Proofs about SessionKV, for every set of texts, every bound, both       *)
(* engines, and with or without a budget or failing plan rebuilds: first   *)
(* the order in which facts and KV files are written, then the plan and    *)
(* the KV caches, where what is in memory and what a search reads is the   *)
(* KV of the memories a segment has now.                                   *)
(***************************************************************************)
EXTENDS SessionKV, SequenceTheorems, FiniteSetTheorems, WellFoundedInduction, TLAPS

-----------------------------------------------------------------------------
(* The order in which facts and KV files are written.                      *)

KVStages == {"segment", "file", "manifest"}
Stages == {"run", "build", "activate", "infer", "cache", "kept"} \cup KVStages
CmdOK == cmd \in [op : {"idle", "delete"} \cup Planned, at : Stages, seg : Nat]

(* A save that failed leaves the dirty flag, every change of the facts is  *)
(* saved or flagged, so that the copy of a clean session is the session or *)
(* lost, and no command that writes KV files runs while the flag is up.    *)
(* Between the removal of the two directories of a deleted session the     *)
(* facts in memory outlive those on disk.                                  *)
FactsInv ==
    /\ CmdOK
    /\ dirty \in BOOLEAN
    /\ cmd # Idle => facts # None
    /\ cmd.op = "delete" => cmd.at \in {"cache", "kept"}
    /\ facts # None /\ ~dirty /\ cmd.at # "cache" => stored \in {facts, Husk}
    /\ cmd.at \in KVStages => ~dirty

(* A command that returns leaves the facts as they were, or saves them, or *)
(* leaves them dirty.                                                      *)
LEMMA ReturnKeeps ==
  ASSUME FactsInv, cmd' = Idle, dirty' \in BOOLEAN,
         facts' # None /\ ~dirty' => stored' \in {facts', Husk}
  PROVE  FactsInv'
BY DEF FactsInv, CmdOK, Idle, Stages, KVStages

(* A command goes on without changing facts or directory. *)
LEMMA GotoKeeps ==
  ASSUME FactsInv, cmd.op # "delete", cmd # Idle,
         NEW at \in Stages \ {"cache"}, NEW seg \in Nat, Goto(at, seg),
         UNCHANGED <<facts, dirty, stored>>, at \in KVStages => ~dirty, cmd.at # "cache"
  PROVE  FactsInv'
<1>1. cmd' = [op |-> cmd.op, at |-> at, seg |-> seg]
  BY DEF Goto, FactsInv, CmdOK
<1> QED
  BY <1>1 DEF FactsInv, CmdOK

LEMMA FactsInvInductive == FactsInv /\ [Next]_vars => FactsInv'
<1> SUFFICES ASSUME FactsInv, [Next]_vars PROVE FactsInv'
  OBVIOUS
<1>inv. /\ CmdOK
        /\ cmd # Idle => facts # None
        /\ facts # None /\ ~dirty /\ cmd.at # "cache" => stored \in {facts, Husk}
        /\ cmd = Idle => cmd.at # "cache"
  BY DEF FactsInv, Idle
<1>cmd. CmdOK /\ (cmd # Idle => facts # None)
  BY DEF FactsInv
<1>1. ASSUME NEW b \in BOOLEAN, CreateSession(b) PROVE FactsInv'
  <2>1. cmd' = Idle /\ dirty' = FALSE /\ stored' = facts'
    BY <1>1 DEF CreateSession, PersistOk
  <2> QED
    BY <2>1, ReturnKeeps
<1>0. ASSUME CreateFails PROVE FactsInv'
  <2>1. cmd' = Idle /\ dirty' = dirty /\ facts' = None
    BY <1>0 DEF CreateFails
  <2> QED
    BY <2>1, ReturnKeeps DEF FactsInv
<1>2. ASSUME NEW t \in Systems, AddSystem(t) PROVE FactsInv'
  <2>1. cmd' = Idle /\ dirty' \in BOOLEAN /\ (~dirty' => stored' \in {facts', Husk})
    BY <1>2 DEF AddSystem, Quiet, PersistOk, PersistFails
  <2> QED
    BY <2>1, ReturnKeeps
<1>3. ASSUME NEW op \in Planned, Begin(op) PROVE FactsInv'
  <2>1. cmd' = [op |-> op, at |-> "run", seg |-> 0] /\ UNCHANGED <<facts, dirty, stored>>
    BY <1>3 DEF Begin
  <2>2. facts # None /\ cmd = Idle
    BY <1>3 DEF Begin, Quiet
  <2> QED
    BY <2>1, <2>2 DEF FactsInv, CmdOK, Stages, KVStages, Planned, Idle
<1>4. ASSUME NEW op \in Planned, BeginFails(op) PROVE FactsInv'
  <2>1. /\ cmd' = Idle /\ cmd = Idle
        /\ facts' = facts /\ dirty' = dirty /\ stored' = stored
    BY <1>4 DEF BeginFails, Quiet
  <2>2. dirty' \in BOOLEAN
    BY <2>1 DEF FactsInv
  <2>0. cmd.at = "run"
    BY <2>1 DEF Idle
  <2>3. facts' # None /\ ~dirty' => stored' \in {facts', Husk}
    BY <2>0, <2>1 DEF FactsInv
  <2> QED
    BY <2>1, <2>2, <2>3, ReturnKeeps
<1>5. ASSUME NEW t \in Texts, AddToLastSegment(t) PROVE FactsInv'
  <2>1. cmd' = Idle /\ dirty' = TRUE
    BY <1>5 DEF AddToLastSegment, Return
  <2> QED
    BY <2>1, ReturnKeeps
<1>6. ASSUME NEW t \in Texts, AddInNewSegment(t) PROVE FactsInv'
  <2>1. cmd' = Idle /\ dirty' \in BOOLEAN /\ (~dirty' => stored' \in {facts', Husk})
    BY <1>6 DEF AddInNewSegment, Return, PersistOk, PersistFails
  <2> QED
    BY <2>1, ReturnKeeps
<1>7. ASSUME \/ AddMemoryRejected \/ NextSegmentRejected
             \/ IndexResidentEnd \/ SearchEnd
      PROVE  FactsInv'
  <2>1. cmd' = Idle /\ UNCHANGED <<facts, dirty, stored>> /\ cmd.at \in {"run", "build", "activate"}
    BY <1>7 DEF AddMemoryRejected, NextSegmentRejected, IndexResidentEnd, SearchEnd,
                Return, Running
  <2> QED
    BY <1>inv, <2>1, ReturnKeeps DEF FactsInv
<1>8. ASSUME NextSegment PROVE FactsInv'
  <2>1. cmd' = Idle /\ dirty' \in BOOLEAN /\ (~dirty' => stored' \in {facts', Husk})
    BY <1>8 DEF NextSegment, Return, PersistOk, PersistFails
  <2> QED
    BY <2>1, ReturnKeeps
<1>9. ASSUME NEW op \in {"index", "save"}, NEW deactivate \in BOOLEAN, IndexOrSave(op, deactivate)
      PROVE  FactsInv'
  <2>op. cmd.op = op /\ cmd.at = "run"
    BY <1>9 DEF IndexOrSave, Running
  <2>0. cmd.op = op /\ cmd.at = "run" /\ cmd # Idle /\ facts # None
    BY <1>cmd, <2>op DEF Idle
  <2>1. CASE PersistIfDirty(TRUE)
    <3>1. facts' = facts /\ dirty' = FALSE /\ stored' \in {facts', Husk}
      BY <1>inv, <2>0, <2>1 DEF PersistIfDirty, PersistOk, FactsInv
    <3>2. CASE Return(FALSE)
      BY <3>1, <3>2, ReturnKeeps DEF Return
    <3>3. CASE Goto(IF op = "save" \/ facts.kv_persist THEN "segment" ELSE "build", 1)
      <4>1. PICK at \in {"segment", "build"} : cmd' = [op |-> op, at |-> at, seg |-> 1]
        <5>1. ASSUME NEW at \in Stages, NEW seg \in Nat, Goto(at, seg)
              PROVE  cmd' = [op |-> op, at |-> at, seg |-> seg]
          BY <1>cmd, <2>0, <5>1 DEF Goto, CmdOK
        <5>2. "segment" \in Stages /\ "build" \in Stages /\ 1 \in Nat
          BY DEF Stages, KVStages
        <5> QED
          BY <3>3, <5>1, <5>2
      <4> QED
        BY <2>0, <3>1, <4>1 DEF FactsInv, CmdOK, Stages, KVStages, Planned
    <3>4. PersistIfDirty(FALSE) /\ Return(FALSE) => FactsInv'
      BY <3>1, ReturnKeeps DEF Return
    <3> QED
      BY <1>9, <3>2, <3>3, <3>4 DEF IndexOrSave
  <2>2. CASE PersistIfDirty(FALSE) /\ Return(FALSE)
    <3>1. cmd' = Idle /\ dirty' = TRUE
      BY <2>2 DEF PersistIfDirty, PersistFails, Return
    <3> QED
      BY <3>1, ReturnKeeps
  <2> QED
    BY <1>9, <2>1, <2>2 DEF IndexOrSave
<1>10. ASSUME \/ IndexResidentSegment \/ PersistSegment \/ PersistFile \/ PersistManifest
              \/ Search \/ SearchActivate \/ SearchInfer
       PROVE  FactsInv'
  <2>1. UNCHANGED <<facts, dirty, stored>>
    BY <1>10 DEF IndexResidentSegment, PersistSegment, PersistFile, PersistManifest,
                 Search, SearchActivate, SearchInfer
  <2>2. cmd.at \notin {"cache", "kept"}
    BY <1>10 DEF IndexResidentSegment, PersistSegment, PersistFile, PersistManifest,
                 Search, SearchActivate, SearchInfer, Running
  <2>3. cmd.op # "delete" /\ (cmd # Idle => facts # None)
    BY <2>2 DEF FactsInv
  <2>4. CASE cmd' = Idle
    BY <1>inv, <2>1, <2>2, <2>4, ReturnKeeps DEF FactsInv
  <2>5. ASSUME NEW at \in Stages \ {"cache", "kept"}, NEW seg \in Nat, Goto(at, seg),
               at \in KVStages => cmd.at \in KVStages, cmd # Idle
        PROVE  FactsInv'
    BY <2>1, <2>2, <2>3, <2>5, GotoKeeps DEF FactsInv
  <2> QED
    <3>1. cmd.seg \in Nat /\ cmd.seg + 1 \in Nat /\ 1 \in Nat
      BY <1>cmd DEF CmdOK
    <3>2. \A at \in {"build", "activate", "infer", "segment", "file", "manifest"} :
             at \in Stages \ {"cache", "kept"}
      BY DEF Stages, KVStages
    <3>3. \A at \in {"build", "activate", "infer"} : at \notin KVStages
      BY DEF KVStages
    <3>4. CASE PersistSegment \/ PersistFile \/ PersistManifest
      <4>1. cmd.at \in KVStages
        BY <3>4 DEF PersistSegment, PersistFile, PersistManifest, KVStages
      <4>2. cmd # Idle
        BY <4>1 DEF Idle, KVStages
      <4>3. PersistSegment => cmd' = Idle \/ Goto("manifest", cmd.seg) \/ Goto("file", cmd.seg)
        BY DEF PersistSegment, Return
      <4>4. PersistFile => cmd' = Idle \/ Goto("manifest", cmd.seg)
        BY DEF PersistFile, Return
      <4>5. PersistManifest => cmd' = Idle \/ Goto("segment", cmd.seg + 1)
        BY DEF PersistManifest, Return
      <4> QED
        BY <2>4, <2>5, <3>1, <3>2, <3>4, <4>1, <4>2, <4>3, <4>4, <4>5
    <3>5. CASE IndexResidentSegment \/ Search \/ SearchActivate \/ SearchInfer
      <4>1. cmd.op \in {"index", "search"}
        BY <3>5 DEF IndexResidentSegment, Search, SearchActivate, SearchInfer, Running
      <4>2. cmd # Idle
        BY <4>1 DEF Idle
      <4>3. IndexResidentSegment => cmd' = Idle \/ Goto("build", cmd.seg + 1)
        BY DEF IndexResidentSegment, Return
      <4>4. Search => cmd' = Idle \/ Goto("activate", 1)
        BY DEF Search, Return
      <4>5. SearchActivate => cmd' = Idle \/ Goto("infer", cmd.seg)
        BY DEF SearchActivate, Return
      <4>6. SearchInfer => cmd' = Idle \/ Goto("activate", cmd.seg + 1)
        BY DEF SearchInfer, Return
      <4> QED
        BY <2>4, <2>5, <3>1, <3>2, <3>3, <3>5, <4>2, <4>3, <4>4, <4>5, <4>6
    <3> QED
      BY <1>10, <3>4, <3>5
<1>11. ASSUME PersistEnd PROVE FactsInv'
  <2>0. cmd' = Idle /\ dirty = FALSE /\ (facts # None => stored \in {facts, Husk})
    BY <1>inv, <1>11 DEF PersistEnd, Return, FactsInv, KVStages
  <2>1. \/ UNCHANGED <<facts, dirty, stored>>
        \/ dirty' = TRUE
        \/ dirty' = FALSE /\ stored' = facts'
    BY <1>11 DEF PersistEnd, PersistOk, PersistFails
  <2> QED
    BY <2>0, <2>1, ReturnKeeps
<1>12. ASSUME ClearSession \/ OtherCommand PROVE FactsInv'
  <2>1. cmd' = cmd /\ UNCHANGED <<facts, dirty, stored>>
    BY <1>12 DEF ClearSession, OtherCommand
  <2> QED
    BY <2>1 DEF FactsInv, CmdOK
<1>13. ASSUME DeleteSession PROVE FactsInv'
  <2>1. /\ facts # None /\ UNCHANGED <<facts, dirty>> /\ cmd = Idle
        /\ \/ cmd' = [op |-> "delete", at |-> "cache", seg |-> 0]
           \/ /\ stored' = stored \/ stored' = Husk
              /\ cmd' = [op |-> "delete", at |-> "kept", seg |-> 0]
    BY <1>13 DEF DeleteSession, Quiet, LeftOf
  <2> QED
    BY <1>inv, <2>1 DEF FactsInv, CmdOK, Stages, KVStages, Idle
<1>14. ASSUME DeleteCache PROVE FactsInv'
  <2>1. CASE cmd.at = "cache"
    BY <1>14, <2>1, ReturnKeeps DEF DeleteCache, Return
  <2>2. CASE cmd.at # "cache"
    BY <1>inv, <1>14, <2>2, ReturnKeeps DEF DeleteCache, Return, FactsInv
  <2> QED
    BY <2>1, <2>2
<1>15. ASSUME Restart PROVE FactsInv'
  BY <1>15, ReturnKeeps DEF Restart, Restored
<1>16. CASE UNCHANGED vars
  BY <1>16 DEF vars, FactsInv, CmdOK
<1> QED
  BY <1>0, <1>1, <1>2, <1>3, <1>4, <1>5, <1>6, <1>7, <1>8, <1>9, <1>10, <1>11, <1>12, <1>13,
     <1>14, <1>15, <1>16 DEF Next, Index, Save

LEMMA FactsInvariant == Spec => []FactsInv
<1>1. Init => FactsInv
  <2> SUFFICES ASSUME Init PROVE FactsInv
    OBVIOUS
  <2>1. CmdOK /\ cmd.at = "run" /\ cmd.op = "idle"
    BY DEF Init, CmdOK, Idle, Stages
  <2> QED
    BY <2>1 DEF Init, FactsInv, KVStages
<1> QED
  BY <1>1, FactsInvInductive, PTL DEF Spec

(* The copy on disk of a session that does not look dirty is that session  *)
(* or is lost: it is never an older one, whatever saves and deletes failed *)
(* before and wherever the server was stopped and started again.           *)
THEOREM CleanNeverOld == Spec => []CleanIsNeverOld
<1>1. FactsInv => CleanIsNeverOld
  BY DEF FactsInv, CleanIsNeverOld, Idle
<1> QED
  BY <1>1, FactsInvariant, PTL

(* KV files and the manifest are written only for facts that were saved    *)
(* before: what they cover is never ahead of the session a restart loads.  *)
THEOREM FactsAlwaysBeforeKV == Spec => []FactsBeforeKV
<1>1. FactsInv => FactsBeforeKV
  BY DEF FactsInv, FactsBeforeKV, KVStages, CmdOK, Idle
<1> QED
  BY <1>1, FactsInvariant, PTL

(* What a step does to the facts, the flag and the copy.                   *)
LEMMA CopyStep ==
  ASSUME Next
  PROVE  \/ UNCHANGED <<facts, dirty, stored>>
         \/ dirty' = TRUE
         \/ stored' = facts'
         \/ facts' = None
         \/ cmd'.op = "delete"
<1>1. ASSUME NEW b \in BOOLEAN, CreateSession(b) PROVE stored' = facts'
  BY <1>1 DEF CreateSession, PersistOk
<1>2. ASSUME CreateFails PROVE facts' = None
  BY <1>2 DEF CreateFails
<1>3. ASSUME NEW t \in Systems, AddSystem(t) PROVE stored' = facts' \/ dirty' = TRUE
  BY <1>3 DEF AddSystem, PersistOk, PersistFails
<1>4. ASSUME NEW op \in Planned, Begin(op) \/ BeginFails(op)
      PROVE  UNCHANGED <<facts, dirty, stored>>
  BY <1>4 DEF Begin, BeginFails
<1>5. ASSUME NEW t \in Texts, AddToLastSegment(t) \/ AddInNewSegment(t)
      PROVE  stored' = facts' \/ dirty' = TRUE
  BY <1>5 DEF AddToLastSegment, AddInNewSegment, PersistOk, PersistFails
<1>6. ASSUME NextSegment PROVE stored' = facts' \/ dirty' = TRUE
  BY <1>6 DEF NextSegment, PersistOk, PersistFails
<1>7. ASSUME Index \/ Save
      PROVE  UNCHANGED <<facts, dirty, stored>> \/ stored' = facts' \/ dirty' = TRUE
  BY <1>7 DEF Index, Save, IndexOrSave, PersistIfDirty, PersistOk, PersistFails
<1>8. ASSUME PersistEnd
      PROVE  UNCHANGED <<facts, dirty, stored>> \/ stored' = facts' \/ dirty' = TRUE
  BY <1>8 DEF PersistEnd, PersistOk, PersistFails
<1>9. ASSUME \/ AddMemoryRejected \/ NextSegmentRejected
             \/ IndexResidentSegment \/ IndexResidentEnd
             \/ PersistSegment \/ PersistFile \/ PersistManifest
             \/ Search \/ SearchActivate \/ SearchInfer \/ SearchEnd
             \/ ClearSession \/ OtherCommand
      PROVE  UNCHANGED <<facts, dirty, stored>>
  BY <1>9 DEF AddMemoryRejected, NextSegmentRejected, IndexResidentSegment, IndexResidentEnd,
              PersistSegment, PersistFile, PersistManifest, Search, SearchActivate,
              SearchInfer, SearchEnd, ClearSession, OtherCommand
<1>10. ASSUME DeleteSession PROVE cmd'.op = "delete"
  BY <1>10 DEF DeleteSession
<1>11. ASSUME DeleteCache PROVE facts' = None \/ UNCHANGED <<facts, dirty, stored>>
  BY <1>11 DEF DeleteCache
<1>12. ASSUME Restart PROVE facts' = None \/ stored' = facts'
  BY <1>12 DEF Restart, Restored
<1> QED
  BY <1>1, <1>2, <1>3, <1>4, <1>5, <1>6, <1>7, <1>8, <1>9, <1>10, <1>11, <1>12 DEF Next

(* A session that looks clean and is not what a restart would bring back   *)
(* is made by a delete and by nothing else: not by a save that failed at   *)
(* either file, not by an append that was not saved, not by a crash.       *)
THEOREM OnlyDeletesLose == Spec => OnlyDeleteLoses
<1>1. [Next]_vars => [LostUnnoticed' => LostUnnoticed \/ cmd'.op = "delete"]_vars
  <2>1. Next => (LostUnnoticed' => LostUnnoticed \/ cmd'.op = "delete")
    BY CopyStep DEF LostUnnoticed
  <2> QED
    BY <2>1
<1> QED
  BY <1>1, PTL DEF Spec, OnlyDeleteLoses

-----------------------------------------------------------------------------
(* Contents.  A segment of n memories lists some of them, the i-th no      *)
(* earlier than i, so it is no longer than n.                              *)
Within(s, n) == s \in Seq(1..n) /\ s # <<>> /\ \A i \in DOMAIN s : i <= s[i]

Words == Texts \cup Systems \cup {""}

LEMMA WithinBounds ==
  ASSUME NEW n \in Nat, NEW s, Within(s, n)
  PROVE  /\ Len(s) \in 1..n
         /\ DOMAIN s = 1..Len(s)
         /\ \A i \in 1..Len(s) : s[i] \in i..n
<1>1. s \in Seq(1..n) /\ s # <<>> /\ \A i \in DOMAIN s : i <= s[i]
  BY DEF Within
<1>2. Len(s) \in Nat /\ DOMAIN s = 1..Len(s) /\ Len(s) # 0
  BY <1>1, LenProperties, EmptySeq
<1>3. \A i \in 1..Len(s) : s[i] \in 1..n
  BY <1>1, ElementOfSeq
<1> QED
  BY <1>1, <1>2, <1>3

LEMMA ContentByWords ==
  ASSUME NEW f \in Facts, NEW s \in Seq(1..Len(f.memories))
  PROVE  /\ ContentOf(f, s) \in Seq(Words)
         /\ Len(ContentOf(f, s)) = Len(s) + 1
         /\ ContentOf(f, s)[1] = f.system
         /\ \A i \in 1..Len(s) : ContentOf(f, s)[i + 1] = f.memories[s[i]]
<1> DEFINE ms == [i \in DOMAIN s |-> f.memories[s[i]]]
<1>1. Len(s) \in Nat /\ DOMAIN s = 1..Len(s) /\ f.memories \in Seq(Texts)
  BY LenProperties DEF Facts
<1>2. \A i \in 1..Len(s) : f.memories[s[i]] \in Texts
  <2> TAKE i \in 1..Len(s)
  <2>1. s[i] \in 1..Len(f.memories)
    BY ElementOfSeq
  <2> QED
    BY <1>1, <2>1, ElementOfSeq
<1>3. ms \in [1..Len(s) -> Words]
  BY <1>1, <1>2 DEF Words
<1>4. ms \in Seq(Words) /\ Len(ms) = Len(s)
  BY <1>1, <1>3, SeqDef
<1>5. <<f.system>> \in Seq(Words) /\ Len(<<f.system>>) = 1 /\ <<f.system>>[1] = f.system
  <2>1. f.system \in Words
    BY DEF Facts, Words
  <2> QED
    BY <2>1
<1>6. \A i \in 1..Len(s) : ms[i] = f.memories[s[i]]
  BY <1>1
<1>7. ContentOf(f, s) = <<f.system>> \o ms
  BY DEF ContentOf
<1> HIDE DEF ms
<1>8. /\ <<f.system>> \o ms \in Seq(Words)
      /\ Len(<<f.system>> \o ms) = 1 + Len(s)
      /\ \A i \in 1..1 + Len(s) : (<<f.system>> \o ms)[i] =
            IF i <= 1 THEN <<f.system>>[i] ELSE ms[i - 1]
  BY <1>4, <1>5, ConcatProperties
<1>9. \A i \in 1..Len(s) : i + 1 \in 1..1 + Len(s) /\ ~(i + 1 <= 1) /\ (i + 1) - 1 = i
  BY <1>1
<1>10. 1 \in 1..1 + Len(s) /\ 1 + Len(s) = Len(s) + 1
  BY <1>1
<1> QED
  BY <1>5, <1>6, <1>7, <1>8, <1>9, <1>10

LEMMA ContentTyped ==
  ASSUME NEW f \in Facts, Len(f.memories) <= MaxMemories,
         NEW s, Within(s, Len(f.memories))
  PROVE  ContentOf(f, s) \in ContentType
<1> DEFINE ms == [i \in DOMAIN s |-> f.memories[s[i]]]
<1>1. f.memories \in Seq(Texts) /\ Len(f.memories) \in Nat /\ s \in Seq(1..Len(f.memories))
  BY LenProperties DEF Facts, Within
<1>2. Len(s) \in 1..MaxMemories /\ DOMAIN s = 1..Len(s)
  BY <1>1, WithinBounds, BoundsAssumption
<1>3. \A i \in 1..Len(s) : f.memories[s[i]] \in Texts
  <2> TAKE i \in 1..Len(s)
  <2>1. s[i] \in 1..Len(f.memories)
    BY <1>1, ElementOfSeq
  <2> QED
    BY <1>1, <2>1, ElementOfSeq
<1>4. ms \in [1..Len(s) -> Texts]
  BY <1>2, <1>3
<1>5. f.system \in Systems \cup {""} /\ ContentOf(f, s) = <<f.system>> \o ms
  BY DEF Facts, ContentOf
<1> HIDE DEF ms
<1>6. ms \in UNION {[1..n -> Texts] : n \in 1..MaxMemories}
  BY <1>2, <1>4
<1> DEFINE A == Systems \cup {""}
           M == UNION {[1..n -> Texts] : n \in 1..MaxMemories}
<1>7. f.system \in A /\ ms \in M
  BY <1>5, <1>6
<1>8. ContentType = {<<x>> \o y : x \in A, y \in M}
  BY DEF ContentType
<1> HIDE DEF A, M
<1>9. \A x \in A, y \in M : <<x>> \o y \in ContentType
  BY <1>8
<1> QED
  BY <1>5, <1>7, <1>9

(* Facts that only grow leave the content of a segment as it was. *)
LEMMA ContentKept ==
  ASSUME NEW f \in Facts, NEW h \in Facts, f.system = h.system,
         Len(f.memories) <= Len(h.memories),
         \A i \in 1..Len(f.memories) : h.memories[i] = f.memories[i],
         NEW s \in Seq(1..Len(f.memories))
  PROVE  ContentOf(h, s) = ContentOf(f, s)
<1>1. Len(s) \in Nat /\ DOMAIN s = 1..Len(s)
  BY LenProperties
<1>2. \A i \in 1..Len(s) : h.memories[s[i]] = f.memories[s[i]]
  BY ElementOfSeq
<1>3. [i \in DOMAIN s |-> h.memories[s[i]]] = [i \in DOMAIN s |-> f.memories[s[i]]]
  BY <1>1, <1>2
<1> QED
  BY <1>3 DEF ContentOf

LEMMA PrefixByElements ==
  ASSUME NEW S, NEW s \in Seq(S), NEW t \in Seq(S)
  PROVE  ProperPrefix(s, t) <=> /\ Len(s) < Len(t)
                                /\ \A i \in 1..Len(s) : s[i] = t[i]
<1>1. Len(s) \in Nat /\ Len(t) \in Nat
  BY LenProperties
<1>2. CASE Len(s) < Len(t)
  <2>1. \A i \in 1..Len(s) : t[i] \in S
    BY <1>1, <1>2, ElementOfSeq
  <2>2. /\ SubSeq(t, 1, Len(s)) \in Seq(S)
        /\ Len(SubSeq(t, 1, Len(s))) = IF 1 <= Len(s) THEN Len(s) - 1 + 1 ELSE 0
        /\ \A i \in 1..Len(s) - 1 + 1 : SubSeq(t, 1, Len(s))[i] = t[1 + i - 1]
    BY <1>1, <2>1, SubSeqProperties
  <2>3. Len(SubSeq(t, 1, Len(s))) = Len(s)
    BY <1>1, <2>2
  <2>4. \A i \in 1..Len(s) : i \in 1..Len(s) - 1 + 1 /\ 1 + i - 1 = i
    BY <1>1
  <2>5. \A i \in 1..Len(s) : SubSeq(t, 1, Len(s))[i] = t[i]
    BY <2>2, <2>4
  <2>6. s = SubSeq(t, 1, Len(s)) <=> \A i \in 1..Len(s) : s[i] = t[i]
    <3>1. ASSUME \A i \in 1..Len(s) : s[i] = t[i] PROVE s = SubSeq(t, 1, Len(s))
      BY <2>2, <2>3, <2>5, <3>1, SeqEqual
    <3> QED
      BY <2>5, <3>1
  <2> QED
    BY <1>1, <1>2, <2>6 DEF ProperPrefix, IsPrefixOf
<1> QED
  BY <1>2 DEF ProperPrefix

LEMMA PrefixTransitive ==
  ASSUME NEW S, NEW s \in Seq(S), NEW t \in Seq(S), NEW u \in Seq(S),
         ProperPrefix(s, t), ProperPrefix(t, u)
  PROVE  ProperPrefix(s, u)
<1>1. Len(s) \in Nat /\ Len(t) \in Nat /\ Len(u) \in Nat
  BY LenProperties
<1>2. /\ Len(s) < Len(t) /\ \A i \in 1..Len(s) : s[i] = t[i]
      /\ Len(t) < Len(u) /\ \A i \in 1..Len(t) : t[i] = u[i]
  BY PrefixByElements
<1>3. Len(s) < Len(u) /\ \A i \in 1..Len(s) : s[i] = u[i]
  BY <1>1, <1>2
<1> QED
  BY <1>3, PrefixByElements

(* The content of a segment is a proper prefix of what it is when a memory *)
(* was appended.                                                           *)
LEMMA ContentGrows ==
  ASSUME NEW f \in Facts, NEW h \in Facts, f.system = h.system,
         Len(f.memories) < Len(h.memories),
         \A i \in 1..Len(f.memories) : h.memories[i] = f.memories[i],
         NEW s \in Seq(1..Len(f.memories)), NEW m \in 1..Len(h.memories)
  PROVE  ProperPrefix(ContentOf(f, s), ContentOf(h, Append(s, m)))
<1>0. Len(f.memories) \in Nat /\ Len(h.memories) \in Nat
  BY LenProperties DEF Facts
<1>1. s \in Seq(1..Len(h.memories)) /\ Len(s) \in Nat
  <2>1. 1..Len(f.memories) \subseteq 1..Len(h.memories)
    BY <1>0
  <2> QED
    BY <2>1, SeqMonotonic, LenProperties
<1>2. /\ Append(s, m) \in Seq(1..Len(h.memories))
      /\ Len(Append(s, m)) = Len(s) + 1
      /\ \A i \in 1..Len(s) : Append(s, m)[i] = s[i]
  BY <1>1, AppendProperties
<1> DEFINE a == ContentOf(f, s)
           b == ContentOf(h, Append(s, m))
<1>3. /\ a \in Seq(Words) /\ Len(a) = Len(s) + 1 /\ a[1] = f.system
      /\ \A i \in 1..Len(s) : a[i + 1] = f.memories[s[i]]
  BY ContentByWords
<1>4. /\ b \in Seq(Words) /\ Len(b) = Len(s) + 2 /\ b[1] = h.system
      /\ \A i \in 1..Len(s) + 1 : b[i + 1] = h.memories[Append(s, m)[i]]
  <2>1. /\ b \in Seq(Words) /\ Len(b) = Len(Append(s, m)) + 1 /\ b[1] = h.system
        /\ \A i \in 1..Len(Append(s, m)) : b[i + 1] = h.memories[Append(s, m)[i]]
    BY <1>2, ContentByWords
  <2> HIDE DEF b
  <2>2. Len(Append(s, m)) + 1 = Len(s) + 2
    BY <1>1, <1>2
  <2> QED
    BY <1>2, <2>1, <2>2
<1> HIDE DEF a, b
<1>5. \A i \in 1..Len(s) : a[i + 1] = b[i + 1]
  <2> TAKE i \in 1..Len(s)
  <2>1. s[i] \in 1..Len(f.memories) /\ Append(s, m)[i] = s[i] /\ i \in 1..Len(s) + 1
    BY <1>1, <1>2, ElementOfSeq, SMTT(20)
  <2> QED
    BY <1>3, <1>4, <2>1
<1>6. \A i \in 1..Len(a) : a[i] = b[i]
  <2> TAKE i \in 1..Len(a)
  <2>1. CASE i = 1
    BY <1>3, <1>4, <2>1
  <2>2. CASE i # 1
    <3>1. i - 1 \in 1..Len(s) /\ (i - 1) + 1 = i
      BY <1>1, <1>3, <2>2
    <3> QED
      BY <1>5, <3>1
  <2> QED
    BY <2>1, <2>2
<1>7. Len(a) < Len(b)
  BY <1>1, <1>3, <1>4
<1>8. ProperPrefix(a, b)
  BY <1>3, <1>4, <1>6, <1>7, PrefixByElements
<1> QED
  BY <1>8 DEF a, b

-----------------------------------------------------------------------------
(* Induction on the natural numbers, as the least element of a set: the    *)
(* subsets T \cap 0..m are finite, and proper inclusion of finite sets is  *)
(* well founded.                                                           *)
LEMMA LeastNatural ==
  ASSUME NEW T \in SUBSET Nat, T # {}
  PROVE  \E m \in T : \A y \in T : m <= y
<1> DEFINE Below(m) == T \cap (0..m)
           F == {Below(m) : m \in T}
<1>1. IsWellFoundedOn(StrictSubsetOrdering(Nat), FiniteSubsetsOf(Nat))
  BY FS_StrictSubsetOrderingWellFounded
<1>2. \A m \in T : Below(m) \in SUBSET Nat /\ IsFiniteSet(Below(m))
  <2> TAKE m \in T
  <2>1. IsFiniteSet(0..m)
    BY FS_Interval
  <2>2. Below(m) \in SUBSET (0..m)
    OBVIOUS
  <2> QED
    BY <2>1, <2>2, FS_Subset
<1>3. F \subseteq FiniteSubsetsOf(Nat) /\ F # {}
  BY <1>2 DEF FiniteSubsetsOf
<1>4. PICK U \in F : \A V \in F : <<V, U>> \notin StrictSubsetOrdering(Nat)
  <2> HIDE DEF F
  <2> QED
    BY <1>1, <1>3, WFMin
<1>5. PICK m \in T : U = Below(m)
  OBVIOUS
<1>6. ASSUME NEW y \in T, y < m PROVE FALSE
  <2>1. Below(y) \in F /\ Below(y) \subseteq Below(m) /\ m \in Below(m) /\ m \notin Below(y)
    BY <1>6
  <2>2. <<Below(y), Below(m)>> \in StrictSubsetOrdering(Nat)
    <3>1. Below(y) \in SUBSET Nat /\ Below(m) \in SUBSET Nat /\ Below(y) # Below(m)
      BY <1>2, <2>1
    <3> HIDE DEF Below
    <3> QED
      BY <2>1, <3>1 DEF StrictSubsetOrdering
  <2> QED
    BY <1>4, <1>5, <2>1, <2>2
<1> QED
  BY <1>6

-----------------------------------------------------------------------------
(* rebuild_segment_plan_fast: cutting 1..n at the elements of S.           *)
Below(S, m) == {j \in S : j < m}
Count(S, m) == Cardinality(Below(S, m))
Ith(S, i) == CHOOSE m \in S : Count(S, m) = i - 1
EndFrom(n, S, m) == CHOOSE e \in m..n : /\ e = n \/ (e + 1) \in S
                                        /\ (m + 1)..e \cap S = {}
Cut(n, S) == [i \in 1..Cardinality(S) |-> Run(Ith(S, i), EndFrom(n, S, Ith(S, i)))]

LEMMA RunProperties ==
  ASSUME NEW n \in Nat, NEW a \in 1..n, NEW b \in a..n
  PROVE  /\ Run(a, b) \in Seq(1..n)
         /\ Len(Run(a, b)) = b - a + 1
         /\ Run(a, b)[1] = a
         /\ LastOf(Run(a, b)) = b
         /\ \A i \in 1..b - a + 1 : Run(a, b)[i] = a + i - 1
         /\ Within(Run(a, b), n)
<1> DEFINE r == Run(a, b)
<1>1. r = [i \in 1..(b - a + 1) |-> a + i - 1] /\ b - a + 1 \in Nat \ {0}
  BY DEF Run
<1>2. \A i \in 1..(b - a + 1) : a + i - 1 \in 1..n
  OBVIOUS
<1>3. r \in [1..(b - a + 1) -> 1..n]
  BY <1>1, <1>2
<1>4. r \in Seq(1..n) /\ Len(r) = b - a + 1 /\ DOMAIN r = 1..(b - a + 1)
  BY <1>1, <1>3, SeqDef
<1>5. \A i \in 1..b - a + 1 : r[i] = a + i - 1 /\ i <= r[i]
  BY <1>1
<1>6. r[1] = a /\ r[b - a + 1] = b
  BY <1>1, <1>5
<1>7. r # <<>>
  BY <1>1, <1>4, EmptySeq
<1> HIDE DEF r
<1>8. LastOf(r) = b
  BY <1>4, <1>6 DEF LastOf
<1>9. Within(r, n)
  BY <1>4, <1>5, <1>7 DEF Within
<1> QED
  BY <1>4, <1>5, <1>6, <1>8, <1>9 DEF r

LEMMA FiniteBelow ==
  ASSUME NEW n \in Nat, NEW S \in SUBSET (1..n)
  PROVE  /\ S \in SUBSET Nat /\ IsFiniteSet(S) /\ Cardinality(S) \in Nat
         /\ \A m : IsFiniteSet(Below(S, m)) /\ Count(S, m) \in Nat
<1>1. IsFiniteSet(1..n)
  BY FS_Interval
<1>2. \A T \in SUBSET (1..n) : IsFiniteSet(T) /\ Cardinality(T) \in Nat
  BY <1>1, FS_Subset, FS_CardinalityType
<1>3. \A m : Below(S, m) \in SUBSET (1..n)
  BY DEF Below
<1>4. S \in SUBSET Nat
  OBVIOUS
<1> QED
  BY <1>2, <1>3, <1>4 DEF Count

(* The next element of S above m is counted after m. *)
LEMMA CountNext ==
  ASSUME NEW n \in Nat, NEW S \in SUBSET (1..n), NEW m \in S, NEW k \in Nat, m < k,
         \A j \in S : ~(m < j /\ j < k)
  PROVE  Count(S, k) = Count(S, m) + 1
<1>0. m \in Nat /\ \A j \in S : j \in Nat /\ (j < k <=> j < m \/ j = m)
  OBVIOUS
<1>1. Below(S, k) = Below(S, m) \cup {m}
  BY <1>0 DEF Below
<1>2. m \notin Below(S, m)
  BY <1>0 DEF Below
<1>3. IsFiniteSet(Below(S, m))
  BY FiniteBelow
<1>4. Cardinality(Below(S, m) \cup {m}) = Cardinality(Below(S, m)) + 1
  BY <1>2, <1>3, FS_AddElement
<1> QED
  BY <1>1, <1>4 DEF Count

LEMMA CountMonotone ==
  ASSUME NEW n \in Nat, NEW S \in SUBSET (1..n), NEW m \in S, NEW k \in Nat, m < k
  PROVE  Count(S, m) < Count(S, k)
<1>0. m \in Nat /\ \A j \in S : j \in Nat /\ (j < m => j < k)
  OBVIOUS
<1>1. Below(S, m) \cup {m} \in SUBSET Below(S, k)
  BY <1>0 DEF Below
<1>2. m \notin Below(S, m)
  BY <1>0 DEF Below
<1>3. /\ IsFiniteSet(Below(S, m)) /\ IsFiniteSet(Below(S, k))
      /\ Count(S, m) \in Nat /\ Count(S, k) \in Nat
  BY FiniteBelow
<1>4. Cardinality(Below(S, m) \cup {m}) = Cardinality(Below(S, m)) + 1
  BY <1>2, <1>3, FS_AddElement
<1>5. Cardinality(Below(S, m) \cup {m}) <= Cardinality(Below(S, k))
  BY <1>1, <1>3, FS_Subset
<1> QED
  BY <1>3, <1>4, <1>5 DEF Count

LEMMA CountInjective ==
  ASSUME NEW n \in Nat, NEW S \in SUBSET (1..n), NEW m \in S, NEW k \in S,
         Count(S, m) = Count(S, k)
  PROVE  m = k
<1>1. m \in Nat /\ k \in Nat
  OBVIOUS
<1>2. Count(S, m) \in Nat /\ Count(S, k) \in Nat
  BY FiniteBelow
<1>3. m < k => Count(S, m) < Count(S, k)
  BY <1>1, CountMonotone
<1>4. k < m => Count(S, k) < Count(S, m)
  BY <1>1, CountMonotone
<1> QED
  BY <1>1, <1>2, <1>3, <1>4

(* The i-th element exists: the first has none below it, and the one after *)
(* the i-th is the least above it.                                         *)
LEMMA FirstExists ==
  ASSUME NEW n \in Nat, NEW S \in SUBSET (1..n), S # {}
  PROVE  \E m \in S : Count(S, m) = 0
<1>1. S \in SUBSET Nat
  OBVIOUS
<1>2. PICK m \in S : \A y \in S : m <= y
  BY <1>1, LeastNatural
<1>3. m \in Nat /\ \A j \in S : j \in Nat /\ ~(j < m)
  BY <1>1, <1>2
<1>4. Below(S, m) = {}
  BY <1>3 DEF Below
<1> QED
  BY <1>4, FS_EmptySet DEF Count

LEMMA LaterExists ==
  ASSUME NEW n \in Nat, NEW S \in SUBSET (1..n), NEW m \in S,
         Count(S, m) + 1 < Cardinality(S)
  PROVE  \E a \in S : Count(S, a) = Count(S, m) + 1
<1> DEFINE Above == {j \in S : m < j}
<1>0. m \in 1..n /\ S \in SUBSET Nat
  OBVIOUS
<1>1. Above # {}
  <2> SUFFICES ASSUME Above = {} PROVE FALSE
    OBVIOUS
  <2>1. \A j \in S : j \in 1..n /\ ~(m < j) /\ j < n + 1
    OBVIOUS
  <2>2. S = Below(S, n + 1)
    BY <2>1 DEF Below
  <2>3. n + 1 \in Nat /\ m < n + 1
    BY <1>0
  <2>4. Count(S, n + 1) = Count(S, m) + 1
    BY <2>1, <2>3, CountNext
  <2>5. Cardinality(S) = Count(S, n + 1)
    BY <2>2 DEF Count
  <2>6. Count(S, m) \in Nat
    BY FiniteBelow
  <2> QED
    BY <2>4, <2>5, <2>6
<1>2. Above \in SUBSET Nat
  BY <1>0
<1>3. PICK a \in Above : \A y \in Above : a <= y
  BY <1>1, <1>2, LeastNatural
<1>4. a \in S /\ a \in Nat /\ m < a
  BY <1>2, <1>3
<1>5. \A j \in S : ~(m < j /\ j < a)
  BY <1>0, <1>3, <1>4
<1>6. Count(S, a) = Count(S, m) + 1
  BY <1>4, <1>5, CountNext
<1> QED
  BY <1>4, <1>6

LEMMA IthExists ==
  ASSUME NEW n \in Nat, NEW S \in SUBSET (1..n), NEW i \in 1..Cardinality(S)
  PROVE  Ith(S, i) \in S /\ Count(S, Ith(S, i)) = i - 1
<1>0. IsFiniteSet(S) /\ Cardinality(S) \in Nat
  BY FiniteBelow
<1> DEFINE Missing == {k \in 1..Cardinality(S) : ~\E m \in S : Count(S, m) = k - 1}
<1>1. Missing = {}
  <2> SUFFICES ASSUME Missing # {} PROVE FALSE
    OBVIOUS
  <2>0. Missing \in SUBSET Nat
    BY <1>0
  <2>1. PICK k \in Missing : \A y \in Missing : k <= y
    BY <2>0, LeastNatural
  <2>2. k \in 1..Cardinality(S) /\ ~\E m \in S : Count(S, m) = k - 1
    BY <2>1
  <2>3. CASE k = 1
    <3>1. S # {}
      BY <1>0, <2>2, FS_EmptySet
    <3>2. PICK m \in S : Count(S, m) = 0
      BY <3>1, FirstExists
    <3>3. k - 1 = 0
      BY <2>3
    <3> QED
      BY <2>2, <3>2, <3>3
  <2>4. CASE k # 1
    <3>1. k - 1 \in 1..Cardinality(S) /\ k - 1 < k /\ k - 1 \in Nat
      BY <1>0, <2>2, <2>4
    <3>2. k - 1 \notin Missing
      <4>1. \A y \in Missing : y \in Nat /\ k <= y
        BY <2>0, <2>1
      <4> HIDE DEF Missing
      <4> QED
        BY <2>2, <3>1, <4>1
    <3>3. PICK m \in S : Count(S, m) = (k - 1) - 1
      BY <3>1, <3>2
    <3>4. Count(S, m) + 1 = k - 1 /\ Count(S, m) + 1 < Cardinality(S)
      BY <1>0, <2>2, <3>3
    <3> QED
      BY <2>2, <3>4, LaterExists
  <2> QED
    BY <2>3, <2>4
<1>2. \E m \in S : Count(S, m) = i - 1
  BY <1>1
<1> QED
  BY <1>2 DEF Ith

LEMMA EndExists ==
  ASSUME NEW n \in Nat, NEW S \in SUBSET (1..n), NEW m \in 1..n
  PROVE  /\ EndFrom(n, S, m) \in m..n
         /\ EndFrom(n, S, m) = n \/ EndFrom(n, S, m) + 1 \in S
         /\ (m + 1)..EndFrom(n, S, m) \cap S = {}
<1> DEFINE T == {e \in m..n : e = n \/ (e + 1) \in S}
<1>1. T \in SUBSET Nat /\ n \in T
  OBVIOUS
<1>2. PICK e \in T : \A y \in T : e <= y
  BY <1>1, LeastNatural
<1>3. (m + 1)..e \cap S = {}
  <2> SUFFICES ASSUME NEW j \in (m + 1)..e, j \in S PROVE FALSE
    OBVIOUS
  <2>1. j - 1 \in m..n /\ (j - 1) + 1 \in S
    OBVIOUS
  <2> QED
    BY <1>2, <2>1
<1>4. \E x \in m..n : (x = n \/ (x + 1) \in S) /\ (m + 1)..x \cap S = {}
  BY <1>2, <1>3
<1> QED
  BY <1>4 DEF EndFrom

(* A cut at a set that holds 1 is a plan of 1..n: every segment ends where *)
(* the next begins, and the last one at n.                                 *)
LEMMA CutCovers ==
  ASSUME NEW n \in Nat, NEW S \in SUBSET (1..n), n > 0 => 1 \in S
  PROVE  /\ Cut(n, S) \in Seq(Seq(1..n))
         /\ Len(Cut(n, S)) = Cardinality(S)
         /\ \A g \in 1..Cardinality(S) : Within(Cut(n, S)[g], n)
         /\ Covers(Cut(n, S), n)
<1> DEFINE p == Cut(n, S)
           N == Cardinality(S)
           first(g) == Ith(S, g)
           last(g) == EndFrom(n, S, first(g))
<1>0. N \in Nat /\ IsFiniteSet(S)
  BY FiniteBelow
<1>1. \A g \in 1..N : first(g) \in S /\ Count(S, first(g)) = g - 1
  BY IthExists
<1>2. \A g \in 1..N : first(g) \in 1..n
  BY <1>1
<1>3. \A g \in 1..N : /\ last(g) \in first(g)..n
                      /\ last(g) = n \/ last(g) + 1 \in S
                      /\ (first(g) + 1)..last(g) \cap S = {}
  BY <1>2, EndExists
<1>4. p = [g \in 1..N |-> Run(first(g), last(g))]
  BY DEF Cut
<1> HIDE DEF p, N, first, last
<1>5. \A g \in 1..N : /\ Run(first(g), last(g)) \in Seq(1..n)
                      /\ Run(first(g), last(g))[1] = first(g)
                      /\ LastOf(Run(first(g), last(g))) = last(g)
                      /\ Within(Run(first(g), last(g)), n)
  <2> TAKE g \in 1..N
  <2>1. first(g) \in 1..n /\ last(g) \in first(g)..n
    BY <1>2, <1>3
  <2> QED
    BY <2>1, RunProperties
<1>6. /\ p \in [1..N -> Seq(1..n)]
      /\ \A g \in 1..N : /\ p[g] = Run(first(g), last(g))
                         /\ p[g][1] = first(g) /\ LastOf(p[g]) = last(g)
                         /\ Within(p[g], n)
  BY <1>4, <1>5
<1>7. p \in Seq(Seq(1..n)) /\ Len(p) = N /\ DOMAIN p = 1..N
  BY <1>0, <1>6, SeqDef
<1>8. ASSUME NEW g \in 1..N, last(g) + 1 \in S
      PROVE  Count(S, last(g) + 1) = g
  <2>1. first(g) \in S /\ first(g) \in Nat /\ last(g) \in Nat /\ first(g) < last(g) + 1
    BY <1>1, <1>2, <1>3
  <2>2. \A j \in S : ~(first(g) < j /\ j < last(g) + 1)
    <3>1. \A j \in S : j \in Nat
      BY FiniteBelow
    <3>2. \A j \in Nat : first(g) < j /\ j < last(g) + 1 => j \in (first(g) + 1)..last(g)
      BY <2>1
    <3> QED
      BY <1>3, <3>1, <3>2
  <2>3. last(g) + 1 \in Nat
    BY <2>1
  <2>4. Count(S, last(g) + 1) = Count(S, first(g)) + 1
    BY <2>1, <2>2, <2>3, CountNext
  <2>5. Count(S, first(g)) = g - 1
    BY <1>1
  <2> QED
    BY <1>0, <2>4, <2>5
<1>9. ASSUME NEW g \in 1..N, g # 1
      PROVE  first(g) = last(g - 1) + 1
  <2>1. g - 1 \in 1..N
    BY <1>0, <1>9
  <2>2. first(g) \in S /\ first(g - 1) \in S /\ first(g) \in Nat /\ first(g - 1) \in Nat
    BY <1>1, <1>2, <2>1
  <2>3. Count(S, first(g)) = g - 1 /\ Count(S, first(g - 1)) = g - 2
    BY <1>1, <2>1
  <2>4. first(g - 1) < first(g)
    <3>1. first(g) # first(g - 1)
      BY <1>0, <2>3
    <3>2. ~(first(g) < first(g - 1))
      <4>1. first(g) < first(g - 1) => Count(S, first(g)) < Count(S, first(g - 1))
        BY <2>2, CountMonotone
      <4> QED
        BY <1>0, <2>3, <4>1
    <3> QED
      BY <2>2, <3>1, <3>2
  <2>5. last(g - 1) # n
    <3>1. last(g - 1) = n => first(g) \in (first(g - 1) + 1)..last(g - 1)
      BY <1>2, <2>2, <2>4
    <3> QED
      BY <1>3, <2>1, <2>2, <3>1
  <2>6. last(g - 1) + 1 \in S
    BY <1>3, <2>1, <2>5
  <2>7. Count(S, last(g - 1) + 1) = g - 1
    BY <1>8, <2>1, <2>6
  <2> QED
    BY <2>2, <2>3, <2>6, <2>7, CountInjective
<1>10. ASSUME N # 0 PROVE first(1) = 1
  <2>1. S # {} /\ 1 \in 1..N
    BY <1>0, <1>10, FS_EmptySet DEF N
  <2>2. 1 \in S
    <3>1. n > 0
      <4>1. PICK j \in S : TRUE
        BY <2>1
      <4>2. j \in 1..n
        OBVIOUS
      <4> QED
        BY <4>2
    <3> QED
      BY <3>1
  <2>3. Below(S, 1) = {}
    <3>1. \A j \in S : ~(j < 1)
      OBVIOUS
    <3> QED
      BY <3>1 DEF Below
  <2>4. Count(S, 1) = 0
    BY <2>3, FS_EmptySet DEF Count
  <2>5. first(1) \in S /\ Count(S, first(1)) = 0
    <3>1. 1 - 1 = 0
      OBVIOUS
    <3> QED
      BY <1>1, <2>1, <3>1
  <2> QED
    BY <2>2, <2>4, <2>5, CountInjective
<1>11. ASSUME N # 0 PROVE last(N) = n
  <2>1. N \in 1..N
    BY <1>0, <1>11
  <2> SUFFICES ASSUME last(N) # n PROVE FALSE
    OBVIOUS
  <2>2. last(N) + 1 \in S
    BY <1>3, <2>1
  <2>3. Count(S, last(N) + 1) = N
    BY <1>8, <2>1, <2>2
  <2>4. \A j \in S : j \in Nat /\ j < n + 1
    OBVIOUS
  <2>5. S = Below(S, n + 1)
    BY <2>4 DEF Below
  <2>6. Count(S, n + 1) = N
    BY <2>5 DEF Count, N
  <2>7. Count(S, last(N) + 1) < Count(S, n + 1)
    <3>1. n + 1 \in Nat
      OBVIOUS
    <3>2. last(N) + 1 < n + 1
      BY <2>2, <2>4, Zenon
    <3> QED
      BY <2>2, <3>1, <3>2, CountMonotone
  <2> QED
    BY <1>0, <2>3, <2>6, <2>7
<1>12. p = <<>> <=> N = 0
  BY <1>0, <1>7, EmptySeq
<1>13. N = 0 => n = 0
  <2>1. N = 0 => S = {}
    BY <1>0, FS_EmptySet DEF N
  <2> QED
    BY <2>1
<1>14. \A g \in DOMAIN p : /\ p[g] = Run(p[g][1], LastOf(p[g]))
                           /\ p[g][1] = IF g = 1 THEN 1 ELSE LastOf(p[g - 1]) + 1
  <2> TAKE g \in DOMAIN p
  <2>1. g \in 1..N /\ N # 0 /\ p[g] = Run(p[g][1], LastOf(p[g])) /\ p[g][1] = first(g)
    BY <1>0, <1>6, <1>7
  <2>2. g # 1 => g - 1 \in 1..N
    BY <1>0, <2>1
  <2>3. g # 1 => LastOf(p[g - 1]) = last(g - 1)
    BY <1>6, <2>2
  <2> QED
    BY <1>9, <1>10, <2>1, <2>3
<1>15. p # <<>> => LastOf(LastOf(p)) = n
  <2> HAVE p # <<>>
  <2>1. N # 0 /\ N \in 1..N
    BY <1>0, <1>12
  <2>2. LastOf(p) = p[N]
    BY <1>7 DEF LastOf
  <2>3. LastOf(p[N]) = last(N)
    BY <1>6, <2>1
  <2> QED
    BY <1>11, <2>1, <2>2, <2>3
<1>16. Covers(p, n)
  BY <1>12, <1>13, <1>14, <1>15 DEF Covers
<1> QED
  BY <1>6, <1>7, <1>16 DEF p, N

(* What every plan of the first n memories has. *)
PlanOf(p, n) ==
    /\ p \in Seq(Seq(1..n)) /\ Len(p) <= MaxSegments
    /\ \A g \in 1..Len(p) : Within(p[g], n)

LEMMA RebuiltPlan ==
  ASSUME NEW f, f.memories \in Seq(Texts), NEW p \in Partitions(f)
  PROVE  PlanOf(p, Len(f.memories)) /\ Covers(p, Len(f.memories))
<1> DEFINE n == Len(f.memories)
           forced == {m \in 1..n : StartsSegment(f, m)}
<1>1. n \in Nat
  BY LenProperties
<1>2. PICK S \in SUBSET (1..n) : forced \subseteq S /\ Cardinality(S) <= MaxSegments /\ p = Cut(n, S)
  BY DEF Partitions, Cut, Ith, EndFrom, Count, Below
<1>3. n > 0 => 1 \in S
  BY <1>1, <1>2 DEF StartsSegment
<1> HIDE DEF n
<1> QED
  BY <1>1, <1>2, <1>3, CutCovers DEF PlanOf, n

-----------------------------------------------------------------------------
(* The KV state.  Most operations only take from it: a handle or the       *)
(* active slot may go, a context may be given up for a snapshot, but what  *)
(* stays is as it was.                                                     *)
HandleMaps == [Segs -> Handles \cup {None}]

Less(a, b) ==
    b # None => /\ a # None /\ b.content = a.content
                /\ a.snap => b.snap
                /\ b.live => a.live

Fewer(k, j) ==
    /\ j \in KVStates
    /\ \A g \in Segs : Less(k.resident[g], j.resident[g]) /\ Less(k.prefix[g], j.prefix[g])
    /\ j.active # None => j.active = k.active

(* No context but that of segment g is alive. *)
Apart(k, g) ==
    /\ \A h \in Segs : ~IsLive(k.prefix[h])
    /\ \A h \in Segs : IsLive(k.resident[h]) => h = g

(* What OneLiveContext says of the state k. *)
OneLive(k) ==
    /\ \A g \in Segs : ~IsLive(k.prefix[g])
    /\ \A g \in Segs : IsLive(k.resident[g]) =>
          k.active # None /\ k.active.seg = g /\ ~k.active.own

(* Every cache holds what its segment holds, or can be extended to it.     *)
Current(k) ==
    /\ \A g \in Segs : k.resident[g] # None =>
          /\ plan # None /\ g \in DOMAIN plan
          /\ k.resident[g].content = Content(g)
          /\ ~UseNative => k.resident[g].snap
    /\ \A g \in Segs : k.prefix[g] # None =>
          /\ plan # None /\ g \in DOMAIN plan
          /\ ProperPrefix(k.prefix[g].content, Content(g))
          /\ ~UseNative => k.prefix[g].snap
    /\ k.active # None =>
          /\ plan # None /\ k.active.seg \in DOMAIN plan
          /\ k.active.content = Content(k.active.seg)

Sound(k) == k \in KVStates /\ Current(k) /\ OneLive(k)

LEMMA NoneIsNoHandle == None \notin Handles /\ None \notin Slots /\ None \notin ContentType
BY NoneAssumption

LEMMA StateFields ==
  ASSUME NEW k \in KVStates
  PROVE  /\ k.resident \in HandleMaps /\ k.prefix \in HandleMaps
         /\ k.active \in Slots \cup {None}
         /\ \A g \in Segs : /\ k.resident[g] \in Handles \cup {None}
                            /\ k.prefix[g] \in Handles \cup {None}
         /\ k.active # None => k.active.seg \in Segs
BY DEF KVStates, HandleMaps, Slots

LEMMA FewerTransitive ==
  ASSUME NEW k, NEW j, NEW i, Fewer(k, j), Fewer(j, i)
  PROVE  Fewer(k, i)
BY DEF Fewer, Less

LEMMA FewerReflexive ==
  ASSUME NEW k \in KVStates
  PROVE  Fewer(k, k)
BY DEF Fewer, Less

LEMMA FewerCurrent ==
  ASSUME NEW k \in KVStates, NEW j, Fewer(k, j), Current(k)
  PROVE  Current(j)
<1>1. /\ \A g \in Segs : Less(k.resident[g], j.resident[g]) /\ Less(k.prefix[g], j.prefix[g])
      /\ j.active # None => j.active = k.active
  BY DEF Fewer
<1>2. ASSUME NEW g \in Segs, j.resident[g] # None
      PROVE  /\ plan # None /\ g \in DOMAIN plan
             /\ j.resident[g].content = Content(g)
             /\ ~UseNative => j.resident[g].snap
  BY <1>1, <1>2 DEF Current, Less
<1>3. ASSUME NEW g \in Segs, j.prefix[g] # None
      PROVE  /\ plan # None /\ g \in DOMAIN plan
             /\ ProperPrefix(j.prefix[g].content, Content(g))
             /\ ~UseNative => j.prefix[g].snap
  BY <1>1, <1>3 DEF Current, Less
<1>4. j.active # None =>
          /\ plan # None /\ j.active.seg \in DOMAIN plan
          /\ j.active.content = Content(j.active.seg)
  BY <1>1 DEF Current
<1> QED
  BY <1>2, <1>3, <1>4 DEF Current

LEMMA FewerLive ==
  ASSUME NEW k \in KVStates, NEW j, Fewer(k, j), NEW g
  PROVE  /\ Apart(k, g) => Apart(j, g)
         /\ OneLive(k) /\ j.active = k.active => OneLive(j)
<1>1. \A h \in Segs : /\ IsLive(j.resident[h]) => IsLive(k.resident[h])
                      /\ IsLive(j.prefix[h]) => IsLive(k.prefix[h])
  BY DEF Fewer, Less, IsLive
<1> QED
  BY <1>1 DEF Apart, OneLive

LEMMA DeactivatedFewer ==
  ASSUME NEW k \in KVStates
  PROVE  /\ Fewer(k, Deactivated(k))
         /\ Deactivated(k).active = None
         /\ Deactivated(k).meta = k.meta /\ Deactivated(k).prefix = k.prefix
         /\ \A g \in Segs : k.active = None \/ k.active.seg # g =>
               Deactivated(k).resident[g] = k.resident[g]
         /\ \A g \in Segs : k.resident[g] # None => Deactivated(k).resident[g] # None
         /\ OneLive(k) => Apart(Deactivated(k), 0)
<1> DEFINE d == Deactivated(k)
<1>1. CASE k.active = None
  <2>1. d = k
    BY <1>1 DEF Deactivated
  <2>2. OneLive(k) => Apart(k, 0)
    BY <1>1 DEF OneLive, Apart
  <2> QED
    BY <1>1, <2>1, <2>2, FewerReflexive
<1>2. CASE k.active # None
  <2> DEFINE g == k.active.seg
             new == IF k.active.own \/ k.resident[g] = None THEN k.resident[g]
                    ELSE [k.resident[g] EXCEPT !.live = FALSE]
  <2>1. g \in Segs /\ k.resident[g] \in Handles \cup {None} /\ k.resident \in HandleMaps
    BY <1>2, StateFields
  <2>2. new \in Handles \cup {None}
    BY <2>1 DEF Handles
  <2>3. Less(k.resident[g], new) /\ (k.resident[g] # None => new # None)
    BY <2>1, <2>2, NoneIsNoHandle DEF Handles, Less
  <2>4. ~k.active.own => ~IsLive(new)
    BY <2>1 DEF IsLive, Handles
  <2>5. d = [k EXCEPT !.active = None, !.resident = [k.resident EXCEPT ![g] = new]]
    BY <1>2 DEF Deactivated
  <2> HIDE DEF g, new
  <2>6. /\ d.active = None /\ d.meta = k.meta /\ d.prefix = k.prefix
        /\ d.resident = [k.resident EXCEPT ![g] = new]
        /\ d \in KVStates
    <3> DEFINE r == [k.resident EXCEPT ![g] = new]
    <3>1. r \in HandleMaps
      BY <2>1, <2>2 DEF HandleMaps
    <3>2. d = [k EXCEPT !.active = None, !.resident = r]
      BY <2>5
    <3> HIDE DEF r, d
    <3>3. /\ d.active = None /\ d.meta = k.meta /\ d.prefix = k.prefix /\ d.resident = r
          /\ d \in KVStates
      BY <3>1, <3>2 DEF KVStates, HandleMaps
    <3> QED
      BY <3>3 DEF r
  <2>7. \A h \in Segs : d.resident[h] = IF h = g THEN new ELSE k.resident[h]
    BY <2>1, <2>6 DEF HandleMaps
  <2>8. \A h \in Segs : Less(k.resident[h], d.resident[h]) /\ Less(k.prefix[h], d.prefix[h])
    BY <2>3, <2>6, <2>7 DEF Less
  <2>9. Fewer(k, d)
    BY <2>6, <2>8 DEF Fewer
  <2>10. ASSUME OneLive(k) PROVE Apart(d, 0)
    <3>1. \A h \in Segs : ~IsLive(d.resident[h])
      <4> TAKE h \in Segs
      <4>1. CASE h = g /\ ~k.active.own
        BY <2>4, <2>7, <4>1
      <4>2. CASE h = g /\ k.active.own
        <5>1. d.resident[h] = k.resident[h]
          BY <2>7, <4>2 DEF new
        <5> QED
          BY <2>10, <4>2, <5>1 DEF OneLive
      <4>3. CASE h # g
        BY <2>7, <2>10, <4>3 DEF OneLive, g
      <4> QED
        BY <4>1, <4>2, <4>3
    <3> QED
      BY <2>6, <2>10, <3>1 DEF Apart, OneLive
  <2> HIDE DEF d
  <2>11. \A h \in Segs : (k.active = None \/ k.active.seg # h) => d.resident[h] = k.resident[h]
    BY <1>2, <2>7 DEF g
  <2>12. \A h \in Segs : k.resident[h] # None => d.resident[h] # None
    BY <2>3, <2>7
  <2> QED
    BY <2>6, <2>9, <2>10, <2>11, <2>12 DEF d
<1> QED
  BY <1>1, <1>2

LEMMA SnapshottedLess ==
  ASSUME NEW hs \in HandleMaps, NEW g
  PROVE  /\ Snapshotted(hs, g) \in HandleMaps
         /\ \A h \in Segs : Less(hs[h], Snapshotted(hs, g)[h])
         /\ \A h \in Segs : IsLive(Snapshotted(hs, g)[h]) => h = g
         /\ \A h \in Segs : h = g => Snapshotted(hs, g)[h] = hs[h]
         /\ \A h \in Segs : hs[h] # None => Snapshotted(hs, g)[h] # None
<1> DEFINE new(h) == IF h # g /\ IsLive(hs[h]) THEN [hs[h] EXCEPT !.snap = TRUE, !.live = FALSE]
                     ELSE hs[h]
<1>1. Snapshotted(hs, g) = [h \in Segs |-> new(h)]
  BY DEF Snapshotted, LiveBut
<1>2. \A h \in Segs : /\ new(h) \in Handles \cup {None}
                      /\ Less(hs[h], new(h))
                      /\ IsLive(new(h)) => h = g
                      /\ h = g => new(h) = hs[h]
                      /\ hs[h] # None => new(h) # None
  <2> TAKE h \in Segs
  <2>1. hs[h] \in Handles \cup {None}
    BY DEF HandleMaps
  <2>2. CASE h # g /\ IsLive(hs[h])
    <3>1. hs[h] \in Handles
      BY <2>1, <2>2 DEF IsLive
    <3>2. new(h) \in Handles /\ new(h).content = hs[h].content /\ new(h).snap /\ ~new(h).live
      BY <2>2, <3>1 DEF Handles
    <3>3. new(h) # None
      BY <3>2, NoneIsNoHandle
    <3> HIDE DEF new
    <3> QED
      BY <2>2, <3>2, <3>3 DEF Less, IsLive
  <2>3. CASE ~(h # g /\ IsLive(hs[h]))
    BY <2>1, <2>3 DEF Less
  <2> QED
    BY <2>2, <2>3
<1> HIDE DEF new
<1> QED
  BY <1>1, <1>2 DEF HandleMaps

LEMMA EvictedLess ==
  ASSUME NEW hs \in HandleMaps, NEW g, NEW E \in Evictable(hs, g)
  PROVE  /\ Evicted(hs, E) \in HandleMaps
         /\ \A h \in Segs : Less(hs[h], Evicted(hs, E)[h])
         /\ \A h \in Segs : h = g => Evicted(hs, E)[h] = hs[h]
<1>1. E \subseteq Segs \ {g}
  BY DEF Evictable
<1> QED
  BY <1>1 DEF Evicted, HandleMaps, Less

(* The other contexts released to snapshots, and some handles evicted. *)
Released(k, g, E) ==
    [k EXCEPT !.resident = Evicted(Snapshotted(@, g), E), !.prefix = Snapshotted(@, g)]

LEMMA ReleasedFewer ==
  ASSUME NEW k \in KVStates, NEW g, NEW E \in Evictable(k.resident, g)
  PROVE  /\ Fewer(k, Released(k, g, E))
         /\ Released(k, g, E).meta = k.meta /\ Released(k, g, E).active = k.active
         /\ \A h \in Segs : h = g => Released(k, g, E).resident[h] = k.resident[h]
         /\ \A h \in Segs : IsLive(Released(k, g, E).resident[h]) => h = g
         /\ \A h \in Segs : IsLive(Released(k, g, E).prefix[h]) => h = g
<1> DEFINE j == Released(k, g, E)
           r == Snapshotted(k.resident, g)
           e == Evicted(r, E)
           p == Snapshotted(k.prefix, g)
<1>1. k.resident \in HandleMaps /\ k.prefix \in HandleMaps
  BY StateFields
<1>2. /\ r \in HandleMaps
      /\ \A h \in Segs : Less(k.resident[h], r[h])
      /\ \A h \in Segs : IsLive(r[h]) => h = g
      /\ \A h \in Segs : h = g => r[h] = k.resident[h]
      /\ \A h \in Segs : k.resident[h] # None => r[h] # None
  BY <1>1, SnapshottedLess
<1>3. /\ p \in HandleMaps
      /\ \A h \in Segs : Less(k.prefix[h], p[h])
      /\ \A h \in Segs : IsLive(p[h]) => h = g
  BY <1>1, SnapshottedLess
<1>4. E \in Evictable(r, g)
  BY <1>2 DEF Evictable, Less
<1>5. j = [k EXCEPT !.resident = e, !.prefix = p]
  BY DEF Released
<1> HIDE DEF r, p, j
<1>6. /\ e \in HandleMaps
      /\ \A h \in Segs : Less(r[h], e[h])
      /\ \A h \in Segs : h = g => e[h] = r[h]
  BY <1>2, <1>4, EvictedLess
<1> HIDE DEF e
<1>7. /\ j.resident = e /\ j.prefix = p /\ j.meta = k.meta /\ j.active = k.active
      /\ j \in KVStates
  BY <1>3, <1>5, <1>6 DEF KVStates, HandleMaps
<1>8. \A h \in Segs : Less(k.resident[h], e[h]) /\ (IsLive(e[h]) => h = g)
  BY <1>2, <1>6 DEF Less, IsLive
<1>9. Fewer(k, j)
  BY <1>3, <1>7, <1>8 DEF Fewer
<1> QED
  BY <1>2, <1>3, <1>6, <1>7, <1>8, <1>9 DEF j

(* keep_only_segment_live leaves the segment as it is, and only its        *)
(* context alive; it fails only when there is another one to export.       *)
LEMMA KeptOnly ==
  ASSUME NEW k \in KVStates, NEW g, NEW o \in KeepOnlySegmentLive(k, g)
  PROVE  /\ o.ok \in BOOLEAN /\ Fewer(k, o.kv) /\ o.kv.meta = k.meta
         /\ ~o.ok => o.kv = k /\ LiveBut(k.resident, g) \cup LiveBut(k.prefix, g) # {}
         /\ o.ok => /\ \A h \in Segs : h = g => o.kv.resident[h] = k.resident[h]
                    /\ \A h \in Segs : IsLive(o.kv.resident[h]) => h = g
                    /\ \A h \in Segs : IsLive(o.kv.prefix[h]) => h = g
                    /\ o.kv.active = IF k.active # None /\ k.active.seg # g THEN None ELSE k.active
<1> DEFINE kept(E) == Released(k, g, E)
<1>1. CASE o = Failed(k) /\ LiveBut(k.resident, g) \cup LiveBut(k.prefix, g) # {}
  BY <1>1, FewerReflexive DEF Failed, Outcome
<1>2. ASSUME NEW E \in Evictable(k.resident, g),
             o = Ok(IF kept(E).active # None /\ kept(E).active.seg # g
                    THEN Deactivated(kept(E)) ELSE kept(E))
      PROVE  /\ o.ok = TRUE /\ Fewer(k, o.kv) /\ o.kv.meta = k.meta
             /\ \A h \in Segs : h = g => o.kv.resident[h] = k.resident[h]
             /\ \A h \in Segs : IsLive(o.kv.resident[h]) => h = g
             /\ \A h \in Segs : IsLive(o.kv.prefix[h]) => h = g
             /\ o.kv.active = IF k.active # None /\ k.active.seg # g THEN None ELSE k.active
  <2> DEFINE j == kept(E)
  <2>1. /\ Fewer(k, j) /\ j.meta = k.meta /\ j.active = k.active
        /\ \A h \in Segs : h = g => j.resident[h] = k.resident[h]
        /\ \A h \in Segs : IsLive(j.resident[h]) => h = g
        /\ \A h \in Segs : IsLive(j.prefix[h]) => h = g
    BY <1>2, ReleasedFewer
  <2>2. o = Ok(IF j.active # None /\ j.active.seg # g THEN Deactivated(j) ELSE j)
    BY <1>2
  <2> HIDE DEF j
  <2>3. CASE j.active # None /\ j.active.seg # g
    <3>1. o.ok = TRUE /\ o.kv = Deactivated(j)
      BY <2>2, <2>3 DEF Ok, Outcome
    <3>2. j \in KVStates
      BY <2>1 DEF Fewer
    <3>3. /\ Fewer(j, o.kv) /\ o.kv.active = None
          /\ o.kv.meta = j.meta /\ o.kv.prefix = j.prefix
          /\ \A h \in Segs : h = g => o.kv.resident[h] = j.resident[h]
      BY <2>3, <3>1, <3>2, DeactivatedFewer
    <3>4. \A h \in Segs : IsLive(o.kv.resident[h]) => IsLive(j.resident[h])
      BY <3>3 DEF Fewer, Less, IsLive
    <3>5. Fewer(k, o.kv)
      BY <2>1, <3>3, FewerTransitive
    <3> QED
      BY <2>1, <2>3, <3>1, <3>3, <3>4, <3>5
  <2>4. CASE ~(j.active # None /\ j.active.seg # g)
    <3>1. o.ok = TRUE /\ o.kv = j
      BY <2>2, <2>4 DEF Ok, Outcome
    <3> QED
      BY <2>1, <2>4, <3>1
  <2> QED
    BY <2>3, <2>4
<1>3. \/ o = Failed(k) /\ LiveBut(k.resident, g) \cup LiveBut(k.prefix, g) # {}
      \/ \E E \in Evictable(k.resident, g) :
            o = Ok(IF kept(E).active # None /\ kept(E).active.seg # g
                   THEN Deactivated(kept(E)) ELSE kept(E))
  BY DEF KeepOnlySegmentLive, Released
<1> QED
  BY <1>1, <1>2, <1>3

(* What it does to a sound state. *)
LEMMA KeptSound ==
  ASSUME NEW k, Sound(k), NEW g \in Segs, NEW o \in KeepOnlySegmentLive(k, g)
  PROVE  /\ o.ok \in BOOLEAN /\ Sound(o.kv) /\ o.kv.meta = k.meta
         /\ o.ok => /\ Apart(o.kv, g)
                    /\ o.kv.resident[g] = k.resident[g]
                    /\ Less(k.prefix[g], o.kv.prefix[g])
<1>1. k \in KVStates /\ Current(k) /\ OneLive(k)
  BY DEF Sound
<1>2. /\ o.ok \in BOOLEAN /\ Fewer(k, o.kv) /\ o.kv.meta = k.meta
      /\ ~o.ok => o.kv = k
      /\ o.ok => /\ \A h \in Segs : h = g => o.kv.resident[h] = k.resident[h]
                 /\ \A h \in Segs : IsLive(o.kv.resident[h]) => h = g
                 /\ \A h \in Segs : IsLive(o.kv.prefix[h]) => h = g
                 /\ o.kv.active = IF k.active # None /\ k.active.seg # g THEN None ELSE k.active
  BY <1>1, KeptOnly
<1>3. o.kv \in KVStates /\ Current(o.kv) /\ Less(k.prefix[g], o.kv.prefix[g])
  BY <1>1, <1>2, FewerCurrent DEF Fewer
<1>4. \A h \in Segs : ~IsLive(o.kv.prefix[h])
  BY <1>1, <1>2 DEF Fewer, Less, IsLive, OneLive
<1>5. o.ok => Apart(o.kv, g) /\ OneLive(o.kv)
  BY <1>1, <1>2, <1>4 DEF Apart, OneLive
<1> QED
  BY <1>1, <1>2, <1>3, <1>5 DEF Sound

-----------------------------------------------------------------------------
(* The segment g whose KV is prepared is one of the plan. *)
Target(g) == g \in Segs /\ plan # None /\ g \in DOMAIN plan /\ Content(g) \in ContentType

(* The status of a segment is not read by the other parts. *)
SameBut(k, j, g) ==
    /\ j \in KVStates /\ j.resident = k.resident /\ j.prefix = k.prefix
    /\ j.active = k.active
    /\ \A h \in Segs : h # g => j.meta[h] = k.meta[h]

LEMMA StatusOnly ==
  ASSUME NEW k, NEW j, NEW g, SameBut(k, j, g)
  PROVE  /\ Current(k) => Current(j)
         /\ Sound(k) => Sound(j)
         /\ \A h : Apart(k, h) => Apart(j, h)
BY DEF SameBut, Current, OneLive, Apart, Sound

LEMMA StatusSet ==
  ASSUME NEW k \in KVStates, NEW g \in Segs
  PROVE  /\ SameBut(k, NowResident(k, g), g) /\ NowResident(k, g).meta[g] = "Resident"
         /\ SameBut(k, LoadFailed(k, g), g)
         /\ SameBut(k, MarkedMissing(k, g), g)
<1>1. ASSUME NEW v \in {"absent", "Missing", "DiskOnly", "Resident"}, NEW j,
             j = [k EXCEPT !.meta[g] = v]
      PROVE  SameBut(k, j, g) /\ j.meta[g] = v
  BY <1>1 DEF KVStates, SameBut
<1>2. /\ NowResident(k, g) = [k EXCEPT !.meta[g] = "Resident"]
      /\ LoadFailed(k, g) = [k EXCEPT !.meta[g] = "Missing"]
      /\ MarkedMissing(k, g) = [k EXCEPT !.meta[g] = "Missing"]
  BY DEF NowResident, LoadFailed, MarkedMissing
<1> QED
  BY <1>1, <1>2

(* With the reference engine a handle has a snapshot. *)
Reloadable(h) == ~UseNative => h.snap

Put(k, g, h) == [k EXCEPT !.resident[g] = h]

LEMMA PutHandle ==
  ASSUME NEW k \in KVStates, Current(k), NEW g, Target(g), NEW h \in Handles,
         h.content = Content(g), Reloadable(h)
  PROVE  /\ Put(k, g, h) \in KVStates /\ Current(Put(k, g, h))
         /\ Put(k, g, h).meta = k.meta /\ Put(k, g, h).active = k.active
         /\ Put(k, g, h).prefix = k.prefix /\ Put(k, g, h).resident[g] = h
         /\ \A i \in Segs : i # g => Put(k, g, h).resident[i] = k.resident[i]
<1> DEFINE j == Put(k, g, h)
<1>1. g \in Segs /\ plan # None /\ g \in DOMAIN plan
  BY DEF Target
<1>2. /\ j \in KVStates /\ j.meta = k.meta /\ j.active = k.active
      /\ j.prefix = k.prefix /\ j.resident[g] = h
      /\ \A i \in Segs : i # g => j.resident[i] = k.resident[i]
  BY <1>1 DEF KVStates, Put
<1> HIDE DEF j
<1>3. ASSUME NEW i \in Segs, j.resident[i] # None
      PROVE  /\ plan # None /\ i \in DOMAIN plan
             /\ j.resident[i].content = Content(i)
             /\ ~UseNative => j.resident[i].snap
  BY <1>1, <1>2, <1>3 DEF Current, Reloadable
<1>4. Current(j)
  BY <1>2, <1>3 DEF Current
<1> QED
  BY <1>2, <1>4 DEF j

(* Storing the KV of a segment: nothing has to be released when no other   *)
(* context is alive, so it succeeds.                                       *)
Stored(k, g, h, j) ==
    j \in KVStates /\ Current(j) /\ Apart(j, g) /\ j.meta = k.meta /\ j.resident[g] = h

LEMMA StoredApart ==
  ASSUME NEW k \in KVStates, Current(k), NEW g, Target(g), Apart(k, g), NEW h \in Handles,
         h.content = Content(g), Reloadable(h), NEW o \in StoreResident(k, g, h)
  PROVE  o.ok = TRUE /\ Stored(k, g, h, o.kv)
<1> DEFINE j == Put(k, g, h)
<1>0. g \in Segs
  BY DEF Target
<1>1. /\ j \in KVStates /\ Current(j) /\ j.meta = k.meta /\ j.active = k.active
      /\ j.prefix = k.prefix /\ j.resident[g] = h
      /\ \A i \in Segs : i # g => j.resident[i] = k.resident[i]
  BY PutHandle
<1>2. o \in KeepOnlySegmentLive(j, g)
  BY DEF StoreResident, Put
<1> HIDE DEF j
<1>3. LiveBut(j.resident, g) \cup LiveBut(j.prefix, g) = {}
  BY <1>1 DEF LiveBut, Apart
<1>4. /\ o.ok = TRUE /\ Fewer(j, o.kv) /\ o.kv.meta = j.meta
      /\ \A i \in Segs : i = g => o.kv.resident[i] = j.resident[i]
      /\ \A i \in Segs : IsLive(o.kv.resident[i]) => i = g
  BY <1>1, <1>2, <1>3, KeptOnly
<1>5. o.kv \in KVStates /\ Current(o.kv)
  BY <1>1, <1>4, FewerCurrent DEF Fewer
<1>6. \A i \in Segs : ~IsLive(o.kv.prefix[i])
  BY <1>1, <1>4 DEF Fewer, Less, IsLive, Apart
<1> QED
  BY <1>0, <1>1, <1>4, <1>5, <1>6 DEF Apart, Stored

(* The KV of a file has no context: storing it keeps a state sound, also   *)
(* when the release of another context fails.                              *)
LEMMA StoredSnapshot ==
  ASSUME NEW k, Sound(k), NEW g, Target(g), NEW h \in Handles, ~h.live,
         h.content = Content(g), Reloadable(h), NEW o \in StoreResident(k, g, h)
  PROVE  /\ o.ok \in BOOLEAN /\ Sound(o.kv)
         /\ o.kv.meta = k.meta /\ (o.ok => o.kv.resident[g] = h)
<1> DEFINE j == Put(k, g, h)
<1>0. g \in Segs /\ k \in KVStates /\ Current(k) /\ OneLive(k)
  BY DEF Target, Sound
<1>1. /\ j \in KVStates /\ Current(j) /\ j.meta = k.meta /\ j.active = k.active
      /\ j.prefix = k.prefix /\ j.resident[g] = h
      /\ \A i \in Segs : i # g => j.resident[i] = k.resident[i]
  BY <1>0, PutHandle
<1>2. o \in KeepOnlySegmentLive(j, g)
  BY DEF StoreResident, Put
<1> HIDE DEF j
<1>3. OneLive(j)
  BY <1>0, <1>1 DEF OneLive, IsLive
<1>4. Sound(j)
  BY <1>1, <1>3 DEF Sound
<1> QED
  BY <1>0, <1>1, <1>2, <1>4, KeptSound

(* The active slot shares the context of the segment, if it has one. *)
LEMMA SharedSound ==
  ASSUME NEW k \in KVStates, Current(k), NEW g, Target(g), Apart(k, g)
  PROVE  /\ Sound(SharedActive(k, g))
         /\ SharedActive(k, g).resident = k.resident /\ SharedActive(k, g).meta = k.meta
         /\ IsLive(k.resident[g]) => /\ SharedActive(k, g).active # None
                                     /\ SharedActive(k, g).active.seg = g
<1> DEFINE j == SharedActive(k, g)
<1>0. /\ g \in Segs /\ plan # None /\ g \in DOMAIN plan
      /\ k.resident[g] \in Handles \cup {None}
  BY StateFields DEF Target
<1>1. CASE IsLive(k.resident[g])
  <2>1. k.resident[g] # None /\ k.resident[g] \in Handles
    BY <1>0, <1>1 DEF IsLive
  <2> DEFINE a == Active(g, FALSE, k.resident[g].content)
  <2>2. a \in Slots /\ a.seg = g /\ a.own = FALSE /\ a.content = k.resident[g].content
    BY <1>0, <2>1 DEF Active, Slots, Handles
  <2>3. j = [k EXCEPT !.active = a]
    BY <1>1 DEF SharedActive
  <2> HIDE DEF a, j
  <2>4. /\ j \in KVStates /\ j.resident = k.resident /\ j.prefix = k.prefix
        /\ j.meta = k.meta /\ j.active = a
    BY <2>2, <2>3 DEF KVStates
  <2>5. a # None
    BY <2>2, NoneIsNoHandle
  <2>6. Current(j)
    BY <1>0, <2>1, <2>2, <2>4 DEF Current
  <2>7. OneLive(j)
    BY <2>2, <2>4, <2>5 DEF OneLive, Apart
  <2> QED
    BY <2>2, <2>4, <2>5, <2>6, <2>7 DEF Sound, j
<1>2. CASE ~IsLive(k.resident[g])
  <2>1. j = k
    BY <1>2 DEF SharedActive
  <2>2. OneLive(k)
    BY <1>2 DEF OneLive, Apart
  <2> QED
    BY <1>2, <2>1, <2>2 DEF Sound
<1> QED
  BY <1>1, <1>2

-----------------------------------------------------------------------------
(* prepare_resident_segment and activate_for_search, one by one.  Whatever *)
(* their outcome o, the state is sound and no other status has changed; if *)
(* they succeed the segment is resident.                                   *)
After(k, g, o) ==
    /\ o.ok \in BOOLEAN /\ Sound(o.kv)
    /\ \A h \in Segs : h # g => o.kv.meta[h] = k.meta[h]
    /\ o.ok => o.kv.resident[g] \in Handles

LEMMA SuccessFields == \A k : Ok(k).ok = TRUE /\ Ok(k).kv = k
BY DEF Ok, Outcome

LEMMA FailureFields == \A k : Failed(k).ok = FALSE /\ Failed(k).kv = k
BY DEF Failed, Outcome

LEMMA HandleOf ==
  ASSUME NEW g, Target(g), NEW snap \in BOOLEAN, NEW live \in BOOLEAN
  PROVE  /\ Handle(Content(g), snap, live) \in Handles
         /\ Handle(Content(g), snap, live).content = Content(g)
         /\ Handle(Content(g), snap, live).snap = snap
         /\ Handle(Content(g), snap, live).live = live
BY DEF Target, Handle, Handles

LEMMA FoundAfter ==
  ASSUME NEW k, Sound(k), NEW g, Target(g), HasResident(k, g), NEW o \in Found(k, g)
  PROVE  After(k, g, o)
<1>1. PICK p \in KeepOnlySegmentLive(k, g) :
         IF p.ok THEN o \in {Ok(SharedActive(p.kv, g))} ELSE o \in {p}
  BY DEF Found, Then
<1>2. g \in Segs /\ k.resident[g] \in Handles
  BY StateFields DEF Target, Sound, HasResident
<1>3. /\ p.ok \in BOOLEAN /\ Sound(p.kv) /\ p.kv.meta = k.meta
      /\ p.ok => Apart(p.kv, g) /\ p.kv.resident[g] = k.resident[g]
  BY <1>2, KeptSound
<1>4. CASE p.ok
  <2>1. /\ Sound(SharedActive(p.kv, g))
        /\ SharedActive(p.kv, g).resident = p.kv.resident
        /\ SharedActive(p.kv, g).meta = p.kv.meta
    BY <1>3, <1>4, SharedSound DEF Sound
  <2>2. o = Ok(SharedActive(p.kv, g))
    BY <1>1, <1>4
  <2> QED
    BY <1>2, <1>3, <1>4, <2>1, <2>2, SuccessFields DEF After
<1>5. CASE ~p.ok
  BY <1>1, <1>3, <1>5 DEF After
<1> QED
  BY <1>4, <1>5

(* A KV with a context is stored after the others were released. *)
LEMMA StoredAndShared ==
  ASSUME NEW k \in KVStates, Current(k), NEW g, Target(g), Apart(k, g), NEW h \in Handles,
         h.content = Content(g), Reloadable(h), h.live, NEW p \in StoreResident(k, g, h)
  PROVE  /\ p.ok = TRUE
         /\ After(k, g, Ok(SharedActive(NowResident(p.kv, g), g)))
         /\ After(k, g, Ok(SharedActive(p.kv, g)))
         /\ SharedActive(p.kv, g).active # None
         /\ SharedActive(p.kv, g).active.seg = g
         /\ IsLive(SharedActive(p.kv, g).resident[g])
<1>0. g \in Segs
  BY DEF Target
<1>1. h # None
  BY NoneIsNoHandle
<1>3. /\ p.ok = TRUE /\ p.kv \in KVStates /\ Current(p.kv) /\ Apart(p.kv, g)
      /\ p.kv.meta = k.meta /\ p.kv.resident[g] = h
  <2>1. p.ok = TRUE /\ Stored(k, g, h, p.kv)
    BY StoredApart
  <2> QED
    BY <2>1 DEF Stored
<1> DEFINE n == NowResident(p.kv, g)
<1>4. SameBut(p.kv, n, g)
  BY <1>0, <1>3, StatusSet
<1> HIDE DEF n
<1>5. n \in KVStates /\ Current(n) /\ Apart(n, g) /\ n.resident = p.kv.resident
  BY <1>3, <1>4, StatusOnly DEF SameBut
<1>6. /\ Sound(SharedActive(n, g)) /\ SharedActive(n, g).resident = n.resident
      /\ SharedActive(n, g).meta = n.meta
  BY <1>5, SharedSound
<1>7. /\ Sound(SharedActive(p.kv, g)) /\ SharedActive(p.kv, g).resident = p.kv.resident
      /\ SharedActive(p.kv, g).meta = p.kv.meta
      /\ IsLive(p.kv.resident[g]) => /\ SharedActive(p.kv, g).active # None
                                     /\ SharedActive(p.kv, g).active.seg = g
  BY <1>3, SharedSound
<1>8. IsLive(p.kv.resident[g])
  BY <1>1, <1>3 DEF IsLive
<1>9. After(k, g, Ok(SharedActive(n, g)))
  <2> DEFINE m == SharedActive(n, g)
  <2>1. /\ m.meta = n.meta /\ m.resident = p.kv.resident
        /\ Sound(m)
    BY <1>5, <1>6
  <2> HIDE DEF m
  <2>2. Ok(m).ok = TRUE /\ Ok(m).kv = m
    BY SuccessFields
  <2>3. \A i \in Segs : i # g => m.meta[i] = p.kv.meta[i]
    BY <1>4, <2>1 DEF SameBut
  <2>4. After(k, g, Ok(m))
    BY <1>3, <2>1, <2>2, <2>3 DEF After
  <2> QED
    BY <2>4 DEF m
<1>10. After(k, g, Ok(SharedActive(p.kv, g)))
  BY <1>3, <1>7, SuccessFields DEF After
<1> QED
  BY <1>3, <1>7, <1>8, <1>9, <1>10 DEF n

LEMMA BuiltAfter ==
  ASSUME NEW k, Sound(k), NEW g, Target(g), NEW o \in Built(k, g)
  PROVE  After(k, g, o)
<1> DEFINE h == Handle(Content(g), ~UseNative, TRUE)
<1>0. g \in Segs
  BY DEF Target
<1>1. PICK p \in KeepOnlySegmentLive(k, g) :
         IF p.ok
         THEN \/ o = Failed(p.kv)
              \/ \E q \in StoreResident(p.kv, g, h) :
                    IF q.ok THEN o = Ok(SharedActive(NowResident(q.kv, g), g)) ELSE o = q
         ELSE o = p
  <2>1. o \in UNION {IF p.ok
                     THEN {Failed(p.kv)} \cup
                          UNION {IF q.ok THEN {Ok(SharedActive(NowResident(q.kv, g), g))} ELSE {q} :
                                    q \in StoreResident(p.kv, g, h)}
                     ELSE {p} : p \in KeepOnlySegmentLive(k, g)}
    BY DEF Built, Then
  <2> HIDE DEF h
  <2> QED
    BY <2>1
<1>2. /\ p.ok \in BOOLEAN /\ Sound(p.kv) /\ p.kv.meta = k.meta
      /\ p.ok => Apart(p.kv, g)
  BY <1>0, KeptSound
<1>3. CASE ~p.ok
  BY <1>1, <1>2, <1>3 DEF After
<1>4. CASE p.ok /\ o = Failed(p.kv)
  BY <1>2, <1>4, FailureFields DEF After
<1>5. ASSUME NEW q \in StoreResident(p.kv, g, h), p.ok,
             IF q.ok THEN o = Ok(SharedActive(NowResident(q.kv, g), g)) ELSE o = q
      PROVE  After(k, g, o)
  <2>1. h \in Handles /\ h.content = Content(g) /\ Reloadable(h) /\ h.live
    <3>1. (~UseNative) \in BOOLEAN
      BY FlagsAssumption
    <3>2. h \in Handles /\ h.content = Content(g) /\ h.snap = ~UseNative /\ h.live = TRUE
      BY <3>1, HandleOf
    <3> HIDE DEF h
    <3> QED
      BY <3>2 DEF Reloadable
  <2>2. p.kv \in KVStates /\ Current(p.kv) /\ Apart(p.kv, g)
    BY <1>2, <1>5 DEF Sound
  <2> HIDE DEF h
  <2>3. q.ok = TRUE /\ After(p.kv, g, Ok(SharedActive(NowResident(q.kv, g), g)))
    BY <1>5, <2>1, <2>2, StoredAndShared
  <2>4. After(p.kv, g, o)
    BY <1>5, <2>3
  <2> QED
    BY <1>2, <2>4 DEF After
<1> HIDE DEF h
<1> QED
  BY <1>1, <1>3, <1>4, <1>5

LEMMA LoadedAfter ==
  ASSUME NEW k, Sound(k), NEW g, Target(g), NEW o \in LoadedFile(k, g)
  PROVE  After(k, g, o)
<1> DEFINE h == Handle(Content(g), TRUE, FALSE)
<1>0. g \in Segs
  BY DEF Target
<1>1. PICK q \in StoreResident(k, g, h) : IF q.ok THEN o = Ok(NowResident(q.kv, g)) ELSE o = q
  BY DEF LoadedFile, Then
<1>2. h \in Handles /\ h.content = Content(g) /\ h.snap = TRUE /\ h.live = FALSE
  BY HandleOf
<1> HIDE DEF h
<1>3. /\ q.ok \in BOOLEAN /\ Sound(q.kv)
      /\ q.kv.meta = k.meta /\ (q.ok => q.kv.resident[g] = h)
  <2>1. Reloadable(h)
    BY <1>2 DEF Reloadable
  <2> QED
    BY <1>2, <2>1, StoredSnapshot
<1>4. SameBut(q.kv, NowResident(q.kv, g), g)
  BY <1>0, <1>3, StatusSet DEF Sound
<1>5. Sound(NowResident(q.kv, g))
  BY <1>3, <1>4, StatusOnly
<1>6. CASE q.ok
  <2>1. o.ok = TRUE /\ o.kv = NowResident(q.kv, g)
    BY <1>1, <1>6, SuccessFields
  <2>2. o.kv.resident[g] \in Handles /\ \A i \in Segs : i # g => o.kv.meta[i] = k.meta[i]
    BY <1>2, <1>3, <1>4, <1>6, <2>1 DEF SameBut
  <2> QED
    BY <1>5, <2>1, <2>2 DEF After
<1>7. CASE ~q.ok
  BY <1>1, <1>3, <1>7 DEF After
<1> QED
  BY <1>6, <1>7

LEMMA TakenSound ==
  ASSUME NEW k, Sound(k), NEW g \in Segs
  PROVE  /\ Sound(PrefixTaken(k, g)) /\ PrefixTaken(k, g).meta = k.meta
         /\ PrefixTaken(k, g).resident = k.resident
<1> DEFINE j == PrefixTaken(k, g)
<1>1. k \in KVStates /\ Current(k) /\ OneLive(k)
  BY DEF Sound
<1>2. /\ j \in KVStates /\ j.resident = k.resident /\ j.meta = k.meta /\ j.active = k.active
      /\ \A h \in Segs : j.prefix[h] = k.prefix[h] \/ j.prefix[h] = None
  BY <1>1 DEF PrefixTaken, KVStates
<1> HIDE DEF j
<1>3. Fewer(k, j)
  BY <1>2 DEF Fewer, Less
<1>4. Current(j) /\ OneLive(j)
  BY <1>1, <1>2, <1>3, FewerCurrent, FewerLive
<1> QED
  BY <1>2, <1>4 DEF Sound, j

LEMMA ExtendedAfter ==
  ASSUME NEW k, Sound(k), NEW g, Target(g), NEW o \in ExtendedPrefix(k, g)
  PROVE  After(k, g, o)
<1> DEFINE h == Handle(Content(g), TRUE, TRUE)
           t == PrefixTaken(k, g)
<1>0. g \in Segs
  BY DEF Target
<1>1. PICK q \in Then(KeepOnlySegmentLive(t, g), LAMBDA j : StoreResident(j, g, h)) :
         q.ok /\ o = Ok(SharedActive(NowResident(q.kv, g), g))
  BY DEF ExtendedPrefix
<1>2. PICK p \in KeepOnlySegmentLive(t, g) :
         IF p.ok THEN q \in StoreResident(p.kv, g, h) ELSE q = p
  BY <1>1 DEF Then
<1>3. Sound(t) /\ t.meta = k.meta
  BY <1>0, TakenSound
<1> HIDE DEF t
<1>4. /\ p.ok \in BOOLEAN /\ Sound(p.kv) /\ p.kv.meta = k.meta
      /\ p.ok => Apart(p.kv, g)
  BY <1>0, <1>3, KeptSound
<1>5. p.ok /\ q \in StoreResident(p.kv, g, h)
  BY <1>1, <1>2, <1>4
<1>6. p.kv \in KVStates /\ Current(p.kv) /\ Apart(p.kv, g)
  BY <1>4, <1>5 DEF Sound
<1>7. After(p.kv, g, Ok(SharedActive(NowResident(q.kv, g), g)))
  <2>1. h \in Handles /\ h.content = Content(g) /\ h.snap = TRUE /\ h.live = TRUE
    BY HandleOf
  <2> HIDE DEF h
  <2>2. Reloadable(h)
    BY <2>1 DEF Reloadable
  <2> QED
    BY <1>5, <1>6, <2>1, <2>2, StoredAndShared
<1> QED
  BY <1>1, <1>4, <1>7 DEF After

LEMMA GaveUpSound ==
  ASSUME NEW k, Sound(k), NEW g \in Segs, NEW j \in PrefixGaveUp(k, g)
  PROVE  Sound(j) /\ j.meta = k.meta
<1>1. Sound(PrefixTaken(k, g)) /\ PrefixTaken(k, g).meta = k.meta
  BY TakenSound
<1>2. \/ j = PrefixTaken(k, g)
      \/ \E o \in KeepOnlySegmentLive(PrefixTaken(k, g), g) : j = o.kv
  BY DEF PrefixGaveUp
<1>3. ASSUME NEW o \in KeepOnlySegmentLive(PrefixTaken(k, g), g)
      PROVE  Sound(o.kv) /\ o.kv.meta = k.meta
  BY <1>1, <1>3, KeptSound
<1> QED
  BY <1>1, <1>2, <1>3

LEMMA FromFileOrBuiltAfter ==
  ASSUME NEW k, Sound(k), NEW g, Target(g), NEW build \in BOOLEAN,
         NEW o \in FromFileOrBuilt(k, g, build)
  PROVE  After(k, g, o)
<1>0. g \in Segs
  BY DEF Target
<1>1. SameBut(k, LoadFailed(k, g), g)
  BY <1>0, StatusSet DEF Sound
<1>2. Sound(LoadFailed(k, g))
  BY <1>1, StatusOnly
<1>3. ASSUME NEW j, Sound(j), \A h \in Segs : h # g => j.meta[h] = k.meta[h],
             o \in (IF build THEN Built(j, g) ELSE {Failed(j)})
      PROVE  After(k, g, o)
  <2>1. CASE build
    <3>1. After(j, g, o)
      BY <1>3, <2>1, BuiltAfter
    <3> QED
      BY <1>3, <3>1 DEF After
  <2>2. CASE ~build
    BY <1>3, <2>2, FailureFields DEF After
  <2> QED
    BY <2>1, <2>2
<1>4. \/ o \in LoadedFile(k, g)
      \/ o \in (IF build THEN Built(LoadFailed(k, g), g) ELSE {Failed(LoadFailed(k, g))})
      \/ o \in (IF build THEN Built(k, g) ELSE {Failed(k)})
  BY DEF FromFileOrBuilt
<1>5. \A h \in Segs : h # g => LoadFailed(k, g).meta[h] = k.meta[h]
  BY <1>1 DEF SameBut
<1> QED
  BY <1>2, <1>3, <1>4, <1>5, LoadedAfter

LEMMA PreparedAfter ==
  ASSUME NEW k, Sound(k), NEW g, Target(g), NEW build \in BOOLEAN,
         NEW o \in PrepareResidentSegment(k, g, build)
  PROVE  After(k, g, o)
<1>1. CASE HasResident(k, g)
  BY <1>1, FoundAfter DEF PrepareResidentSegment
<1>2. CASE o \in ExtendedPrefix(k, g)
  BY <1>2, ExtendedAfter
<1>3. ASSUME NEW j \in PrefixGaveUp(k, g), o \in FromFileOrBuilt(j, g, build)
      PROVE  After(k, g, o)
  <2>1. Sound(j) /\ j.meta = k.meta
    BY <1>3, GaveUpSound DEF Target
  <2>2. After(j, g, o)
    BY <1>3, <2>1, FromFileOrBuiltAfter
  <2> QED
    BY <2>1, <2>2 DEF After
<1> QED
  BY <1>1, <1>2, <1>3 DEF PrepareResidentSegment


(* What a search can read: the slot of the segment with a context, its own *)
(* or the one it shares with the resident handle.                          *)
Usable(k, g) ==
    k.active # None /\ k.active.seg = g /\ (k.active.own \/ IsLive(k.resident[g]))

ActivatedAfter(k, g, o) ==
    /\ o.ok \in BOOLEAN /\ Sound(o.kv)
    /\ \A h \in Segs : h # g => o.kv.meta[h] = k.meta[h]
    /\ o.ok => Usable(o.kv, g)

LEMMA ReusedAfter ==
  ASSUME NEW k, Sound(k), NEW g, Target(g), NEW o \in ReuseContext(k, g)
  PROVE  ActivatedAfter(k, g, o)
<1>0. g \in Segs /\ k \in KVStates /\ Current(k) /\ OneLive(k)
  BY DEF Target, Sound
<1>1. CASE o = Ok(k) /\ Usable(k, g)
  BY <1>1, SuccessFields DEF ActivatedAfter
<1>2. CASE o = Ok(SharedActive(k, g)) /\ IsLive(k.resident[g])
  <2>1. Apart(k, g)
    BY <1>0, <1>2 DEF OneLive, Apart
  <2>2. /\ Sound(SharedActive(k, g))
        /\ SharedActive(k, g).resident = k.resident /\ SharedActive(k, g).meta = k.meta
        /\ SharedActive(k, g).active # None /\ SharedActive(k, g).active.seg = g
    BY <1>0, <1>2, <2>1, SharedSound
  <2> QED
    BY <1>2, <2>2, SuccessFields DEF ActivatedAfter, Usable
<1> QED
  BY <1>1, <1>2 DEF ReuseContext, Usable

(* After the active slot was given up no context is alive. *)
LEMMA DeactivatedSound ==
  ASSUME NEW k, Sound(k)
  PROVE  /\ Sound(Deactivated(k)) /\ Deactivated(k).meta = k.meta
         /\ Deactivated(k).active = None
         /\ \A g : Apart(Deactivated(k), g)
         /\ \A g \in Segs : k.resident[g] # None => Deactivated(k).resident[g] # None
<1> DEFINE d == Deactivated(k)
<1>1. k \in KVStates /\ Current(k) /\ OneLive(k)
  BY DEF Sound
<1>2. /\ Fewer(k, d) /\ d.active = None /\ d.meta = k.meta
      /\ Apart(d, 0)
      /\ \A g \in Segs : k.resident[g] # None => d.resident[g] # None
  BY <1>1, DeactivatedFewer
<1> HIDE DEF d
<1>3. d \in KVStates /\ Current(d)
  BY <1>1, <1>2, FewerCurrent DEF Fewer
<1>4. \A g \in Segs : g # 0
  BY BoundsAssumption DEF Segs
<1>5. OneLive(d) /\ \A g : Apart(d, g)
  BY <1>2, <1>4 DEF Apart, OneLive
<1> QED
  BY <1>2, <1>3, <1>5 DEF Sound, d

Owned(k, g) == [k EXCEPT !.active = Active(g, TRUE, k.resident[g].content)]

LEMMA HydratedAfter ==
  ASSUME NEW k, Sound(k), NEW g, Target(g), Apart(k, g), k.active = None,
         k.resident[g] # None, NEW o \in Hydrated(k, g)
  PROVE  ActivatedAfter(k, g, o)
<1>0. /\ g \in Segs /\ plan # None /\ g \in DOMAIN plan
      /\ k \in KVStates /\ Current(k) /\ OneLive(k)
  BY DEF Target, Sound
<1>1. CASE o = Failed(k)
  BY <1>1, FailureFields DEF ActivatedAfter
<1>2. CASE o = Ok(Owned(k, g))
  <2> DEFINE a == Active(g, TRUE, k.resident[g].content)
             j == Owned(k, g)
  <2>1. k.resident[g] \in Handles
    BY <1>0, StateFields
  <2>2. a \in Slots /\ a.seg = g /\ a.own = TRUE /\ a.content = k.resident[g].content
    BY <1>0, <2>1 DEF Active, Slots, Handles
  <2>3. j = [k EXCEPT !.active = a]
    BY DEF Owned
  <2> HIDE DEF a, j
  <2>4. /\ j \in KVStates /\ j.resident = k.resident /\ j.prefix = k.prefix
        /\ j.meta = k.meta /\ j.active = a
    BY <1>0, <2>2, <2>3 DEF KVStates
  <2>5. a # None
    BY <2>2, NoneIsNoHandle
  <2>6. k.resident[g].content = Content(g)
    BY <1>0 DEF Current
  <2>7. Current(j)
    BY <1>0, <2>2, <2>4, <2>6 DEF Current
  <2>8. OneLive(j)
    BY <1>0, <2>4 DEF OneLive
  <2>9. Sound(j) /\ Usable(j, g)
    BY <2>2, <2>4, <2>5, <2>7, <2>8 DEF Sound, Usable
  <2>10. o.ok = TRUE /\ o.kv = j
    BY <1>2, SuccessFields DEF j
  <2> QED
    BY <2>4, <2>9, <2>10 DEF ActivatedAfter
<1> QED
  BY <1>1, <1>2 DEF Hydrated, Owned

LEMMA RebuiltForSearchAfter ==
  ASSUME NEW k, Sound(k), NEW g, Target(g), Apart(k, g), NEW o \in RebuiltForSearch(k, g)
  PROVE  ActivatedAfter(k, g, o)
<1> DEFINE h == Handle(Content(g), FALSE, TRUE)
<1>1. CASE o = Failed(k)
  BY <1>1, FailureFields DEF ActivatedAfter
<1>2. ASSUME UseNative, NEW q \in StoreResident(k, g, h),
             IF q.ok THEN o = Ok(SharedActive(q.kv, g)) ELSE o = q
      PROVE  ActivatedAfter(k, g, o)
  <2>1. h \in Handles /\ h.content = Content(g) /\ h.live = TRUE
    BY HandleOf
  <2> HIDE DEF h
  <2>2. Reloadable(h)
    BY <1>2 DEF Reloadable
  <2>3. k \in KVStates /\ Current(k)
    BY DEF Sound
  <2>4. /\ q.ok = TRUE
        /\ After(k, g, Ok(SharedActive(q.kv, g)))
        /\ SharedActive(q.kv, g).active # None
        /\ SharedActive(q.kv, g).active.seg = g
        /\ IsLive(SharedActive(q.kv, g).resident[g])
    BY <1>2, <2>1, <2>2, <2>3, StoredAndShared
  <2> QED
    BY <1>2, <2>4, SuccessFields DEF After, ActivatedAfter, Usable
<1>3. \/ o = Failed(k)
      \/ /\ UseNative
         /\ \E q \in StoreResident(k, g, h) :
               IF q.ok THEN o = Ok(SharedActive(q.kv, g)) ELSE o = q
  <2>1. UseNative => o \in {Failed(k)} \cup
           UNION {IF q.ok THEN {Ok(SharedActive(q.kv, g))} ELSE {q} : q \in StoreResident(k, g, h)}
    BY DEF RebuiltForSearch, Then
  <2>2. ~UseNative => o = Failed(k)
    BY DEF RebuiltForSearch
  <2> HIDE DEF h
  <2> QED
    BY <2>1, <2>2
<1> HIDE DEF h
<1> QED
  BY <1>1, <1>2, <1>3

LEMMA SearchActivated ==
  ASSUME NEW k, Sound(k), NEW g, Target(g), NEW o \in ActivateForSearch(k, g)
  PROVE  ActivatedAfter(k, g, o)
<1>1. PICK p \in PrepareResidentSegment(k, g, FALSE) :
         IF p.ok
         THEN \/ o \in ReuseContext(p.kv, g)
              \/ o \in Hydrated(Deactivated(p.kv), g)
              \/ o \in RebuiltForSearch(Deactivated(p.kv), g)
         ELSE o = p
  BY DEF ActivateForSearch, Then
<1>2. After(k, g, p)
  BY <1>1, PreparedAfter
<1>3. CASE ~p.ok
  BY <1>1, <1>2, <1>3 DEF After, ActivatedAfter
<1>4. CASE p.ok
  <2> DEFINE d == Deactivated(p.kv)
  <2>1. Sound(p.kv) /\ p.kv.resident[g] # None /\ g \in Segs
    BY <1>2, <1>4, NoneIsNoHandle DEF After, Target
  <2>2. /\ Sound(d) /\ d.meta = p.kv.meta /\ d.active = None /\ Apart(d, g)
        /\ d.resident[g] # None
    BY <2>1, DeactivatedSound
  <2> HIDE DEF d
  <2>3. ActivatedAfter(p.kv, g, o) \/ ActivatedAfter(d, g, o)
    BY <1>1, <1>4, <2>1, <2>2, ReusedAfter, HydratedAfter, RebuiltForSearchAfter DEF d
  <2> QED
    BY <1>2, <2>2, <2>3 DEF ActivatedAfter, After
<1> QED
  BY <1>3, <1>4

-----------------------------------------------------------------------------
(* The facts and the plan, in every state.                                 *)
Held(f) == f \in Facts /\ Len(f.memories) <= MaxMemories

LEMMA MemoriesOf ==
  ASSUME NEW f, Held(f)
  PROVE  /\ f.memories \in Seq(Texts) /\ Len(f.memories) \in Nat
         /\ Len(f.memories) <= MaxMemories
         /\ f.system \in Systems \cup {""} /\ f # None
<1>1. f \in Facts /\ Len(f.memories) <= MaxMemories
  BY DEF Held
<1>2. f.memories \in Seq(Texts) /\ f.system \in Systems \cup {""}
  BY <1>1 DEF Facts
<1>3. Len(f.memories) \in Nat
  BY <1>2, LenProperties
<1>4. f # None
  BY <1>1, NoneAssumption
<1> QED
  BY <1>1, <1>2, <1>3, <1>4

(* A plan of the first n memories is one of the first m. *)
LEMMA WithinMore ==
  ASSUME NEW n \in Nat, NEW m \in Nat, n <= m, NEW s, Within(s, n)
  PROVE  Within(s, m)
<1>1. Seq(1..n) \subseteq Seq(1..m)
  <2> SUFFICES ASSUME NEW t \in Seq(1..n) PROVE t \in Seq(1..m)
    OBVIOUS
  <2>1. Len(t) \in Nat /\ t \in [1..Len(t) -> 1..n]
    BY LenProperties
  <2>2. t \in [1..Len(t) -> 1..m]
    BY <2>1
  <2> QED
    BY <2>1, <2>2, SeqDef
<1> QED
  BY <1>1 DEF Within

LEMMA PlanByElements ==
  ASSUME NEW p, NEW n \in Nat, NEW N \in Nat, DOMAIN p = 1..N,
         p = [g \in DOMAIN p |-> p[g]], N <= MaxSegments,
         \A g \in 1..N : Within(p[g], n)
  PROVE  PlanOf(p, n) /\ Len(p) = N
<1>1. \A g \in 1..N : p[g] \in Seq(1..n)
  BY DEF Within
<1>2. p \in [1..N -> Seq(1..n)]
  BY <1>1
<1>3. p \in Seq(Seq(1..n)) /\ Len(p) = N
  BY <1>2, SeqDef
<1> QED
  BY <1>3 DEF PlanOf

LEMMA PlanFields ==
  ASSUME NEW n \in Nat, NEW p, PlanOf(p, n)
  PROVE  /\ Len(p) \in Nat /\ Len(p) <= MaxSegments /\ DOMAIN p = 1..Len(p)
         /\ p = [g \in DOMAIN p |-> p[g]]
         /\ DOMAIN p \subseteq Segs
         /\ \A g \in DOMAIN p : Within(p[g], n)
         /\ p = <<>> <=> Len(p) = 0
<1>1. p \in Seq(Seq(1..n)) /\ Len(p) <= MaxSegments
  BY DEF PlanOf
<1>2. Len(p) \in Nat /\ DOMAIN p = 1..Len(p) /\ p \in [1..Len(p) -> Seq(1..n)]
  BY <1>1, LenProperties
<1>3. p = <<>> <=> Len(p) = 0
  BY <1>1, EmptySeq
<1>4. p = [g \in DOMAIN p |-> p[g]]
  BY <1>2
<1>5. DOMAIN p \subseteq Segs
  BY <1>1, <1>2, BoundsAssumption DEF Segs
<1>6. \A g \in DOMAIN p : Within(p[g], n)
  BY <1>2 DEF PlanOf
<1> QED
  BY <1>1, <1>2, <1>3, <1>4, <1>5, <1>6

LEMMA PlanMore ==
  ASSUME NEW n \in Nat, NEW m \in Nat, n <= m, NEW p, PlanOf(p, n)
  PROVE  PlanOf(p, m)
<1>1. /\ Len(p) \in Nat /\ Len(p) <= MaxSegments /\ DOMAIN p = 1..Len(p)
      /\ p = [g \in DOMAIN p |-> p[g]]
      /\ \A g \in DOMAIN p : Within(p[g], n)
  BY PlanFields
<1>2. \A g \in 1..Len(p) : Within(p[g], m)
  BY <1>1, WithinMore
<1> QED
  BY <1>1, <1>2, PlanByElements

LEMMA PlanTyped ==
  ASSUME NEW n \in Nat, n <= MaxMemories, NEW p, PlanOf(p, n)
  PROVE  p \in Plans /\ p # None
<1>1. PlanOf(p, MaxMemories)
  BY BoundsAssumption, PlanMore
<1>2. /\ Len(p) \in Nat /\ DOMAIN p = 1..Len(p) /\ p = [g \in DOMAIN p |-> p[g]]
      /\ \A g \in DOMAIN p : Within(p[g], MaxMemories)
  BY <1>1, BoundsAssumption, PlanFields
<1>3. \A g \in DOMAIN p : p[g] \in Segments
  BY <1>2 DEF Within, Segments
<1>4. p \in [1..Len(p) -> Segments]
  BY <1>2, <1>3
<1>5. p \in Plans
  BY <1>2, <1>4, SeqDef DEF Plans
<1> QED
  BY <1>5, NoneAssumption

LEMMA EmptyPlan == \A n \in Nat : PlanOf(<<>>, n)
<1> TAKE n \in Nat
<1>1. <<>> \in Seq(Seq(1..n)) /\ Len(<<>>) = 0
  BY EmptySeq
<1> QED
  BY <1>1, BoundsAssumption DEF PlanOf

ManifestOK == manifest # None => manifest \in Manifests /\ Len(manifest) <= MaxSegments

(* A segment whose hash is that of the facts lists memories of the facts. *)
LEMMA HashedSegment ==
  ASSUME NEW n \in Nat, NEW s \in Segments, s = Run(s[1], LastOf(s)), LastOf(s) <= n
  PROVE  /\ Within(s, n) /\ s[1] \in 1..n /\ LastOf(s) \in s[1]..n
         /\ \A i \in 1..Len(s) : s[i] = s[1] + i - 1
         /\ Len(s) = LastOf(s) - s[1] + 1
<1>1. s \in Seq(1..MaxMemories) /\ s # <<>>
  BY DEF Segments
<1>2. Len(s) \in Nat \ {0} /\ DOMAIN s = 1..Len(s) /\ 1 \in 1..Len(s) /\ Len(s) \in 1..Len(s)
  BY <1>1, LenProperties, EmptySeq
<1>3. s[1] \in 1..MaxMemories /\ LastOf(s) \in 1..MaxMemories
  BY <1>1, <1>2, ElementOfSeq DEF LastOf
<1>4. s = [i \in 1..(LastOf(s) - s[1] + 1) |-> s[1] + i - 1]
  BY DEF Run
<1>5. DOMAIN s = 1..(LastOf(s) - s[1] + 1)
  BY <1>4
<1>6. 1 \in 1..(LastOf(s) - s[1] + 1)
  BY <1>2, <1>5
<1>7. s[1] <= LastOf(s)
  BY <1>3, <1>6, BoundsAssumption
<1>8. s[1] \in 1..n /\ LastOf(s) \in s[1]..n
  BY <1>3, <1>7, BoundsAssumption
<1>9. /\ Within(Run(s[1], LastOf(s)), n) /\ Len(Run(s[1], LastOf(s))) = LastOf(s) - s[1] + 1
      /\ \A i \in 1..LastOf(s) - s[1] + 1 : Run(s[1], LastOf(s))[i] = s[1] + i - 1
  BY <1>8, RunProperties
<1> QED
  BY <1>8, <1>9

LEMMA ManifestEntry ==
  ASSUME ManifestOK, manifest # None, NEW i \in DOMAIN manifest
  PROVE  /\ manifest[i] \in [indices : Segments, content : ContentType]
         /\ Len(manifest) \in Nat /\ Len(manifest) <= MaxSegments
         /\ DOMAIN manifest = 1..Len(manifest)
BY LenProperties, ElementOfSeq DEF ManifestOK, Manifests

LEMMA LoadedPlan ==
  ASSUME ManifestOK, NEW f, Held(f), NEW p \in LoadedPlans(f)
  PROVE  PlanOf(p, Len(f.memories)) /\ p # None
<1> DEFINE n == Len(f.memories)
<1>0. f.memories \in Seq(Texts) /\ n \in Nat /\ n <= MaxMemories
  BY MemoriesOf
<1> SUFFICES PlanOf(p, n)
  BY <1>0, PlanTyped
<1>1. CASE n = 0
  BY <1>0, <1>1, EmptyPlan DEF LoadedPlans
<1>2. CASE n # 0 /\ ManifestFits(f)
  <2>1. p = [i \in DOMAIN manifest |-> manifest[i].indices]
    BY <1>2 DEF LoadedPlans
  <2>2. manifest # None /\ \A i \in DOMAIN manifest : SameHash(f, manifest[i])
    BY <1>2 DEF ManifestFits
  <2>3. Len(manifest) \in Nat /\ Len(manifest) <= MaxSegments /\ DOMAIN manifest = 1..Len(manifest)
    BY <2>2, LenProperties DEF ManifestOK, Manifests
  <2>4. \A i \in 1..Len(manifest) : Within(p[i], n)
    <3> TAKE i \in 1..Len(manifest)
    <3>1. manifest[i].indices \in Segments
      BY <2>2, <2>3, ManifestEntry
    <3>2. p[i] = manifest[i].indices
      BY <2>1, <2>3
    <3>3. /\ manifest[i].indices = Run(manifest[i].indices[1], LastOf(manifest[i].indices))
          /\ LastOf(manifest[i].indices) <= n
      BY <2>2, <2>3 DEF SameHash
    <3> HIDE DEF n
    <3> QED
      BY <1>0, <3>1, <3>2, <3>3, HashedSegment
  <2>5. DOMAIN p = 1..Len(manifest) /\ p = [g \in DOMAIN p |-> p[g]]
    BY <2>1, <2>3
  <2> HIDE DEF n
  <2> QED
    BY <1>0, <2>3, <2>4, <2>5, PlanByElements
<1>3. CASE n # 0 /\ ~ManifestFits(f)
  BY <1>0, <1>3, RebuiltPlan DEF LoadedPlans
<1> QED
  BY <1>1, <1>2, <1>3

LEMMA TargetOf ==
  ASSUME facts # None => Held(facts), plan # None => facts # None /\ PlanOf(plan, Len(facts.memories)),
         plan # None, NEW g \in DOMAIN plan
  PROVE  /\ Target(g) /\ plan[g] \in Segments /\ plan[g] \in Seq(1..Len(facts.memories))
         /\ Within(plan[g], Len(facts.memories))
         /\ HashOf(facts, plan[g]) \in [indices : Segments, content : ContentType]
<1> DEFINE n == Len(facts.memories)
<1>1. n \in Nat /\ n <= MaxMemories /\ facts \in Facts
  BY MemoriesOf DEF Held
<1>2. DOMAIN plan \subseteq Segs /\ Within(plan[g], n)
  BY <1>1, PlanFields
<1>3. plan[g] \in Segments
  BY <1>1, <1>2, BoundsAssumption, WithinMore DEF Within, Segments
<1>4. Content(g) \in ContentType
  BY <1>1, <1>2, ContentTyped DEF Content
<1> QED
  BY <1>2, <1>3, <1>4 DEF Target, HashOf, Content, Within

-----------------------------------------------------------------------------
(* The inductive invariant.  DataOK: the facts, the plan, the files and    *)
(* the manifest have the shape the cache lemmas ask for.  StageOK: how far *)
(* a command has got says what it has prepared.                            *)
DataOK ==
    /\ facts # None => Held(facts)
    /\ stored \notin {None, Husk} => Held(stored)
    /\ plan # None => facts # None /\ PlanOf(plan, Len(facts.memories))
    /\ file \in [Segs -> ContentType \cup {None}]
    /\ ManifestOK

StageOK ==
    /\ cmd.op \in Planned => plan # None
    /\ cmd.op = "idle" => cmd = Idle
    /\ cmd.at \in {"file", "manifest"} => cmd.op \in Planned /\ cmd.seg \in DOMAIN plan
    /\ cmd.at = "file" => kv.resident[cmd.seg] # None
    /\ cmd.at = "infer" =>
          cmd.op \in Planned /\ cmd.seg \in DOMAIN plan /\ Usable(kv, cmd.seg)

CachesInv == DataOK /\ Sound(kv) /\ StageOK

LEMMA DataKept ==
  ASSUME DataOK, UNCHANGED <<facts, stored, plan, file, manifest>>
  PROVE  DataOK'
BY DEF DataOK, ManifestOK

LEMMA CommandEnded ==
  ASSUME cmd' = Idle
  PROVE  StageOK'
BY DEF StageOK, Idle, Planned

(* No cache at all: sound whatever the plan is. *)
NoCaches(k) ==
    /\ k \in KVStates /\ k.active = None
    /\ \A g \in Segs : k.resident[g] = None /\ k.prefix[g] = None

LEMMA NoCachesSound ==
  ASSUME NoCaches(kv')
  PROVE  Sound(kv)'
BY DEF NoCaches, Sound, Current, OneLive, IsLive

LEMMA NoPlanNoCaches ==
  ASSUME Sound(kv), plan = None
  PROVE  NoCaches(kv)
BY DEF NoCaches, Sound, Current

LEMMA ClearedState ==
  /\ NoCaches(NoKV)
  /\ \A m \in [Segs -> {"absent", "Missing", "DiskOnly", "Resident"}] :
        NoCaches([NoKV EXCEPT !.meta = m])
  /\ \A k, m : NoCaches(k) /\ m \in [Segs -> {"absent", "Missing", "DiskOnly", "Resident"}] =>
        NoCaches([k EXCEPT !.meta = m])
<1>1. ASSUME NEW k, NoCaches(k), NEW m \in [Segs -> {"absent", "Missing", "DiskOnly", "Resident"}]
      PROVE  NoCaches([k EXCEPT !.meta = m])
  BY <1>1 DEF NoCaches, KVStates
<1>2. NoCaches(NoKV)
  <2>1. NoHandles \in HandleMaps /\ \A g \in Segs : NoHandles[g] = None
    BY DEF NoHandles, HandleMaps
  <2>2. NoMeta \in [Segs -> {"absent", "Missing", "DiskOnly", "Resident"}]
    BY DEF NoMeta
  <2> QED
    BY <2>1, <2>2 DEF NoCaches, NoKV, KVStates, HandleMaps
<1> QED
  BY <1>1, <1>2

(* Sound caches stay sound when every segment keeps its content. *)
LEMMA SoundKept ==
  ASSUME NEW k, Sound(k), kv' = k,
         plan # None => /\ plan' # None /\ DOMAIN plan \subseteq DOMAIN plan'
                        /\ \A g \in DOMAIN plan : Content(g)' = Content(g)
  PROVE  Sound(kv)'
<1>1. k \in KVStates /\ Current(k) /\ OneLive(k)
  BY DEF Sound
<1>2. Current(kv)'
  <2>1. ASSUME NEW g \in Segs, k.resident[g] # None
        PROVE  /\ plan' # None /\ g \in DOMAIN plan'
               /\ k.resident[g].content = Content(g)'
               /\ ~UseNative => k.resident[g].snap
    BY <1>1, <2>1 DEF Current
  <2>2. ASSUME NEW g \in Segs, k.prefix[g] # None
        PROVE  /\ plan' # None /\ g \in DOMAIN plan'
               /\ ProperPrefix(k.prefix[g].content, Content(g)')
               /\ ~UseNative => k.prefix[g].snap
    BY <1>1, <2>2 DEF Current
  <2>3. k.active # None =>
            /\ plan' # None /\ k.active.seg \in DOMAIN plan'
            /\ k.active.content = Content(k.active.seg)'
    BY <1>1 DEF Current
  <2> QED
    BY <2>1, <2>2, <2>3 DEF Current
<1> QED
  BY <1>1, <1>2 DEF Sound, OneLive

(* A command that reads and writes caches only. *)
LEMMA SoundStays ==
  ASSUME NEW k, Sound(k), kv' = k, UNCHANGED plan,
         facts'.system = facts.system, facts'.memories = facts.memories
  PROVE  Sound(kv)'
<1>1. \A g : Content(g)' = Content(g)
  BY DEF Content, ContentOf
<1> QED
  BY <1>1, SoundKept

(* The actions one by one, those that change facts or plan first.          *)
LEMMA CreateSessionStep ==
  ASSUME CachesInv, NEW b \in BOOLEAN, CreateSession(b)
  PROVE  DataOK' /\ Sound(kv)' /\ cmd' = Idle
<1> DEFINE f == [system |-> "", memories |-> <<>>, boundaries |-> {}, kv_persist |-> b]
<1>1. /\ cmd = Idle /\ facts = None /\ facts' = f /\ stored' = f /\ plan' = <<>>
      /\ kv' = kv /\ file' = file /\ manifest' = manifest /\ cmd' = cmd
  BY DEF CreateSession, PersistOk
<1>2. <<>> \in Seq(Texts) /\ Len(<<>>) = 0
  BY EmptySeq
<1>3. Held(f) /\ Len(f.memories) = 0
  BY <1>2, BoundsAssumption DEF Held, Facts
<1> HIDE DEF f
<1>4. f # None /\ PlanOf(<<>>, Len(f.memories))
  BY <1>3, MemoriesOf, EmptyPlan
<1>5. DataOK'
  BY <1>1, <1>3, <1>4 DEF CachesInv, DataOK, ManifestOK
<1>6. plan = None /\ Sound(kv)
  BY <1>1 DEF CachesInv, DataOK
<1>7. NoCaches(kv')
  BY <1>1, <1>6, NoPlanNoCaches
<1> QED
  BY <1>1, <1>5, <1>7, NoCachesSound

LEMMA CreateFailsStep ==
  ASSUME CachesInv, CreateFails
  PROVE  DataOK' /\ Sound(kv)' /\ cmd' = Idle
<1>1. /\ cmd' = Idle /\ UNCHANGED <<facts, plan, kv, file, manifest>>
      /\ stored' = None \/ stored' = Husk
  BY DEF CreateFails, LeftOf
<1> QED
  BY <1>1, SoundStays DEF CachesInv, DataOK, ManifestOK

LEMMA AddSystemStep ==
  ASSUME CachesInv, NEW t \in Systems, AddSystem(t)
  PROVE  DataOK' /\ Sound(kv)' /\ cmd' = Idle
<1> DEFINE f == [facts EXCEPT !.system = t]
<1>1. /\ cmd = Idle /\ facts # None /\ facts' = f /\ stored' \in {f, stored, Husk}
      /\ plan' = None /\ kv' = NoKV /\ UNCHANGED <<file, manifest, cmd>>
  BY DEF AddSystem, Quiet, PersistOk, PersistFails, LeftOf
<1>2. Held(facts)
  BY <1>1 DEF CachesInv, DataOK
<1>3. Held(f)
  BY <1>2 DEF Held, Facts
<1> HIDE DEF f
<1>4. DataOK'
  BY <1>1, <1>3 DEF CachesInv, DataOK, ManifestOK
<1> QED
  BY <1>1, <1>4, ClearedState, NoCachesSound

LEMMA RefreshedTyped ==
  \A f, p : RefreshedMeta(f, p) \in [Segs -> {"absent", "Missing", "DiskOnly", "Resident"}]
BY DEF RefreshedMeta

LEMMA BeginStep ==
  ASSUME CachesInv, NEW op \in Planned, Begin(op)
  PROVE  DataOK' /\ Sound(kv)' /\ StageOK'
<1>1. /\ cmd = Idle /\ facts # None /\ PreparePlan
      /\ cmd' = [op |-> op, at |-> "run", seg |-> 0]
      /\ UNCHANGED <<facts, stored, file, manifest>>
  BY DEF Begin, Quiet
<1>2. DataOK /\ Sound(kv) /\ Held(facts)
  BY <1>1 DEF CachesInv, DataOK
<1>3. CASE plan # None
  <2>1. UNCHANGED <<plan, kv>>
    BY <1>1, <1>3 DEF PreparePlan
  <2> QED
    BY <1>1, <1>2, <1>3, <2>1, DataKept, SoundStays DEF StageOK, Planned
<1>4. CASE plan = None
  <2> DEFINE m == RefreshedMeta(facts, plan')
  <2>1. plan' \in LoadedPlans(facts) /\ kv' = [kv EXCEPT !.meta = m]
    BY <1>1, <1>4 DEF PreparePlan
  <2>2. PlanOf(plan', Len(facts.memories)) /\ plan' # None
    BY <1>2, <2>1, LoadedPlan DEF DataOK
  <2>3. m \in [Segs -> {"absent", "Missing", "DiskOnly", "Resident"}]
    BY RefreshedTyped
  <2> HIDE DEF m
  <2>4. NoCaches(kv')
    BY <1>2, <1>4, <2>1, <2>3, NoPlanNoCaches, ClearedState
  <2>5. DataOK'
    BY <1>1, <1>2, <2>2 DEF DataOK, ManifestOK
  <2>6. StageOK'
    BY <1>1, <2>2 DEF StageOK, Planned
  <2> QED
    BY <2>4, <2>5, <2>6, NoCachesSound
<1> QED
  BY <1>3, <1>4

FirstMemories(f, n) == [f EXCEPT !.memories = SubSeq(@, 1, n)]

LEMMA PartOfMemories ==
  ASSUME NEW f, Held(f), NEW n \in 0..Len(f.memories) - 1
  PROVE  /\ FirstMemories(f, n).memories \in Seq(Texts)
         /\ Len(FirstMemories(f, n).memories) = n
<1>1. f \in Facts /\ f.memories \in Seq(Texts) /\ Len(f.memories) \in Nat
  BY MemoriesOf DEF Held
<1>2. SubSeq(f.memories, 1, n) \in Seq(Texts) /\ Len(SubSeq(f.memories, 1, n)) = n
  BY <1>1
<1>3. FirstMemories(f, n).memories = SubSeq(f.memories, 1, n)
  BY <1>1 DEF Facts, FirstMemories
<1> QED
  BY <1>2, <1>3

LEMMA BeginFailsStep ==
  ASSUME CachesInv, NEW op \in Planned, BeginFails(op)
  PROVE  DataOK' /\ Sound(kv)' /\ cmd' = Idle
<1>1. PICK n \in 0..Len(facts.memories) - 1 :
         plan' \in Partitions(FirstMemories(facts, n))
  BY DEF BeginFails, FirstMemories
<1>2. /\ cmd = Idle /\ facts # None /\ plan = None
      /\ UNCHANGED <<facts, stored, kv, file, manifest, cmd>>
  BY DEF BeginFails, Quiet
<1>3. DataOK /\ Sound(kv) /\ Held(facts)
  BY <1>2 DEF CachesInv, DataOK
<1>4. PlanOf(plan', n)
  BY <1>1, <1>3, PartOfMemories, RebuiltPlan
<1>5. Len(facts.memories) \in Nat
  BY <1>3, MemoriesOf
<1>6. PlanOf(plan', Len(facts.memories))
  BY <1>4, <1>5, PlanMore
<1>7. DataOK'
  BY <1>2, <1>3, <1>6 DEF DataOK, ManifestOK
<1>8. NoCaches(kv')
  BY <1>2, <1>3, NoPlanNoCaches
<1> QED
  BY <1>2, <1>7, <1>8, NoCachesSound

(* The memory after the last one.  The content of a segment it does not    *)
(* join stays, that of the segment it joins grows by it.                   *)
LEMMA AppendedFacts ==
  ASSUME NEW f, Held(f), Len(f.memories) + 1 <= MaxMemories, NEW t \in Texts, NEW h,
         h = [f EXCEPT !.memories = Append(@, t)]
  PROVE  /\ Held(h) /\ h.system = f.system
         /\ Len(h.memories) = Len(f.memories) + 1
         /\ \A i \in 1..Len(f.memories) : h.memories[i] = f.memories[i]
<1>1. f \in Facts /\ f.memories \in Seq(Texts) /\ Len(f.memories) \in Nat
  BY MemoriesOf DEF Held
<1>2. /\ Append(f.memories, t) \in Seq(Texts)
      /\ Len(Append(f.memories, t)) = Len(f.memories) + 1
      /\ \A i \in 1..Len(f.memories) : Append(f.memories, t)[i] = f.memories[i]
  BY <1>1
<1>3. h \in Facts /\ h.memories = Append(f.memories, t) /\ h.system = f.system
  BY <1>1, <1>2 DEF Facts
<1> QED
  BY <1>2, <1>3 DEF Held

LEMMA ContentIsWords == ContentType \subseteq Seq(Words)
<1> DEFINE A == Systems \cup {""}
           M == UNION {[1..n -> Texts] : n \in 1..MaxMemories}
           C(x, y) == <<x>> \o y
<1>1. ContentType = {C(x, y) : x \in A, y \in M}
  BY DEF ContentType
<1>2. A \subseteq Words /\ M \subseteq Seq(Words)
  <2>1. ASSUME NEW n \in 1..MaxMemories, NEW y \in [1..n -> Texts]
        PROVE  y \in Seq(Words)
    <3>1. n \in Nat
      BY BoundsAssumption
    <3>2. y \in [1..n -> Words]
      BY <2>1 DEF Words
    <3> QED
      BY <3>1, <3>2, SeqDef
  <2> QED
    BY <2>1 DEF Words
<1> HIDE DEF A, M, C
<1> SUFFICES ASSUME NEW c \in ContentType PROVE c \in Seq(Words)
  OBVIOUS
<1>3. PICK x \in A, y \in M : c = C(x, y)
  BY <1>1
<1>4. <<x>> \in Seq(Words) /\ y \in Seq(Words)
  BY <1>2
<1> QED
  BY <1>3, <1>4, ConcatProperties DEF C

AddedTo(p, m) == [p EXCEPT ![Len(p)] = Append(@, m)]

LEMMA LastSegmentGrown ==
  ASSUME NEW n \in Nat, NEW p, PlanOf(p, n), p # <<>>
  PROVE  /\ PlanOf(AddedTo(p, n + 1), n + 1) /\ Len(AddedTo(p, n + 1)) = Len(p)
         /\ \A g \in 1..Len(p) : g # Len(p) => AddedTo(p, n + 1)[g] = p[g]
         /\ AddedTo(p, n + 1)[Len(p)] = Append(p[Len(p)], n + 1)
<1> DEFINE q == AddedTo(p, n + 1)
           N == Len(p)
<1>0. n + 1 \in Nat /\ n <= n + 1
  OBVIOUS
<1>1. /\ N \in Nat /\ N <= MaxSegments /\ DOMAIN p = 1..N
      /\ p = [g \in DOMAIN p |-> p[g]] /\ N # 0
      /\ \A g \in 1..N : Within(p[g], n)
  BY PlanFields
<1>2. N \in 1..N
  BY <1>1
<1>3. /\ DOMAIN q = 1..N /\ q = [g \in DOMAIN q |-> q[g]]
      /\ \A g \in 1..N : g # N => q[g] = p[g]
      /\ q[N] = Append(p[N], n + 1)
  BY <1>1, <1>2 DEF AddedTo
<1> HIDE DEF q, N
<1>4. Within(Append(p[N], n + 1), n + 1)
  <2> DEFINE s == p[N]
             r == Append(s, n + 1)
  <2>1. Within(s, n) /\ Within(s, n + 1)
    BY <1>0, <1>1, <1>2, WithinMore
  <2>2. /\ Len(s) \in 1..n /\ DOMAIN s = 1..Len(s)
        /\ \A i \in 1..Len(s) : s[i] \in i..n
    BY <2>1, WithinBounds
  <2>3. s \in Seq(1..(n + 1))
    BY <2>1 DEF Within
  <2> HIDE DEF s
  <2>4. n + 1 \in 1..(n + 1)
    OBVIOUS
  <2>5. r \in Seq(1..(n + 1)) /\ Len(r) = Len(s) + 1 /\ DOMAIN r = 1..Len(s) + 1
    BY <2>2, <2>3, <2>4, AppendProperties, LenProperties
  <2>6. \A i \in 1..Len(s) + 1 : i <= r[i]
    <3> TAKE i \in 1..Len(s) + 1
    <3>1. CASE i \in 1..Len(s)
      <4>1. r[i] = s[i]
        BY <2>3, <3>1, AppendProperties
      <4> QED
        BY <2>2, <3>1, <4>1
    <3>2. CASE i = Len(s) + 1
      <4>1. r[i] = n + 1
        BY <2>3, <3>2, AppendProperties
      <4> QED
        BY <2>2, <3>2, <4>1
    <3> QED
      BY <2>2, <3>1, <3>2
  <2>7. r # <<>>
    BY <2>2, <2>5, EmptySeq
  <2> QED
    BY <2>5, <2>6, <2>7 DEF Within, s
<1>5. \A g \in 1..N : Within(q[g], n + 1)
  BY <1>0, <1>1, <1>3, <1>4, WithinMore
<1> QED
  BY <1>1, <1>3, <1>5, PlanByElements DEF N, q

LEMMA NewSegmentAdded ==
  ASSUME NEW n \in Nat, NEW p, PlanOf(p, n), Len(p) < MaxSegments
  PROVE  /\ PlanOf(Append(p, <<n + 1>>), n + 1)
         /\ DOMAIN p \subseteq DOMAIN Append(p, <<n + 1>>)
         /\ Len(Append(p, <<n + 1>>)) = Len(p) + 1
         /\ \A g \in DOMAIN p : Append(p, <<n + 1>>)[g] = p[g]
         /\ Append(p, <<n + 1>>)[Len(p) + 1] = <<n + 1>>
<1> DEFINE q == Append(p, <<n + 1>>)
           N == Len(p)
<1>0. n + 1 \in Nat /\ n <= n + 1
  OBVIOUS
<1>1. /\ N \in Nat /\ DOMAIN p = 1..N
      /\ \A g \in 1..N : Within(p[g], n)
      /\ p \in Seq(Seq(1..n))
  BY PlanFields DEF PlanOf
<1>2. /\ Within(<<n + 1>>, n + 1)
  BY DEF Within
<1>3. p \in Seq(Seq(1..n) \cup {<<n + 1>>})
  <2>1. p \in [1..N -> Seq(1..n)]
    BY <1>1, LenProperties
  <2> QED
    BY <1>1, <2>1, SeqDef
<1>4. /\ q \in Seq(Seq(1..n) \cup {<<n + 1>>}) /\ Len(q) = N + 1
      /\ \A g \in 1..N : q[g] = p[g]
      /\ q[N + 1] = <<n + 1>>
  BY <1>3, AppendProperties
<1>5. DOMAIN q = 1..N + 1 /\ q = [g \in DOMAIN q |-> q[g]]
  BY <1>1, <1>4, LenProperties
<1>8. N + 1 \in Nat /\ N + 1 <= MaxSegments
  BY <1>1, BoundsAssumption
<1> HIDE DEF q, N
<1>6. \A g \in 1..N + 1 : Within(q[g], n + 1)
  <2> TAKE g \in 1..N + 1
  <2>1. g \in 1..N \/ g = N + 1
    BY <1>1
  <2> QED
    BY <1>0, <1>1, <1>2, <1>4, <2>1, WithinMore
<1>7. PlanOf(q, n + 1)
  BY <1>0, <1>5, <1>6, <1>8, PlanByElements
<1> QED
  BY <1>1, <1>4, <1>5, <1>7 DEF q, N

(* The memories appended: what a segment holds. *)
LEMMA GrownContents ==
  ASSUME DataOK, plan # None, Next1 <= MaxMemories, NEW t \in Texts, facts' = Appended(t)
  PROVE  /\ Held(facts)' /\ facts' # None
         /\ Len(facts.memories) \in Nat /\ Len(facts'.memories) = Next1
         /\ PlanOf(plan, Len(facts.memories))
         /\ \A g \in DOMAIN plan : plan'[g] = plan[g] => Content(g)' = Content(g)
         /\ \A g \in DOMAIN plan : plan'[g] = Append(plan[g], Next1) =>
               ProperPrefix(Content(g), Content(g)')
<1> DEFINE n == Len(facts.memories)
<1>1. Held(facts) /\ PlanOf(plan, n) /\ n \in Nat
  BY MemoriesOf DEF DataOK
<1>2. /\ Held(facts') /\ facts'.system = facts.system /\ Len(facts'.memories) = n + 1
      /\ \A i \in 1..n : facts'.memories[i] = facts.memories[i]
  BY <1>1, AppendedFacts DEF Appended, Next1
<1>3. facts \in Facts /\ facts' \in Facts /\ facts' # None
  BY <1>1, <1>2, NoneAssumption DEF Held
<1>4. ASSUME NEW g \in DOMAIN plan
      PROVE  /\ ContentOf(facts', plan[g]) = ContentOf(facts, plan[g])
             /\ ProperPrefix(ContentOf(facts, plan[g]),
                             ContentOf(facts', Append(plan[g], n + 1)))
  <2>1. plan[g] \in Seq(1..n)
    BY <1>1, <1>4, PlanFields DEF Within
  <2>2. n <= n + 1 /\ n < n + 1 /\ n + 1 \in 1..n + 1
    BY <1>1
  <2> QED
    BY <1>2, <1>3, <2>1, <2>2, ContentKept, ContentGrows
<1> QED
  BY <1>1, <1>2, <1>3, <1>4 DEF Held, Content, Next1

(* What an addition to the last segment makes of the caches k: its KV is   *)
(* the prefix of what it will be, and nothing is resident for it.          *)
LEMMA StagedSound ==
  ASSUME DataOK, plan # None, plan # <<>>, NEW L, L = Last,
         NEW k, Sound(k), k.active = None, Apart(k, 0), kv' = Staged(k, L),
         DOMAIN plan' = DOMAIN plan, plan' # None,
         \A g \in DOMAIN plan : g # L => Content(g)' = Content(g),
         ProperPrefix(Content(L), Content(L)'),
         Content(L)' \in ContentType
  PROVE  Sound(kv)'
<1> DEFINE j == Staged(k, L)
<1>1. /\ k \in KVStates /\ Current(k)
      /\ k.resident \in HandleMaps /\ k.prefix \in HandleMaps
      /\ \A g \in Segs : /\ k.resident[g] \in Handles \cup {None}
                         /\ k.prefix[g] \in Handles \cup {None}
  BY StateFields DEF Sound
<1>2. L \in DOMAIN plan /\ L \in Segs /\ Content(L) \in ContentType
  <2>1. Len(facts.memories) \in Nat
    BY MemoriesOf DEF DataOK
  <2>2. Len(plan) \in Nat /\ DOMAIN plan = 1..Len(plan) /\ Len(plan) # 0
    BY <2>1, PlanFields DEF DataOK
  <2>3. L \in DOMAIN plan
    BY <2>2 DEF Last
  <2> QED
    BY <2>3, TargetOf DEF DataOK, Target
<1>3. /\ j \in KVStates /\ j.active = None
      /\ j.resident[L] = None
      /\ \A g \in Segs : g # L => j.resident[g] = k.resident[g] /\ j.prefix[g] = k.prefix[g]
      /\ j.prefix[L] = IF k.resident[L] = None THEN k.prefix[L] ELSE k.resident[L]
  <2>1. CASE k.resident[L] = None
    <3>1. j = k
      BY <2>1 DEF Staged
    <3> HIDE DEF j
    <3> QED
      BY <1>1, <2>1, <3>1
  <2>2. CASE k.resident[L] # None
    <3> DEFINE p == [k.prefix EXCEPT ![L] = k.resident[L]]
               r == [k.resident EXCEPT ![L] = None]
    <3>1. j = [k EXCEPT !.prefix = p, !.resident = r]
      BY <2>2 DEF Staged
    <3>2. /\ p \in HandleMaps /\ r \in HandleMaps
          /\ p[L] = k.resident[L] /\ r[L] = None
          /\ \A g \in Segs : g # L => r[g] = k.resident[g] /\ p[g] = k.prefix[g]
      BY <1>1, <1>2 DEF HandleMaps
    <3> HIDE DEF p, r, j
    <3>3. j \in KVStates /\ j.prefix = p /\ j.resident = r /\ j.active = k.active
      BY <1>1, <3>1, <3>2 DEF KVStates, HandleMaps
    <3> QED
      BY <2>2, <3>2, <3>3
  <2> QED
    BY <2>1, <2>2
<1>4. kv' = j
  OBVIOUS
<1>5. \A g \in Segs : ~IsLive(k.resident[g]) /\ ~IsLive(k.prefix[g])
  <2>1. 0 \notin Segs
    BY BoundsAssumption DEF Segs
  <2> QED
    BY <2>1 DEF Apart
<1> HIDE DEF j
<1>6. OneLive(j)
  <2>1. ASSUME NEW g \in Segs PROVE ~IsLive(j.resident[g]) /\ ~IsLive(j.prefix[g])
    <3>1. CASE g = L
      BY <1>2, <1>3, <1>5, <3>1 DEF IsLive
    <3>2. CASE g # L
      BY <1>3, <1>5, <3>2, <2>1 DEF IsLive
    <3> QED
      BY <3>1, <3>2
  <2> QED
    BY <2>1 DEF OneLive
<1>7. ASSUME NEW g \in Segs, j.resident[g] # None
      PROVE  /\ plan' # None /\ g \in DOMAIN plan'
             /\ j.resident[g].content = Content(g)'
             /\ ~UseNative => j.resident[g].snap
  <2>1. g # L /\ j.resident[g] = k.resident[g]
    BY <1>3, <1>7
  <2>2. Content(g)' = Content(g) /\ g \in DOMAIN plan
    BY <1>1, <1>7, <2>1 DEF Current
  <2> QED
    BY <1>1, <1>7, <2>1, <2>2 DEF Current
<1>8. ASSUME NEW g \in Segs, j.prefix[g] # None
      PROVE  /\ plan' # None /\ g \in DOMAIN plan'
             /\ ProperPrefix(j.prefix[g].content, Content(g)')
             /\ ~UseNative => j.prefix[g].snap
  <2>1. CASE g # L
    <3>1. j.prefix[g] = k.prefix[g]
      BY <1>3, <1>8, <2>1
    <3>2. Content(g)' = Content(g) /\ g \in DOMAIN plan
      BY <1>1, <1>8, <2>1, <3>1 DEF Current
    <3> QED
      BY <1>1, <1>8, <3>1, <3>2 DEF Current
  <2>2. CASE g = L /\ k.resident[L] # None
    <3>1. /\ j.prefix[g] = k.resident[L]
          /\ k.resident[L].content = Content(L)
          /\ ~UseNative => k.resident[L].snap
      BY <1>1, <1>2, <1>3, <2>2 DEF Current
    <3> QED
      BY <1>2, <2>2, <3>1
  <2>3. CASE g = L /\ k.resident[L] = None
    <3>1. /\ j.prefix[g] = k.prefix[L] /\ k.prefix[L] \in Handles
          /\ ProperPrefix(k.prefix[L].content, Content(L))
          /\ ~UseNative => k.prefix[L].snap
      BY <1>1, <1>2, <1>3, <1>8, <2>3 DEF Current
    <3>2. /\ k.prefix[L].content \in Seq(Words) /\ Content(L) \in Seq(Words)
          /\ Content(L)' \in Seq(Words)
      BY <1>2, <3>1, ContentIsWords DEF Handles
    <3>3. ProperPrefix(k.prefix[L].content, Content(L)')
      BY <3>1, <3>2, PrefixTransitive
    <3> QED
      BY <1>2, <2>3, <3>1, <3>3
  <2> QED
    BY <2>1, <2>2, <2>3
<1>9. Current(kv)'
  BY <1>3, <1>4, <1>7, <1>8 DEF Current
<1> QED
  BY <1>3, <1>4, <1>6, <1>9 DEF Sound, OneLive

LEMMA AddToLastSegmentStep ==
  ASSUME CachesInv, NEW t \in Texts, AddToLastSegment(t)
  PROVE  DataOK' /\ Sound(kv)' /\ cmd' = Idle
<1> DEFINE n == Len(facts.memories)
<1>1. /\ cmd.op = "add" /\ n + 1 <= MaxMemories /\ plan # <<>>
      /\ plan' = [plan EXCEPT ![Last] = Append(@, Next1)]
      /\ kv' = Staged(Deactivated(MarkedMissing(kv, Last)), Last)
      /\ facts' = Appended(t) /\ cmd' = Idle
      /\ UNCHANGED <<stored, file, manifest>>
  BY DEF AddToLastSegment, Running, Return, Next1
<1>2. DataOK /\ Sound(kv) /\ plan # None
  BY <1>1 DEF CachesInv, StageOK, Planned
<1>3. /\ Held(facts') /\ facts' # None /\ n \in Nat /\ Len(facts'.memories) = n + 1
      /\ PlanOf(plan, n)
      /\ \A g \in DOMAIN plan : plan'[g] = plan[g] => Content(g)' = Content(g)
      /\ \A g \in DOMAIN plan : plan'[g] = Append(plan[g], n + 1) =>
            ProperPrefix(Content(g), Content(g)')
  BY <1>1, <1>2, GrownContents DEF Next1
<1>4. PICK L : L = Len(plan)
  OBVIOUS
<1>5. /\ PlanOf(plan', n + 1) /\ Len(plan') = L
      /\ \A g \in 1..L : g # L => plan'[g] = plan[g]
      /\ plan'[L] = Append(plan[L], n + 1)
  <2>1. plan' = AddedTo(plan, n + 1)
    BY <1>1 DEF AddedTo, Last, Next1
  <2> HIDE DEF n
  <2>2. /\ PlanOf(AddedTo(plan, n + 1), n + 1) /\ Len(AddedTo(plan, n + 1)) = Len(plan)
        /\ \A g \in 1..Len(plan) : g # Len(plan) => AddedTo(plan, n + 1)[g] = plan[g]
        /\ AddedTo(plan, n + 1)[Len(plan)] = Append(plan[Len(plan)], n + 1)
    BY <1>1, <1>3, LastSegmentGrown
  <2> QED
    BY <1>4, <2>1, <2>2
<1>6. n + 1 \in Nat
  BY <1>3
<1>7. DOMAIN plan = 1..L /\ DOMAIN plan' = 1..L /\ L \in Nat /\ L # 0 /\ DOMAIN plan \subseteq Segs
  BY <1>1, <1>3, <1>4, <1>5, <1>6, PlanFields
<1>8. DataOK'
  BY <1>1, <1>2, <1>3, <1>5 DEF DataOK, ManifestOK
<1>9. plan' # None
  BY <1>1, <1>5, <1>6, PlanTyped
<1>10. L \in DOMAIN plan /\ L \in DOMAIN plan' /\ L \in Segs
  BY <1>7
<1>11. Content(L)' \in ContentType
  <2>1. facts' \in Facts /\ Len(facts'.memories) <= MaxMemories
    BY <1>3 DEF Held
  <2>2. Within(plan'[L], n + 1)
    BY <1>5, <1>6, <1>10, PlanFields
  <2> QED
    BY <1>3, <2>1, <2>2, ContentTyped DEF Content
<1> DEFINE m == MarkedMissing(kv, L)
           d == Deactivated(m)
<1>12. Sound(m)
  BY <1>2, <1>10, StatusSet, StatusOnly DEF Sound
<1>13. Sound(d) /\ d.active = None /\ Apart(d, 0)
  BY <1>12, DeactivatedSound
<1>14. kv' = Staged(d, L)
  BY <1>1, <1>4 DEF Last
<1> HIDE DEF d, m, n
<1>15. /\ ProperPrefix(Content(L), Content(L)')
       /\ \A g \in DOMAIN plan : g # L => Content(g)' = Content(g)
  BY <1>3, <1>5, <1>7, <1>10
<1>16. L = Last
  BY <1>4 DEF Last
<1>17. Sound(kv)'
  BY <1>1, <1>2, <1>7, <1>9, <1>11, <1>13, <1>14, <1>15, <1>16, StagedSound
<1> QED
  BY <1>1, <1>8, <1>17

LEMMA AddInNewSegmentStep ==
  ASSUME CachesInv, NEW t \in Texts, AddInNewSegment(t)
  PROVE  DataOK' /\ Sound(kv)' /\ cmd' = Idle
<1> DEFINE n == Len(facts.memories)
           N == Len(plan)
<1>1. /\ cmd.op = "add" /\ n + 1 <= MaxMemories /\ N < MaxSegments
      /\ plan' = Append(plan, <<n + 1>>)
      /\ kv' = Deactivated(MarkedMissing(kv, N + 1))
      /\ facts' = Appended(t) /\ cmd' = Idle
      /\ stored' \in {facts', stored, Husk}
      /\ UNCHANGED <<file, manifest>>
  BY DEF AddInNewSegment, Running, Return, Next1, Last, PersistOk, PersistFails, LeftOf
<1>2. DataOK /\ Sound(kv) /\ plan # None
  BY <1>1 DEF CachesInv, StageOK, Planned
<1>3. /\ Held(facts') /\ facts' # None /\ n \in Nat /\ Len(facts'.memories) = n + 1
      /\ PlanOf(plan, n)
      /\ \A g \in DOMAIN plan : plan'[g] = plan[g] => Content(g)' = Content(g)
  BY <1>1, <1>2, GrownContents DEF Next1
<1>4. /\ PlanOf(plan', n + 1) /\ DOMAIN plan \subseteq DOMAIN plan'
      /\ \A g \in DOMAIN plan : plan'[g] = plan[g]
  BY <1>1, <1>3, NewSegmentAdded
<1>5. DataOK'
  BY <1>1, <1>2, <1>3, <1>4 DEF DataOK, ManifestOK
<1>6. plan' # None
  <2>1. n + 1 \in Nat
    BY <1>3
  <2> QED
    BY <1>1, <1>4, <2>1, PlanTyped
<1>7. N + 1 \in Segs
  BY <1>1, <1>3, PlanFields, BoundsAssumption DEF Segs
<1> DEFINE m == MarkedMissing(kv, N + 1)
           d == Deactivated(m)
<1>8. Sound(m)
  BY <1>2, <1>7, StatusSet, StatusOnly DEF Sound
<1>9. Sound(d)
  BY <1>8, DeactivatedSound
<1>10. kv' = d
  BY <1>1
<1> HIDE DEF d
<1>11. Sound(kv)'
  BY <1>3, <1>4, <1>6, <1>9, <1>10, SoundKept
<1> QED
  BY <1>1, <1>5, <1>11

(* The facts keep their memories: next_segment, and the end of a save. *)
LEMMA SameMemories ==
  ASSUME DataOK, facts # None, NEW f \in Facts, facts' = f,
         f.system = facts.system, f.memories = facts.memories,
         stored' \in {f, stored, Husk}, UNCHANGED <<plan, file, manifest>>
  PROVE  DataOK'
<1>1. Held(f)
  BY DEF DataOK, Held
<1>2. f # None
  BY NoneAssumption
<1> QED
  BY <1>1, <1>2 DEF DataOK, ManifestOK

LEMMA NextSegmentStep ==
  ASSUME CachesInv, NextSegment
  PROVE  DataOK' /\ Sound(kv)' /\ cmd' = Idle
<1> DEFINE f == [facts EXCEPT !.boundaries = @ \cup {Next1}]
<1>1. /\ cmd.op = "next" /\ kv' = Deactivated(kv) /\ facts' = f /\ cmd' = Idle
      /\ stored' \in {f, stored, Husk}
      /\ UNCHANGED <<plan, file, manifest>>
  BY DEF NextSegment, Running, Return, PersistOk, PersistFails, LeftOf
<1>2. DataOK /\ Sound(kv) /\ plan # None /\ facts # None /\ Held(facts)
  BY <1>1 DEF CachesInv, StageOK, DataOK, Planned
<1>3. facts \in Facts /\ Len(facts.memories) \in Nat /\ Len(facts.memories) <= MaxMemories
  BY <1>2, MemoriesOf DEF Held
<1>4. Next1 \in 1..MaxMemories + 1
  BY <1>3, BoundsAssumption DEF Next1
<1>5. f \in Facts /\ f.system = facts.system /\ f.memories = facts.memories
  BY <1>3, <1>4 DEF Facts
<1> HIDE DEF f
<1>6. DataOK'
  BY <1>1, <1>2, <1>5, SameMemories
<1>7. Sound(Deactivated(kv))
  BY <1>2, DeactivatedSound
<1> QED
  BY <1>1, <1>5, <1>6, <1>7, SoundStays

(* What every stage of a command finds. *)
LEMMA AtStage ==
  ASSUME FactsInv, CachesInv,
         cmd.at \in {"segment", "file", "manifest", "build", "activate", "infer"}
  PROVE  /\ cmd.op \in Planned /\ plan # None /\ facts # None /\ Held(facts)
         /\ DataOK /\ Sound(kv) /\ cmd.seg \in Nat
         /\ \A g \in DOMAIN plan : Target(g) /\ g \in Segs
<1>1. CmdOK /\ (cmd # Idle => facts # None)
      /\ (cmd.op = "delete" => cmd.at \in {"cache", "kept"})
  BY DEF FactsInv
<1>2. DataOK /\ Sound(kv) /\ StageOK
  BY DEF CachesInv
<1>3. cmd # Idle
  BY DEF Idle
<1>4. cmd.op \in Planned
  BY <1>1, <1>2, <1>3 DEF StageOK, CmdOK
<1>5. plan # None /\ facts # None /\ Held(facts) /\ cmd.seg \in Nat
  BY <1>1, <1>2, <1>3, <1>4 DEF StageOK, DataOK, CmdOK
<1>6. ASSUME NEW g \in DOMAIN plan
      PROVE  Target(g) /\ g \in Segs
  BY <1>2, <1>5, <1>6, TargetOf DEF DataOK, Target
<1> QED
  BY <1>2, <1>4, <1>5, <1>6

LEMMA GoneTo ==
  ASSUME FactsInv, NEW at, NEW seg, Goto(at, seg)
  PROVE  cmd' = [op |-> cmd.op, at |-> at, seg |-> seg] /\ reply' = reply
BY DEF FactsInv, CmdOK, Goto

LEMMA StageReached ==
  ASSUME FactsInv, cmd.op \in Planned, plan' # None, NEW at, NEW seg, Goto(at, seg),
         at \in {"file", "manifest", "infer"} => seg \in DOMAIN plan',
         at = "file" => kv'.resident[seg] # None,
         at = "infer" => Usable(kv', seg)
  PROVE  StageOK'
<1>1. cmd' = [op |-> cmd.op, at |-> at, seg |-> seg]
  BY GoneTo
<1>2. cmd'.op # "idle"
  BY <1>1 DEF Planned
<1> QED
  BY <1>1, <1>2 DEF StageOK, Usable

LEMMA PersistEndStep ==
  ASSUME FactsInv, CachesInv, PersistEnd
  PROVE  DataOK' /\ Sound(kv)' /\ cmd' = Idle
<1> DEFINE f == [facts EXCEPT !.kv_persist = TRUE]
<1>1. /\ cmd' = Idle /\ UNCHANGED <<plan, kv, file, manifest>> /\ cmd.at = "segment"
      /\ \/ UNCHANGED <<facts, stored>>
         \/ facts' = f /\ stored' \in {f, stored, Husk}
  BY DEF PersistEnd, Return, PersistOk, PersistFails, LeftOf
<1>2. DataOK /\ Sound(kv) /\ facts # None /\ Held(facts)
  BY <1>1, AtStage
<1>3. CASE UNCHANGED <<facts, stored>>
  BY <1>1, <1>2, <1>3, DataKept, SoundStays
<1>4. CASE facts' = f /\ stored' \in {f, stored, Husk}
  <2>1. f \in Facts /\ f.system = facts.system /\ f.memories = facts.memories
    BY <1>2 DEF Held, Facts
  <2> HIDE DEF f
  <2> QED
    BY <1>1, <1>2, <1>4, <2>1, SameMemories, SoundStays
<1> QED
  BY <1>1, <1>3, <1>4

LEMMA IndexOrSaveStep ==
  ASSUME FactsInv, CachesInv, NEW op \in {"index", "save"}, NEW deactivate \in BOOLEAN,
         IndexOrSave(op, deactivate)
  PROVE  DataOK' /\ Sound(kv)' /\ StageOK'
<1>1. /\ cmd.op = op /\ UNCHANGED <<facts, plan, file, manifest>>
      /\ stored' \in {facts, stored, Husk}
      /\ kv' = kv \/ kv' = Deactivated(kv)
      /\ \/ cmd' = Idle
         \/ Goto("segment", 1)
         \/ Goto("build", 1)
  BY DEF IndexOrSave, Running, PersistIfDirty, PersistOk, PersistFails, Return, LeftOf
<1>2. DataOK /\ Sound(kv) /\ plan # None
  BY <1>1 DEF CachesInv, StageOK, Planned
<1>3. DataOK'
  BY <1>1, <1>2 DEF DataOK, ManifestOK
<1>4. Sound(Deactivated(kv))
  BY <1>2, DeactivatedSound
<1>5. Sound(kv)'
  BY <1>1, <1>2, <1>4, SoundStays
<1>6. StageOK'
  <2>1. cmd.op \in Planned
    BY <1>1 DEF Planned
  <2> QED
    BY <1>1, <1>2, <2>1, CommandEnded, StageReached
<1> QED
  BY <1>3, <1>5, <1>6

(* The stages that prepare a segment. *)
LEMMA PreparingStep ==
  ASSUME FactsInv, CachesInv, IndexResidentSegment \/ PersistSegment
  PROVE  DataOK' /\ Sound(kv)' /\ StageOK'
<1>1. /\ cmd.at \in {"build", "segment"} /\ cmd.seg \in DOMAIN plan
      /\ UNCHANGED <<facts, stored, plan, file, manifest>>
      /\ \/ kv' = kv /\ (Goto("build", cmd.seg + 1) \/ Goto("manifest", cmd.seg))
         \/ \E o \in PrepareResidentSegment(kv, cmd.seg, TRUE) :
               /\ kv' = o.kv
               /\ \/ cmd' = Idle
                  \/ Goto("build", cmd.seg + 1)
                  \/ o.ok /\ Goto("file", cmd.seg)
  BY DEF IndexResidentSegment, PersistSegment, Running, Return
<1>2. /\ cmd.op \in Planned /\ plan # None /\ DataOK /\ Sound(kv)
      /\ Target(cmd.seg) /\ cmd.seg \in Segs
  BY <1>1, AtStage
<1>3. DataOK'
  BY <1>1, <1>2, DataKept
<1>4. CASE kv' = kv /\ (Goto("build", cmd.seg + 1) \/ Goto("manifest", cmd.seg))
  BY <1>1, <1>2, <1>3, <1>4, SoundStays, StageReached
<1>5. ASSUME NEW o \in PrepareResidentSegment(kv, cmd.seg, TRUE), kv' = o.kv,
             \/ cmd' = Idle
             \/ Goto("build", cmd.seg + 1)
             \/ o.ok /\ Goto("file", cmd.seg)
      PROVE  Sound(kv)' /\ StageOK'
  <2>1. After(kv, cmd.seg, o)
    BY <1>2, <1>5, PreparedAfter
  <2>2. Sound(o.kv) /\ (o.ok => o.kv.resident[cmd.seg] # None)
    BY <2>1, NoneIsNoHandle DEF After
  <2>3. Sound(kv)'
    BY <1>1, <1>5, <2>2, SoundStays
  <2>4. StageOK'
    BY <1>1, <1>2, <1>5, <2>2, CommandEnded, StageReached
  <2> QED
    BY <2>3, <2>4
<1> QED
  BY <1>1, <1>3, <1>4, <1>5

(* The export leaves the snapshot with the handle. *)
Exported(k, g) == [k EXCEPT !.resident[g].snap = TRUE]

LEMMA ExportedSound ==
  ASSUME NEW k, Sound(k), NEW g \in Segs, k.resident[g] # None
  PROVE  Sound(Exported(k, g)) /\ Exported(k, g).meta = k.meta
<1> DEFINE h == [k.resident[g] EXCEPT !.snap = TRUE]
           r == [k.resident EXCEPT ![g] = h]
           j == Exported(k, g)
<1>1. /\ k \in KVStates /\ Current(k) /\ OneLive(k)
      /\ k.resident \in HandleMaps /\ k.resident[g] \in Handles
  BY StateFields DEF Sound
<1>2. /\ h \in Handles /\ h.content = k.resident[g].content /\ h.snap = TRUE
      /\ h.live = k.resident[g].live
  BY <1>1 DEF Handles
<1>3. j = [k EXCEPT !.resident = r]
  BY <1>1 DEF Exported, HandleMaps
<1> HIDE DEF h, j
<1>4. r \in HandleMaps /\ \A i \in Segs : r[i] = IF i = g THEN h ELSE k.resident[i]
  BY <1>1, <1>2 DEF HandleMaps
<1> HIDE DEF r
<1>5. /\ j \in KVStates /\ j.resident = r /\ j.prefix = k.prefix /\ j.active = k.active
      /\ j.meta = k.meta
  BY <1>1, <1>3, <1>4 DEF KVStates, HandleMaps
<1>6. h # None
  BY <1>2, NoneIsNoHandle
<1>7. Current(j)
  <2>1. ASSUME NEW i \in Segs, r[i] # None
        PROVE  /\ plan # None /\ i \in DOMAIN plan /\ r[i].content = Content(i)
               /\ ~UseNative => r[i].snap
    BY <1>1, <1>2, <1>4, <2>1 DEF Current
  <2> QED
    BY <1>1, <1>5, <2>1 DEF Current
<1>8. OneLive(j)
  <2>1. \A i \in Segs : IsLive(r[i]) => IsLive(k.resident[i])
    BY <1>1, <1>2, <1>4 DEF IsLive
  <2> QED
    BY <1>1, <1>5, <2>1 DEF OneLive
<1> QED
  BY <1>5, <1>7, <1>8 DEF Sound, j

LEMMA PersistFileStep ==
  ASSUME FactsInv, CachesInv, PersistFile
  PROVE  DataOK' /\ Sound(kv)' /\ StageOK'
<1> DEFINE g == cmd.seg
           marked == NowResident(kv, g)
<1>0. /\ cmd.at = "file" /\ UNCHANGED <<facts, stored, plan, manifest>>
      /\ \/ UNCHANGED <<kv, file>> /\ Goto("manifest", g)
         \/ /\ file' = [file EXCEPT ![g] = kv.resident[g].content]
            /\ kv' = Exported(marked, g)
            /\ Goto("manifest", g)
         \/ file' = [file EXCEPT ![g] = None] /\ kv' = marked /\ cmd' = Idle
  BY DEF PersistFile, Exported, Return
<1>1. /\ cmd.op \in Planned /\ plan # None /\ DataOK /\ Sound(kv)
      /\ g \in DOMAIN plan /\ g \in Segs /\ kv.resident[g] # None
  BY <1>0, AtStage DEF CachesInv, StageOK
<1>2. kv.resident[g] \in Handles /\ kv \in KVStates
  BY <1>1, StateFields DEF Sound
<1>3. SameBut(kv, marked, g)
  BY <1>1, <1>2, StatusSet
<1> HIDE DEF marked, g
<1>4. Sound(marked) /\ marked.resident[g] # None
  BY <1>1, <1>3, StatusOnly DEF SameBut
<1>5. Sound(Exported(marked, g))
  BY <1>1, <1>4, ExportedSound
<1>6. Sound(kv)'
  BY <1>0, <1>1, <1>4, <1>5, SoundStays
<1>7. file' \in [Segs -> ContentType \cup {None}]
  BY <1>0, <1>1, <1>2 DEF DataOK, Handles
<1>8. DataOK'
  BY <1>0, <1>1, <1>7 DEF DataOK, ManifestOK
<1>9. StageOK'
  BY <1>0, <1>1, CommandEnded, StageReached
<1> QED
  BY <1>6, <1>8, <1>9

LEMMA PersistManifestStep ==
  ASSUME FactsInv, CachesInv, PersistManifest
  PROVE  DataOK' /\ Sound(kv)' /\ StageOK'
<1> DEFINE g == cmd.seg
           list == [i \in 1..g |-> HashOf(facts, plan[i])]
<1>1. /\ cmd.at = "manifest" /\ UNCHANGED <<facts, stored, plan, kv, file>>
      /\ \/ manifest' = list /\ Goto("segment", g + 1)
         \/ manifest' = manifest /\ cmd' = Idle
  BY DEF PersistManifest, Return
<1>2. /\ cmd.op \in Planned /\ plan # None /\ DataOK /\ Sound(kv) /\ Held(facts) /\ facts # None
      /\ g \in DOMAIN plan /\ g \in Segs
  BY <1>1, AtStage DEF CachesInv, StageOK
<1>3. DOMAIN plan = 1..Len(plan) /\ Len(plan) \in Nat /\ Len(plan) <= MaxSegments
  BY <1>2, MemoriesOf, PlanFields DEF DataOK
<1>4. g \in Nat /\ g <= MaxSegments /\ \A i \in 1..g : i \in DOMAIN plan
  BY <1>2, <1>3, BoundsAssumption
<1> HIDE DEF g
<1>5. \A i \in 1..g : HashOf(facts, plan[i]) \in [indices : Segments, content : ContentType]
  BY <1>2, <1>4, TargetOf DEF DataOK
<1>6. list \in [1..g -> [indices : Segments, content : ContentType]]
  BY <1>5
<1>7. list \in Manifests /\ Len(list) = g
  BY <1>4, <1>6, SeqDef DEF Manifests
<1> HIDE DEF list
<1>8. DataOK'
  BY <1>1, <1>2, <1>4, <1>7 DEF DataOK, ManifestOK
<1>9. Sound(kv)'
  BY <1>1, <1>2, SoundStays
<1>10. StageOK'
  BY <1>1, <1>2, CommandEnded, StageReached
<1> QED
  BY <1>8, <1>9, <1>10

LEMMA SearchStep ==
  ASSUME FactsInv, CachesInv, Search
  PROVE  DataOK' /\ Sound(kv)' /\ StageOK'
<1>1. /\ cmd.op = "search" /\ UNCHANGED <<facts, dirty, stored, plan, kv, file, manifest>>
      /\ cmd' = Idle \/ Goto("activate", 1)
  BY DEF Search, Running, Return
<1>2. cmd.op \in Planned
  BY <1>1 DEF Planned
<1>3. DataOK /\ Sound(kv) /\ plan # None
  BY <1>2 DEF CachesInv, StageOK
<1> QED
  BY <1>1, <1>2, <1>3, DataKept, SoundStays, CommandEnded, StageReached

LEMMA SearchActivateStep ==
  ASSUME FactsInv, CachesInv, SearchActivate
  PROVE  DataOK' /\ Sound(kv)' /\ StageOK'
<1>1. /\ cmd.at = "activate" /\ cmd.seg \in DOMAIN plan
      /\ UNCHANGED <<facts, stored, plan, file, manifest>>
  BY DEF SearchActivate, Running
<1>2. PICK o \in ActivateForSearch(kv, cmd.seg) :
         IF o.ok THEN kv' = o.kv /\ Goto("infer", cmd.seg)
                 ELSE kv' = Deactivated(o.kv) /\ cmd' = Idle
  BY DEF SearchActivate, Return
<1>3. /\ cmd.op \in Planned /\ plan # None /\ DataOK /\ Sound(kv)
      /\ Target(cmd.seg) /\ cmd.seg \in Segs
  BY <1>1, AtStage
<1>4. ActivatedAfter(kv, cmd.seg, o)
  BY <1>2, <1>3, SearchActivated
<1>5. Sound(o.kv) /\ Sound(Deactivated(o.kv)) /\ (o.ok => Usable(o.kv, cmd.seg))
  BY <1>4, DeactivatedSound DEF ActivatedAfter
<1>6. DataOK'
  BY <1>1, <1>3, DataKept
<1>7. Sound(kv)'
  BY <1>1, <1>2, <1>5, SoundStays
<1>8. StageOK'
  BY <1>1, <1>2, <1>3, <1>5, CommandEnded, StageReached
<1> QED
  BY <1>6, <1>7, <1>8

(* Streaming: the segment searched leaves memory. *)
Dropped(k, g) == [k EXCEPT !.resident[g] = None, !.prefix[g] = None]

LEMMA DroppedSound ==
  ASSUME NEW k, Sound(k), NEW g \in Segs
  PROVE  /\ Sound(Demoted(Dropped(k, g), g))
         /\ \A h \in Segs : h # g => Demoted(Dropped(k, g), g).meta[h] = k.meta[h]
<1> DEFINE j == Dropped(k, g)
           d == Demoted(j, g)
<1>1. k \in KVStates /\ Current(k) /\ OneLive(k)
  BY DEF Sound
<1>2. /\ j \in KVStates /\ j.active = k.active /\ j.meta = k.meta
      /\ \A h \in Segs : /\ j.resident[h] = k.resident[h] \/ j.resident[h] = None
                         /\ j.prefix[h] = k.prefix[h] \/ j.prefix[h] = None
  BY <1>1 DEF Dropped, KVStates
<1> HIDE DEF j
<1>3. Fewer(k, j)
  BY <1>2 DEF Fewer, Less
<1>4. Sound(j)
  BY <1>1, <1>2, <1>3, FewerCurrent, FewerLive DEF Sound
<1>5. SameBut(j, d, g)
  <2>1. ASSUME NEW v \in {"absent", "Missing", "DiskOnly", "Resident"}
        PROVE  SameBut(j, [j EXCEPT !.meta[g] = v], g)
    BY <1>2, <2>1 DEF KVStates, SameBut
  <2>2. d = j \/ d = [j EXCEPT !.meta[g] = "DiskOnly"] \/ d = [j EXCEPT !.meta[g] = "Missing"]
    BY DEF Demoted
  <2>3. SameBut(j, j, g)
    BY <1>2 DEF SameBut
  <2> HIDE DEF d
  <2> QED
    BY <2>1, <2>2, <2>3
<1>6. Sound(d)
  BY <1>4, <1>5, StatusOnly
<1> QED
  BY <1>2, <1>5, <1>6 DEF SameBut, d, j

LEMMA SearchInferStep ==
  ASSUME FactsInv, CachesInv, SearchInfer
  PROVE  DataOK' /\ Sound(kv)' /\ StageOK'
<1>1. /\ cmd.at = "infer" /\ UNCHANGED <<facts, stored, plan, file, manifest>>
      /\ \/ kv' = Deactivated(kv) /\ cmd' = Idle
         \/ kv' = Deactivated(Demoted(Dropped(kv, cmd.seg), cmd.seg)) /\ Goto("activate", cmd.seg + 1)
         \/ kv' = kv /\ Goto("activate", cmd.seg + 1)
  BY DEF SearchInfer, Running, Return, Dropped
<1>2. /\ cmd.op \in Planned /\ plan # None /\ DataOK /\ Sound(kv)
      /\ cmd.seg \in Segs
  BY <1>1, AtStage DEF CachesInv, StageOK
<1>3. /\ Sound(Deactivated(kv))
      /\ Sound(Deactivated(Demoted(Dropped(kv, cmd.seg), cmd.seg)))
  BY <1>2, DroppedSound, DeactivatedSound
<1>4. Sound(kv)'
  BY <1>1, <1>2, <1>3, SoundStays
<1> QED
  BY <1>1, <1>2, <1>4, DataKept, CommandEnded, StageReached

LEMMA ClearSessionStep ==
  ASSUME CachesInv, ClearSession
  PROVE  DataOK' /\ Sound(kv)' /\ cmd' = Idle
<1>1. /\ cmd' = Idle /\ kv' = [NoKV EXCEPT !.meta = ClearedMeta]
      /\ UNCHANGED <<facts, stored, plan, file, manifest>>
  BY DEF ClearSession, Quiet
<1>2. DataOK /\ kv \in KVStates
  BY DEF CachesInv, Sound
<1>3. ClearedMeta \in [Segs -> {"absent", "Missing", "DiskOnly", "Resident"}]
  BY <1>2 DEF ClearedMeta, KVStates
<1> QED
  BY <1>1, <1>2, <1>3, DataKept, ClearedState, NoCachesSound

LEMMA DeleteSessionStep ==
  ASSUME CachesInv, DeleteSession
  PROVE  DataOK' /\ Sound(kv)' /\ StageOK'
<1>1. /\ UNCHANGED <<facts, plan, file, manifest>>
      /\ stored' \in {None, stored, Husk}
      /\ kv' = [NoKV EXCEPT !.meta = kv.meta]
      /\ \/ cmd' = [op |-> "delete", at |-> "cache", seg |-> 0]
         \/ cmd' = [op |-> "delete", at |-> "kept", seg |-> 0]
  BY DEF DeleteSession, LeftOf
<1>2. DataOK /\ kv \in KVStates
  BY DEF CachesInv, Sound
<1>3. kv.meta \in [Segs -> {"absent", "Missing", "DiskOnly", "Resident"}]
  BY <1>2 DEF KVStates
<1>4. NoCaches(kv')
  BY <1>1, <1>3, ClearedState
<1>5. DataOK'
  BY <1>1, <1>2 DEF DataOK, ManifestOK
<1>6. StageOK'
  BY <1>1 DEF StageOK, Planned
<1> QED
  BY <1>4, <1>5, <1>6, NoCachesSound

LEMMA DeleteCacheStep ==
  ASSUME CachesInv, DeleteCache
  PROVE  DataOK' /\ Sound(kv)' /\ cmd' = Idle
<1>1. /\ cmd' = Idle /\ stored' = stored
      /\ manifest' = manifest \/ manifest' = None
      /\ \/ facts' = None /\ plan' = None /\ kv' = NoKV
         \/ UNCHANGED <<facts, plan, kv>>
  BY DEF DeleteCache, Return
<1>2. PICK left \in SUBSET Segs : file' = [g \in Segs |-> IF g \in left THEN file[g] ELSE None]
  BY DEF DeleteCache
<1>3. DataOK /\ Sound(kv)
  BY DEF CachesInv
<1>4. file' \in [Segs -> ContentType \cup {None}]
  BY <1>2, <1>3 DEF DataOK
<1>5. DataOK'
  BY <1>1, <1>3, <1>4 DEF DataOK, ManifestOK
<1>6. Sound(kv)'
  BY <1>1, <1>3, ClearedState, NoCachesSound, SoundStays
<1> QED
  BY <1>1, <1>5, <1>6

LEMMA OtherCommandStep ==
  ASSUME CachesInv, OtherCommand
  PROVE  DataOK' /\ Sound(kv)' /\ cmd' = Idle
<1> DEFINE k == Deactivated(kv)
<1>1. PICK E \in Evictable(kv.resident, 0) : kv' = Released(k, 0, E)
  BY DEF OtherCommand, Released
<1>2. cmd' = Idle /\ UNCHANGED <<facts, stored, plan, file, manifest>>
  BY DEF OtherCommand, Quiet
<1>3. DataOK /\ Sound(kv)
  BY DEF CachesInv
<1>4. /\ Sound(k) /\ \A g : Apart(k, g)
      /\ \A g \in Segs : kv.resident[g] # None => k.resident[g] # None
  BY <1>3, DeactivatedSound
<1> HIDE DEF k
<1>5. E \in Evictable(k.resident, 0)
  BY <1>1, <1>4 DEF Evictable
<1>6. k \in KVStates /\ Current(k) /\ OneLive(k)
  BY <1>4 DEF Sound
<1>7. Fewer(k, Released(k, 0, E)) /\ Released(k, 0, E).active = k.active
  BY <1>5, <1>6, ReleasedFewer
<1>8. Sound(Released(k, 0, E))
  BY <1>6, <1>7, FewerCurrent, FewerLive DEF Sound, Fewer
<1> QED
  BY <1>1, <1>2, <1>3, <1>8, DataKept, SoundStays

LEMMA RestartStep ==
  ASSUME CachesInv, Restart
  PROVE  DataOK' /\ Sound(kv)' /\ cmd' = Idle
<1>1. /\ facts' \in {stored, None} \ {Husk} /\ plan' = None /\ kv' = NoKV /\ cmd' = Idle
      /\ UNCHANGED <<stored, file, manifest>>
  BY HuskAssumption DEF Restart, Restored
<1>2. DataOK'
  BY <1>1 DEF CachesInv, DataOK, ManifestOK
<1> QED
  BY <1>1, <1>2, ClearedState, NoCachesSound

(* The commands that end and leave the session as it is. *)
LEMMA EndingStep ==
  ASSUME CachesInv,
         AddMemoryRejected \/ NextSegmentRejected \/ IndexResidentEnd \/ SearchEnd
  PROVE  DataOK' /\ Sound(kv)' /\ cmd' = Idle
<1>1. cmd' = Idle /\ UNCHANGED <<facts, stored, plan, kv, file, manifest>>
  BY DEF AddMemoryRejected, NextSegmentRejected, IndexResidentEnd, SearchEnd, Return
<1> QED
  BY <1>1, DataKept, SoundStays DEF CachesInv

LEMMA CachesInvInductive == FactsInv /\ CachesInv /\ [Next]_vars => CachesInv'
<1> SUFFICES ASSUME FactsInv, CachesInv, [Next]_vars
             PROVE  DataOK' /\ Sound(kv)' /\ StageOK'
  BY DEF CachesInv
<1>1. ASSUME NEW b \in BOOLEAN, CreateSession(b) PROVE DataOK' /\ Sound(kv)' /\ StageOK'
  BY <1>1, CreateSessionStep, CommandEnded
<1>0. CASE CreateFails
  BY <1>0, CreateFailsStep, CommandEnded
<1>2. ASSUME NEW t \in Systems, AddSystem(t) PROVE DataOK' /\ Sound(kv)' /\ StageOK'
  BY <1>2, AddSystemStep, CommandEnded
<1>3. ASSUME NEW op \in Planned, Begin(op) \/ BeginFails(op)
      PROVE  DataOK' /\ Sound(kv)' /\ StageOK'
  BY <1>3, BeginStep, BeginFailsStep, CommandEnded
<1>4. ASSUME NEW t \in Texts, AddToLastSegment(t) \/ AddInNewSegment(t)
      PROVE  DataOK' /\ Sound(kv)' /\ StageOK'
  BY <1>4, AddToLastSegmentStep, AddInNewSegmentStep, CommandEnded
<1>5. CASE AddMemoryRejected \/ NextSegmentRejected \/ IndexResidentEnd \/ SearchEnd
  BY <1>5, EndingStep, CommandEnded
<1>6. CASE NextSegment
  BY <1>6, NextSegmentStep, CommandEnded
<1>7. CASE Index \/ Save
  BY <1>7, IndexOrSaveStep DEF Index, Save
<1>8. CASE IndexResidentSegment \/ PersistSegment
  BY <1>8, PreparingStep
<1>9. CASE PersistFile
  BY <1>9, PersistFileStep
<1>10. CASE PersistManifest
  BY <1>10, PersistManifestStep
<1>11. CASE PersistEnd
  BY <1>11, PersistEndStep, CommandEnded
<1>12. CASE Search
  BY <1>12, SearchStep
<1>13. CASE SearchActivate
  BY <1>13, SearchActivateStep
<1>14. CASE SearchInfer
  BY <1>14, SearchInferStep
<1>15. CASE ClearSession
  BY <1>15, ClearSessionStep, CommandEnded
<1>16. CASE DeleteSession
  BY <1>16, DeleteSessionStep
<1>17. CASE DeleteCache
  BY <1>17, DeleteCacheStep, CommandEnded
<1>18. CASE OtherCommand
  BY <1>18, OtherCommandStep, CommandEnded
<1>19. CASE Restart
  BY <1>19, RestartStep, CommandEnded
<1>20. CASE UNCHANGED vars
  <2>1. UNCHANGED <<facts, stored, plan, kv, file, manifest, cmd>>
    BY <1>20 DEF vars
  <2> QED
    BY <2>1, DataKept, SoundStays DEF CachesInv, StageOK, Usable
<1> QED
  BY <1>0, <1>1, <1>2, <1>3, <1>4, <1>5, <1>6, <1>7, <1>8, <1>9, <1>10, <1>11, <1>12, <1>13,
     <1>14, <1>15, <1>16, <1>17, <1>18, <1>19, <1>20 DEF Next

LEMMA NoCachesIsSound ==
  ASSUME NEW k, NoCaches(k)
  PROVE  Sound(k)
BY DEF NoCaches, Sound, Current, OneLive, IsLive

LEMMA CachesInvariant == Spec => [](FactsInv /\ CachesInv)
<1>1. Init => CachesInv
  <2> SUFFICES ASSUME Init PROVE CachesInv
    OBVIOUS
  <2>1. /\ facts = None /\ stored = None /\ plan = None /\ kv = NoKV
        /\ file = NoHandles /\ manifest = None /\ cmd = Idle
    BY DEF Init
  <2>2. DataOK
    BY <2>1 DEF DataOK, ManifestOK, NoHandles
  <2>3. Sound(kv)
    BY <2>1, ClearedState, NoCachesIsSound
  <2>4. StageOK
    BY <2>1 DEF StageOK, Idle, Planned
  <2> QED
    BY <2>2, <2>3, <2>4 DEF CachesInv
<1> QED
  BY <1>1, CachesInvInductive, FactsInvariant, PTL DEF Spec

(* Every plan of the facts is within its bounds, every handle, file and    *)
(* manifest entry is the KV of something, whatever failed and whenever the *)
(* server was stopped.                                                     *)
THEOREM SessionTypeCorrect == Spec => []TypeOK
<1>1. FactsInv /\ CachesInv => TypeOK
  <2> SUFFICES ASSUME FactsInv, CachesInv PROVE TypeOK
    OBVIOUS
  <2>1. DataOK /\ Sound(kv) /\ StageOK
    BY DEF CachesInv
  <2>2. plan # None => facts # None /\ plan \in Plans /\ Len(plan) <= MaxSegments
    <3> HAVE plan # None
    <3>1. Held(facts) /\ facts # None /\ PlanOf(plan, Len(facts.memories))
      BY <2>1 DEF DataOK
    <3> QED
      BY <3>1, MemoriesOf, PlanTyped DEF PlanOf
  <2> QED
    BY <2>1, <2>2 DEF TypeOK, DataOK, ManifestOK, Held, Sound, StageOK, FactsInv
<1> QED
  BY <1>1, CachesInvariant, PTL

(* A KV cache in memory is the KV of the memories its segment has now,     *)
(* however the segment grew, was saved, evicted, reloaded, or was deleted  *)
(* and made again: a search never ranks memories by the KV of others.      *)
THEOREM ResidentAlwaysCurrent == Spec => []ResidentIsCurrent
<1>1. FactsInv /\ CachesInv => ResidentIsCurrent
  <2> SUFFICES ASSUME FactsInv, CachesInv, plan # None, NEW g \in DOMAIN plan,
                      kv.resident[g] # None
               PROVE  kv.resident[g].content = Content(g)
    BY DEF ResidentIsCurrent
  <2>1. g \in Segs
    BY TargetOf DEF CachesInv, DataOK, Target
  <2> QED
    BY <2>1 DEF CachesInv, Sound, Current
<1> QED
  BY <1>1, CachesInvariant, PTL

(* A staged prefix can always be extended by the memories that follow it.  *)
THEOREM PrefixCanAlwaysGrow == Spec => []PrefixCanGrow
<1>1. FactsInv /\ CachesInv => PrefixCanGrow
  <2> SUFFICES ASSUME FactsInv, CachesInv, plan # None, NEW g \in DOMAIN plan,
                      kv.prefix[g] # None
               PROVE  ProperPrefix(kv.prefix[g].content, Content(g))
    BY DEF PrefixCanGrow
  <2>1. g \in Segs
    BY TargetOf DEF CachesInv, DataOK, Target
  <2> QED
    BY <2>1 DEF CachesInv, Sound, Current
<1> QED
  BY <1>1, CachesInvariant, PTL

(* A search runs its query on a live context that holds the KV of exactly  *)
(* the segment it then ranks, also when the segment was evicted, reloaded, *)
(* hydrated from a snapshot or rebuilt between two segments.               *)
THEOREM SearchAlwaysReadsCurrent == Spec => []SearchReadsCurrent
<1>1. FactsInv /\ CachesInv => SearchReadsCurrent
  BY DEF SearchReadsCurrent, CachesInv, StageOK, Usable, Sound, Current
<1> QED
  BY <1>1, CachesInvariant, PTL

(* A session never holds two live contexts, and none the active slot does  *)
(* not know of.                                                            *)
THEOREM AlwaysOneLiveContext == Spec => []OneLiveContext
<1>1. FactsInv /\ CachesInv => OneLiveContext
  BY DEF OneLiveContext, CachesInv, Sound, OneLive
<1> QED
  BY <1>1, CachesInvariant, PTL

(* With the reference engine no KV is lost with its context.               *)
THEOREM ReferenceAlwaysKeepsSnapshots == Spec => []ReferenceKeepsSnapshots
<1>1. FactsInv /\ CachesInv => ReferenceKeepsSnapshots
  BY DEF ReferenceKeepsSnapshots, CachesInv, Sound, Current
<1> QED
  BY <1>1, CachesInvariant, PTL

-----------------------------------------------------------------------------
(* The plan covers the memories, when no rebuild fails.                    *)

(* The segments the manifest lists follow one another, from memory 1. *)
ManifestInOrder ==
    manifest # None => \A i \in DOMAIN manifest :
        manifest[i].indices[1] = IF i = 1 THEN 1 ELSE LastOf(manifest[i - 1].indices) + 1

CoverInv == PlanCoversMemories /\ ManifestInOrder

(* A manifest that fits the facts ends at their last memory: were there an *)
(* entry after the one that holds it, it would start past the facts.       *)
LEMMA FittingManifest ==
  ASSUME ManifestOK, ManifestInOrder, NEW f, Held(f), Len(f.memories) # 0, ManifestFits(f),
         NEW p, p = [i \in DOMAIN manifest |-> manifest[i].indices]
  PROVE  Covers(p, Len(f.memories))
<1> DEFINE n == Len(f.memories)
           N == Len(manifest)
           Holders(m) == {i \in DOMAIN manifest :
                             \E k \in DOMAIN manifest[i].indices : manifest[i].indices[k] = m}
<1>1. n \in Nat /\ n # 0 /\ n \in 1..n
  <2>1. n \in Nat /\ n # 0
    BY MemoriesOf
  <2> QED
    BY <2>1
<1>2. /\ manifest # None /\ manifest # <<>>
      /\ \A i \in DOMAIN manifest : SameHash(f, manifest[i])
      /\ \A m \in 1..n : Cardinality(Holders(m)) = 1
  BY DEF ManifestFits
<1>3. manifest \in Manifests
  BY <1>2 DEF ManifestOK
<1>4. N \in Nat /\ DOMAIN manifest = 1..N /\ N # 0
  BY <1>2, <1>3, LenProperties, EmptySeq DEF Manifests
<1>5. DOMAIN p = 1..N /\ \A i \in 1..N : p[i] = manifest[i].indices
  BY <1>4
<1>6. \A i \in 1..N : /\ p[i] = Run(p[i][1], LastOf(p[i]))
                      /\ p[i][1] \in 1..n /\ LastOf(p[i]) \in p[i][1]..n
                      /\ Len(p[i]) = LastOf(p[i]) - p[i][1] + 1
                      /\ \A k \in 1..Len(p[i]) : p[i][k] = p[i][1] + k - 1
                      /\ DOMAIN p[i] = 1..Len(p[i])
  <2> TAKE i \in 1..N
  <2>1. p[i] \in Segments
    BY <1>2, <1>4, <1>5, ManifestEntry
  <2>2. p[i] = Run(p[i][1], LastOf(p[i])) /\ LastOf(p[i]) <= n
    BY <1>2, <1>4, <1>5 DEF SameHash
  <2>3. DOMAIN p[i] = 1..Len(p[i])
    BY <2>1, LenProperties DEF Segments
  <2> HIDE DEF n
  <2> QED
    BY <1>1, <2>1, <2>2, <2>3, HashedSegment
<1>7. \A i \in 1..N : p[i][1] = IF i = 1 THEN 1 ELSE LastOf(p[i - 1]) + 1
  <2> TAKE i \in 1..N
  <2>1. i # 1 => i - 1 \in 1..N
    BY <1>4
  <2> QED
    BY <1>2, <1>4, <1>5, <2>1 DEF ManifestInOrder
<1>8. PICK i \in 1..N : \E k \in DOMAIN p[i] : p[i][k] = n
  <2> HIDE DEF Holders
  <2>1. Holders(n) # {}
    <3>1. Cardinality(Holders(n)) = 1
      BY <1>1, <1>2
    <3>2. Cardinality({}) # 1
      BY FS_EmptySet
    <3> QED
      BY <3>1, <3>2, Zenon
  <2> QED
    BY <1>4, <1>5, <2>1 DEF Holders
<1> HIDE DEF n, N
<1>9. LastOf(p[i]) = n
  <2>1. PICK k \in 1..Len(p[i]) : p[i][k] = n
    BY <1>6, <1>8
  <2>2. /\ p[i][1] \in 1..n /\ LastOf(p[i]) \in p[i][1]..n
        /\ Len(p[i]) = LastOf(p[i]) - p[i][1] + 1 /\ p[i][k] = p[i][1] + k - 1
    BY <1>6, <1>8, <2>1
  <2> QED
    BY <1>1, <2>1, <2>2, SMTT(20)
<1>10. i = N
  <2> SUFFICES ASSUME i # N PROVE FALSE
    OBVIOUS
  <2>1. i + 1 \in 1..N /\ i + 1 # 1 /\ (i + 1) - 1 = i
    BY <1>4, <1>8
  <2>2. p[i + 1][1] = n + 1
    BY <1>7, <1>9, <2>1
  <2>3. p[i + 1][1] \in 1..n
    BY <1>6, <2>1
  <2> QED
    BY <1>1, <2>2, <2>3
<1>11. /\ p # <<>> /\ LastOf(p) = p[N]
  <2>1. p = [j \in 1..N |-> p[j]]
    BY <1>4
  <2>2. p \in Seq({p[j] : j \in 1..N})
    BY <1>4, <2>1, SeqDef
  <2>3. Len(p) = N
    BY <1>4, <1>5, <2>2, LenProperties
  <2> QED
    BY <1>4, <2>2, <2>3, EmptySeq DEF LastOf
<1> QED
  BY <1>5, <1>6, <1>7, <1>9, <1>10, <1>11 DEF Covers, n

LEMMA LoadedCovers ==
  ASSUME ManifestOK, ManifestInOrder, NEW f, Held(f), NEW p \in LoadedPlans(f)
  PROVE  Covers(p, Len(f.memories))
<1>1. CASE Len(f.memories) = 0
  BY <1>1 DEF LoadedPlans, Covers
<1>2. CASE Len(f.memories) # 0 /\ ManifestFits(f)
  BY <1>2, FittingManifest DEF LoadedPlans
<1>3. CASE Len(f.memories) # 0 /\ ~ManifestFits(f)
  BY <1>3, MemoriesOf, RebuiltPlan DEF LoadedPlans
<1> QED
  BY <1>1, <1>2, <1>3

LEMMA GrownCovers ==
  ASSUME NEW n \in Nat, NEW p, PlanOf(p, n), Covers(p, n), p # <<>>, NEW q, q = AddedTo(p, n + 1)
  PROVE  Covers(q, n + 1)
<1> DEFINE N == Len(p)
<1>1. /\ N \in Nat /\ N # 0 /\ DOMAIN p = 1..N /\ \A g \in 1..N : Within(p[g], n)
  BY PlanFields
<1>2. /\ PlanOf(q, n + 1) /\ Len(q) = N
      /\ \A g \in 1..N : g # N => q[g] = p[g]
      /\ q[N] = Append(p[N], n + 1)
  BY LastSegmentGrown
<1>3. n + 1 \in Nat
  OBVIOUS
<1>4. DOMAIN q = 1..N /\ q # <<>>
  BY <1>1, <1>2, <1>3, PlanFields
<1>5. /\ \A g \in 1..N : p[g] = Run(p[g][1], LastOf(p[g]))
      /\ \A g \in 1..N : p[g][1] = IF g = 1 THEN 1 ELSE LastOf(p[g - 1]) + 1
      /\ LastOf(p[N]) = n
  BY <1>1 DEF Covers, LastOf
<1> HIDE DEF N
<1> DEFINE s == p[N]
           a == s[1]
<1>6. /\ Len(s) \in 1..n /\ DOMAIN s = 1..Len(s) /\ s \in Seq(1..n)
      /\ \A i \in 1..Len(s) : s[i] \in i..n
  BY <1>1, WithinBounds DEF Within
<1>7. a \in 1..n /\ s = Run(a, n) /\ Len(s) = n - a + 1
  <2>1. a \in 1..n
    BY <1>6
  <2>2. s = Run(a, n)
    BY <1>1, <1>5
  <2>3. n \in a..n
    BY <2>1
  <2> HIDE DEF s, a
  <2> QED
    BY <2>1, <2>2, <2>3, RunProperties
<1>8. Append(s, n + 1) = Run(a, n + 1)
  <2> DEFINE r == Append(s, n + 1)
             u == Run(a, n + 1)
  <2>1. s \in Seq(1..n + 1) /\ n + 1 \in 1..n + 1
    <3>1. Within(s, n + 1)
      BY <1>1, <1>3, WithinMore
    <3> QED
      BY <3>1 DEF Within
  <2> HIDE DEF s, a
  <2>2. /\ r \in Seq(1..n + 1) /\ Len(r) = Len(s) + 1 /\ r[Len(s) + 1] = n + 1
        /\ \A i \in 1..Len(s) : r[i] = s[i]
    BY <2>1, AppendProperties
  <2>3. a \in 1..n + 1 /\ n + 1 \in a..n + 1
    BY <1>7
  <2>4. /\ u \in Seq(1..n + 1) /\ Len(u) = (n + 1) - a + 1
        /\ \A i \in 1..(n + 1) - a + 1 : u[i] = a + i - 1
    BY <1>3, <2>3, RunProperties
  <2>5. \A i \in 1..n - a + 1 : s[i] = a + i - 1
    <3>1. n \in a..n
      BY <1>7
    <3>2. \A i \in 1..n - a + 1 : Run(a, n)[i] = a + i - 1
      BY <1>7, <3>1, RunProperties
    <3> QED
      BY <1>7, <3>2
  <2>6. Len(r) = Len(u)
    BY <1>7, <2>2, <2>4, SMTT(20)
  <2>7. \A i \in 1..Len(r) : r[i] = u[i]
    <3> TAKE i \in 1..Len(r)
    <3>1. u[i] = a + i - 1
      BY <2>4, <2>6
    <3>2. CASE i \in 1..Len(s)
      BY <1>7, <2>2, <2>5, <3>1, <3>2
    <3>3. CASE i = Len(s) + 1
      BY <1>7, <2>2, <3>1, <3>3
    <3> QED
      BY <1>6, <2>2, <3>2, <3>3
  <2> HIDE DEF r, u
  <2>8. r = u
    BY <2>2, <2>4, <2>6, <2>7, SeqEqual
  <2> QED
    BY <2>8 DEF r, u
<1>9. q[N] = Run(a, n + 1)
  BY <1>2, <1>8
<1>10. a \in 1..n + 1 /\ n + 1 \in a..n + 1
  BY <1>7
<1> HIDE DEF s, a
<1>11. q[N][1] = a /\ LastOf(q[N]) = n + 1
  <2>1. Run(a, n + 1)[1] = a /\ LastOf(Run(a, n + 1)) = n + 1
    BY <1>3, <1>10, RunProperties
  <2> QED
    BY <1>9, <2>1
<1>12. \A g \in 1..N : /\ q[g] = Run(q[g][1], LastOf(q[g]))
                       /\ q[g][1] = IF g = 1 THEN 1 ELSE LastOf(q[g - 1]) + 1
  <2> TAKE g \in 1..N
  <2>1. q[g][1] = p[g][1]
    BY <1>2, <1>11 DEF a, s
  <2>2. g # 1 => g - 1 \in 1..N /\ g - 1 # N
    BY <1>1
  <2>3. q[g] = Run(q[g][1], LastOf(q[g]))
    BY <1>2, <1>5, <1>9, <1>11
  <2> QED
    BY <1>2, <1>5, <2>1, <2>2, <2>3
<1>13. LastOf(q) = q[N]
  BY <1>2 DEF LastOf
<1> QED
  BY <1>4, <1>11, <1>12, <1>13 DEF Covers

LEMMA ExtendedCovers ==
  ASSUME NEW n \in Nat, NEW p, PlanOf(p, n), Covers(p, n), Len(p) < MaxSegments,
         NEW q, q = Append(p, <<n + 1>>)
  PROVE  Covers(q, n + 1)
<1> DEFINE N == Len(p)
<1>1. N \in Nat /\ DOMAIN p = 1..N /\ (p = <<>> <=> N = 0)
  BY PlanFields
<1>2. /\ PlanOf(q, n + 1) /\ Len(q) = N + 1
      /\ \A g \in 1..N : q[g] = p[g]
      /\ q[N + 1] = <<n + 1>>
  BY <1>1, NewSegmentAdded
<1>3. n + 1 \in Nat
  OBVIOUS
<1>4. DOMAIN q = 1..N + 1 /\ q # <<>>
  BY <1>1, <1>2, <1>3, PlanFields
<1>5. /\ \A g \in 1..N : p[g] = Run(p[g][1], LastOf(p[g]))
      /\ \A g \in 1..N : p[g][1] = IF g = 1 THEN 1 ELSE LastOf(p[g - 1]) + 1
      /\ n = IF N = 0 THEN 0 ELSE LastOf(p[N])
  BY <1>1 DEF Covers, LastOf
<1> HIDE DEF N
<1>6. q[N + 1][1] = n + 1 /\ LastOf(q[N + 1]) = n + 1
  BY <1>2 DEF LastOf
<1>7. <<n + 1>> = Run(n + 1, n + 1)
  <2>1. Run(n + 1, n + 1) = [i \in 1..1 |-> n + 1 + i - 1]
    BY DEF Run
  <2>2. <<n + 1>> = [i \in 1..1 |-> n + 1]
    OBVIOUS
  <2>3. \A i \in 1..1 : n + 1 + i - 1 = n + 1
    OBVIOUS
  <2> QED
    BY <2>1, <2>2, <2>3
<1>8. \A g \in 1..N + 1 : /\ q[g] = Run(q[g][1], LastOf(q[g]))
                          /\ q[g][1] = IF g = 1 THEN 1 ELSE LastOf(q[g - 1]) + 1
  <2> TAKE g \in 1..N + 1
  <2>1. CASE g = N + 1
    <3>1. q[g] = Run(q[g][1], LastOf(q[g]))
      BY <1>2, <1>6, <1>7, <2>1
    <3>2. g # 1 => N \in 1..N /\ g - 1 = N
      BY <1>1, <2>1
    <3>3. g = 1 => N = 0
      BY <1>1, <2>1
    <3> QED
      BY <1>2, <1>5, <1>6, <2>1, <3>1, <3>2, <3>3
  <2>2. CASE g \in 1..N
    <3>1. g # 1 => g - 1 \in 1..N
      BY <1>1, <2>2
    <3> QED
      BY <1>2, <1>5, <2>2, <3>1
  <2> QED
    BY <1>1, <2>1, <2>2
<1>9. LastOf(q) = q[N + 1]
  BY <1>2 DEF LastOf
<1> QED
  BY <1>4, <1>6, <1>8, <1>9 DEF Covers

LEMMA CoverKept ==
  ASSUME CoverInv, plan' = None \/ (plan' = plan /\ facts'.memories = facts.memories),
         manifest' = manifest \/ manifest' = None
  PROVE  CoverInv'
BY DEF CoverInv, PlanCoversMemories, ManifestInOrder

LEMMA MemoriesKept ==
  ASSUME FactsInv, CachesInv, NextSegment \/ PersistEnd \/ Index \/ Save
  PROVE  facts'.memories = facts.memories /\ UNCHANGED <<plan, manifest>>
<1>1. CASE NextSegment \/ PersistEnd
  <2>1. facts # None /\ Held(facts)
    <3>1. CASE NextSegment
      BY <3>1 DEF NextSegment, Running, CachesInv, StageOK, DataOK, Planned
    <3>2. CASE PersistEnd
      BY <3>2, AtStage DEF PersistEnd
    <3> QED
      BY <1>1, <3>1, <3>2
  <2>2. facts \in Facts
    BY <2>1 DEF Held
  <2>3. /\ [facts EXCEPT !.boundaries = @ \cup {Next1}].memories = facts.memories
        /\ [facts EXCEPT !.kv_persist = TRUE].memories = facts.memories
    BY <2>2 DEF Facts
  <2> QED
    BY <1>1, <2>3 DEF NextSegment, PersistEnd, PersistOk, PersistFails
<1>2. CASE Index \/ Save
  BY <1>2 DEF Index, Save, IndexOrSave, PersistIfDirty, PersistOk, PersistFails
<1> QED
  BY <1>1, <1>2

LEMMA CoverInvInductive ==
  ASSUME PlanMayFail = FALSE
  PROVE  FactsInv /\ CachesInv /\ CoverInv /\ [Next]_vars => CoverInv'
<1> SUFFICES ASSUME FactsInv, CachesInv, CoverInv, [Next]_vars PROVE CoverInv'
  OBVIOUS
<1>0. DataOK /\ ManifestInOrder
  BY DEF CachesInv, CoverInv
<1>1. ASSUME NEW b \in BOOLEAN, CreateSession(b) PROVE CoverInv'
  <2>1. plan' = <<>> /\ manifest' = manifest /\ facts'.memories = <<>>
    BY <1>1 DEF CreateSession, PersistOk
  <2>2. Len(<<>>) = 0
    BY EmptySeq
  <2>3. Covers(<<>>, 0)
    BY DEF Covers
  <2> QED
    BY <2>1, <2>2, <2>3 DEF CoverInv, PlanCoversMemories, ManifestInOrder
<1>2. ASSUME NEW t \in Systems, AddSystem(t) PROVE CoverInv'
  BY <1>2, CoverKept DEF AddSystem
<1>3. ASSUME NEW op \in Planned, Begin(op) PROVE CoverInv'
  <2>1. PreparePlan /\ facts # None /\ Held(facts) /\ UNCHANGED <<facts, manifest>>
    BY <1>0, <1>3 DEF Begin, Quiet, DataOK
  <2>2. CASE plan # None
    BY <2>1, <2>2, CoverKept DEF PreparePlan
  <2>3. CASE plan = None
    <3>1. plan' \in LoadedPlans(facts)
      BY <2>1, <2>3 DEF PreparePlan
    <3>2. Covers(plan', Len(facts.memories))
      BY <1>0, <2>1, <3>1, LoadedCovers DEF DataOK
    <3> QED
      BY <2>1, <3>2 DEF CoverInv, PlanCoversMemories, ManifestInOrder
  <2> QED
    BY <2>2, <2>3
<1>4. ASSUME NEW t \in Texts, AddToLastSegment(t) \/ AddInNewSegment(t) PROVE CoverInv'
  <2> DEFINE n == Len(facts.memories)
  <2>1. cmd.op = "add" /\ Next1 <= MaxMemories /\ facts' = Appended(t) /\ manifest' = manifest
    BY <1>4 DEF AddToLastSegment, AddInNewSegment, Running, PersistOk, PersistFails
  <2>2. plan # None
    BY <2>1 DEF CachesInv, StageOK, Planned
  <2>3. n \in Nat /\ PlanOf(plan, n) /\ Len(facts'.memories) = n + 1
    BY <1>0, <2>1, <2>2, GrownContents DEF Next1
  <2>4. Covers(plan, n)
    BY <2>2 DEF CoverInv, PlanCoversMemories
  <2>5. Covers(plan', n + 1)
    <3>1. CASE AddToLastSegment(t)
      <4>1. plan # <<>> /\ plan' = AddedTo(plan, n + 1)
        BY <3>1 DEF AddToLastSegment, AddedTo, Last, Next1
      <4> HIDE DEF n
      <4> QED
        BY <2>3, <2>4, <4>1, GrownCovers
    <3>2. CASE AddInNewSegment(t)
      <4>1. Len(plan) < MaxSegments /\ plan' = Append(plan, <<n + 1>>)
        BY <3>2 DEF AddInNewSegment, Last, Next1
      <4> HIDE DEF n
      <4> QED
        BY <2>3, <2>4, <4>1, ExtendedCovers
    <3> QED
      BY <1>4, <3>1, <3>2
  <2> QED
    BY <2>1, <2>3, <2>5 DEF CoverInv, PlanCoversMemories, ManifestInOrder
<1>5. CASE NextSegment \/ PersistEnd \/ Index \/ Save
  BY <1>5, MemoriesKept, CoverKept
<1>6. CASE PersistManifest
  <2>1. CASE manifest' = manifest
    BY <1>6, <2>1, CoverKept DEF PersistManifest
  <2>2. CASE manifest' = [i \in 1..cmd.seg |-> HashOf(facts, plan[i])]
    <3>1. cmd.at = "manifest" /\ UNCHANGED <<facts, plan>>
      BY <1>6 DEF PersistManifest
    <3>2. plan # None /\ cmd.seg \in DOMAIN plan /\ facts # None /\ Held(facts)
      BY <3>1, AtStage DEF CachesInv, StageOK
    <3>3. DOMAIN plan = 1..Len(plan) /\ Len(plan) \in Nat
      BY <1>0, <3>2, MemoriesOf, PlanFields DEF DataOK
    <3>4. \A g \in DOMAIN plan :
             plan[g][1] = IF g = 1 THEN 1 ELSE LastOf(plan[g - 1]) + 1
      BY <3>2 DEF CoverInv, PlanCoversMemories, Covers
    <3>5. DOMAIN manifest' = 1..cmd.seg
      BY <2>2
    <3>6. ASSUME NEW i \in 1..cmd.seg
          PROVE  manifest'[i].indices[1]
                   = IF i = 1 THEN 1 ELSE LastOf(manifest'[i - 1].indices) + 1
      <4>1. i \in DOMAIN plan /\ (i # 1 => i - 1 \in 1..cmd.seg)
        BY <3>2, <3>3
      <4>2. \A j \in 1..cmd.seg : manifest'[j].indices = plan[j]
        BY <2>2 DEF HashOf
      <4> QED
        BY <3>4, <4>1, <4>2
    <3>7. ManifestInOrder'
      BY <3>5, <3>6 DEF ManifestInOrder
    <3> QED
      BY <3>1, <3>7 DEF CoverInv, PlanCoversMemories
  <2> QED
    BY <1>6, <2>1, <2>2 DEF PersistManifest
<1>7. CASE \/ AddMemoryRejected \/ NextSegmentRejected
           \/ IndexResidentSegment \/ IndexResidentEnd \/ PersistSegment \/ PersistFile
           \/ Search \/ SearchActivate \/ SearchInfer \/ SearchEnd
           \/ ClearSession \/ DeleteSession \/ OtherCommand \/ CreateFails
  <2>1. UNCHANGED <<facts, plan, manifest>>
    BY <1>7 DEF AddMemoryRejected, NextSegmentRejected, IndexResidentSegment, IndexResidentEnd,
                PersistSegment, PersistFile, Search, SearchActivate, SearchInfer, SearchEnd,
                ClearSession, DeleteSession, OtherCommand, CreateFails
  <2> QED
    BY <2>1, CoverKept
<1>8. CASE DeleteCache \/ Restart
  BY <1>8, CoverKept DEF DeleteCache, Restart
<1>9. CASE UNCHANGED vars
  BY <1>9, CoverKept DEF vars
<1>10. \A op \in Planned : ~BeginFails(op)
  BY DEF BeginFails
<1> QED
  BY <1>1, <1>2, <1>3, <1>4, <1>5, <1>6, <1>7, <1>8, <1>9, <1>10 DEF Next

LEMMA CoverInvariant ==
  ASSUME PlanMayFail = FALSE
  PROVE  Spec => [](FactsInv /\ CachesInv /\ CoverInv)
<1>1. Init => CoverInv
  BY DEF Init, CoverInv, PlanCoversMemories, ManifestInOrder
<1>2. FactsInv /\ CachesInv /\ CoverInv /\ [Next]_vars => CoverInv'
  BY CoverInvInductive
<1> QED
  BY <1>1, <1>2, CachesInvariant, PTL DEF Spec

(* When no token estimate fails, the segments hold every memory that was   *)
(* added, in order and once, however the plan was made: grown memory by    *)
(* memory, cut from the facts or read from the manifest of a cache that a  *)
(* crash or an unfinished save left behind.                                *)
THEOREM PlanAlwaysCovers ==
  ASSUME PlanMayFail = FALSE
  PROVE  Spec => []PlanCoversMemories
<1>1. FactsInv /\ CachesInv /\ CoverInv => PlanCoversMemories
  BY DEF CoverInv
<1> QED
  BY <1>1, CoverInvariant, PTL


-----------------------------------------------------------------------------
(* What the replies of index and save promise.  DoneInv: how far the       *)
(* command has got says which files and which entries of the manifest it   *)
(* has written, and no reply but theirs is TRUE meanwhile.                 *)
Written(n) == \A g \in DOMAIN plan : g <= n => HasDisk(kv, g)
Listed(n) == [i \in 1..n |-> HashOf(facts, plan[i])]

ProgressOK ==
    /\ cmd # Idle => reply = NoReply
    /\ cmd.at \in {"segment", "file"} => Written(cmd.seg - 1)
    /\ cmd.at = "manifest" => Written(cmd.seg)
    /\ cmd.at \in KVStages => /\ plan # <<>> /\ cmd.seg # 0
                              /\ cmd.seg <= Len(plan) + 1
                              /\ cmd.seg > 1 => manifest = Listed(cmd.seg - 1)
    /\ cmd.at = "build" => ~facts.kv_persist

KVPersisted ==
    reply \in {Reply("index", TRUE), Reply("save", TRUE)} /\ facts # None /\ facts.kv_persist
        => /\ stored \in {facts, Husk} /\ plan # None /\ plan # <<>>
           /\ manifest = Listed(Len(plan))
           /\ \A g \in DOMAIN plan : file[g] # None

DoneInv == ProgressOK /\ IndexedMeansSearchable /\ KVPersisted

LEMMA OtherReply ==
  ASSUME reply' \notin {Reply("index", TRUE), Reply("save", TRUE)}
  PROVE  IndexedMeansSearchable' /\ KVPersisted'
BY DEF IndexedMeansSearchable, KVPersisted, Reply

LEMMA ReplyShape ==
  /\ NoReply \notin {Reply("index", TRUE), Reply("save", TRUE)}
  /\ \A op : Reply(op, FALSE) \notin {Reply("index", TRUE), Reply("save", TRUE)}
  /\ \A op, ok : op \notin {"index", "save"} =>
        Reply(op, ok) \notin {Reply("index", TRUE), Reply("save", TRUE)}
  /\ Reply("save", TRUE) # Reply("index", TRUE)
BY DEF NoReply, Reply

LEMMA IdleDone ==
  ASSUME cmd' = Idle
  PROVE  ProgressOK'
BY DEF ProgressOK, Idle, KVStages

LEMMA EndedOtherwise ==
  ASSUME cmd' = Idle, reply' \notin {Reply("index", TRUE), Reply("save", TRUE)}
  PROVE  DoneInv'
BY IdleDone, OtherReply DEF DoneInv

LEMMA ListedKept ==
  ASSUME UNCHANGED <<facts, plan>>
  PROVE  \A n : Listed(n)' = Listed(n)
BY DEF Listed, HashOf, ContentOf

(* A command that goes on. *)
LEMMA WentOn ==
  ASSUME FactsInv, DoneInv, cmd # Idle, NEW at, NEW seg, Goto(at, seg),
         at \in {"segment", "file"} => Written(seg - 1)',
         at = "manifest" => Written(seg)',
         at \in KVStages => /\ plan' # <<>> /\ seg # 0 /\ seg <= Len(plan') + 1
                            /\ seg > 1 => manifest' = Listed(seg - 1)',
         at = "build" => ~facts'.kv_persist
  PROVE  DoneInv'
<1>1. cmd' = [op |-> cmd.op, at |-> at, seg |-> seg] /\ reply' = reply
  BY GoneTo
<1>2. reply' = NoReply
  BY <1>1 DEF DoneInv, ProgressOK
<1>3. IndexedMeansSearchable' /\ KVPersisted'
  BY <1>2, ReplyShape, OtherReply
<1>4. cmd'.at = at /\ cmd'.seg = seg
  BY <1>1
<1>5. seg > 1 /\ at \in KVStages =>
         manifest' = [i \in 1..cmd'.seg - 1 |-> HashOf(facts', plan'[i])]
  BY <1>4 DEF Listed
<1>6. ProgressOK'
  BY <1>2, <1>4, <1>5 DEF ProgressOK, Written, Listed
<1> QED
  BY <1>3, <1>6 DEF DoneInv

(* The files of the segments done stay, whatever is done to another.       *)
LEMMA WrittenKept ==
  ASSUME NEW n, Written(n), UNCHANGED plan,
         \A g \in DOMAIN plan : g <= n => kv'.meta[g] = kv.meta[g] /\ file'[g] = file[g]
  PROVE  Written(n)'
BY DEF Written, HasDisk

LEMMA PersistSegmentDone ==
  ASSUME FactsInv, CachesInv, DoneInv, PersistSegment
  PROVE  DoneInv'
<1>1. PICK s : s = cmd.seg
  OBVIOUS
<1>2. /\ cmd.at = "segment" /\ s \in DOMAIN plan
      /\ UNCHANGED <<facts, stored, plan, file, manifest>>
      /\ \/ HasDisk(kv, s) /\ kv' = kv /\ Goto("manifest", s)
         \/ \E o \in PrepareResidentSegment(kv, s, TRUE) :
               /\ kv' = o.kv
               /\ \/ cmd' = Idle /\ reply' = Reply(cmd.op, FALSE)
                  \/ Goto("file", s)
  BY <1>1 DEF PersistSegment, Return
<1>3. /\ Sound(kv) /\ s \in Nat /\ cmd # Idle
      /\ \A g \in DOMAIN plan : Target(g) /\ g \in Segs
  BY <1>1, <1>2, AtStage DEF Idle
<1>4. /\ Written(s - 1) /\ plan # <<>> /\ s # 0 /\ s <= Len(plan) + 1
      /\ s > 1 => manifest = Listed(s - 1)
  BY <1>1, <1>2 DEF DoneInv, ProgressOK, KVStages
<1>5. /\ plan' # <<>> /\ s # 0 /\ s <= Len(plan') + 1
      /\ s > 1 => manifest' = Listed(s - 1)'
  BY <1>2, <1>4, ListedKept
<1>6. CASE HasDisk(kv, s) /\ kv' = kv /\ Goto("manifest", s)
  <2>1. \A g \in DOMAIN plan : g \in Nat
    BY <1>3 DEF Segs
  <2>2. Written(s)
    BY <1>3, <1>4, <1>6, <2>1 DEF Written
  <2>3. Written(s)'
    BY <1>2, <1>6, <2>2, WrittenKept
  <2> QED
    BY <1>3, <1>5, <1>6, <2>3, WentOn DEF KVStages
<1>7. ASSUME NEW o \in PrepareResidentSegment(kv, s, TRUE), kv' = o.kv, Goto("file", s)
      PROVE  DoneInv'
  <2>1. After(kv, s, o)
    BY <1>2, <1>3, <1>7, PreparedAfter
  <2>2. \A g \in DOMAIN plan : g <= s - 1 => g # s /\ g \in Segs
    BY <1>3 DEF Segs
  <2>3. \A g \in DOMAIN plan : g <= s - 1 => kv'.meta[g] = kv.meta[g] /\ file'[g] = file[g]
    BY <1>2, <1>7, <2>1, <2>2 DEF After
  <2>4. Written(s - 1)'
    BY <1>2, <1>4, <2>3, WrittenKept
  <2> QED
    BY <1>3, <1>5, <1>7, <2>4, WentOn DEF KVStages
<1> QED
  BY <1>2, <1>6, <1>7, EndedOtherwise, ReplyShape

LEMMA PersistFileDone ==
  ASSUME FactsInv, CachesInv, DoneInv, PersistFile
  PROVE  DoneInv'
<1>1. PICK s : s = cmd.seg
  OBVIOUS
<1> DEFINE marked == NowResident(kv, s)
<1>2. /\ cmd.at = "file" /\ UNCHANGED <<facts, stored, plan, manifest>>
      /\ \/ HasDisk(kv, s) /\ UNCHANGED <<kv, file>> /\ Goto("manifest", s)
         \/ /\ file' = [file EXCEPT ![s] = kv.resident[s].content]
            /\ kv' = Exported(marked, s)
            /\ Goto("manifest", s)
         \/ cmd' = Idle /\ reply' = Reply(cmd.op, FALSE)
  BY <1>1 DEF PersistFile, Exported, Return
<1>3. /\ Sound(kv) /\ s \in Nat /\ cmd # Idle /\ DataOK
      /\ \A g \in DOMAIN plan : Target(g) /\ g \in Segs
      /\ s \in DOMAIN plan /\ kv.resident[s] # None
  BY <1>1, <1>2, AtStage DEF Idle, CachesInv, StageOK
<1>4. /\ Written(s - 1) /\ plan # <<>> /\ s # 0 /\ s <= Len(plan) + 1
      /\ s > 1 => manifest = Listed(s - 1)
  BY <1>1, <1>2 DEF DoneInv, ProgressOK, KVStages
<1>5. /\ plan' # <<>> /\ s # 0 /\ s <= Len(plan') + 1
      /\ s > 1 => manifest' = Listed(s - 1)'
  BY <1>2, <1>4, ListedKept
<1>6. \A g \in DOMAIN plan : g \in Nat /\ (g <= s => g <= s - 1 \/ g = s)
  BY <1>3 DEF Segs
<1>7. CASE HasDisk(kv, s) /\ UNCHANGED <<kv, file>> /\ Goto("manifest", s)
  <2>1. Written(s)
    BY <1>4, <1>6, <1>7 DEF Written
  <2>2. Written(s)'
    BY <1>2, <1>7, <2>1, WrittenKept
  <2> QED
    BY <1>3, <1>5, <1>7, <2>2, WentOn DEF KVStages
<1>8. CASE /\ file' = [file EXCEPT ![s] = kv.resident[s].content]
           /\ kv' = Exported(marked, s)
           /\ Goto("manifest", s)
  <2>1. kv \in KVStates /\ s \in Segs /\ kv.resident[s] \in Handles
    BY <1>3, StateFields DEF Sound
  <2>2. kv.resident[s].content # None
    BY <2>1, NoneIsNoHandle DEF Handles
  <2>3. file'[s] # None /\ \A g \in Segs : g # s => file'[g] = file[g]
    BY <1>3, <1>8, <2>1, <2>2 DEF DataOK
  <2>4. /\ Sound(marked) /\ marked.resident = kv.resident /\ marked.meta[s] = "Resident"
        /\ \A g \in Segs : g # s => marked.meta[g] = kv.meta[g]
    <3>1. SameBut(kv, marked, s) /\ marked.meta[s] = "Resident"
      BY <2>1, StatusSet
    <3> HIDE DEF marked
    <3>2. Sound(marked)
      BY <1>3, <3>1, StatusOnly
    <3> QED
      BY <3>1, <3>2 DEF SameBut
  <2>5. kv'.meta = marked.meta
    <3> HIDE DEF marked
    <3> QED
      BY <1>3, <1>8, <2>1, <2>4, ExportedSound
  <2>6. \A g \in DOMAIN plan : g <= s - 1 => g # s /\ g \in Segs
    BY <1>3 DEF Segs
  <2>7. Written(s)'
    <3> SUFFICES ASSUME NEW g \in DOMAIN plan, g <= s PROVE HasDisk(kv, g)'
      BY <1>2 DEF Written
    <3>1. CASE g = s
      BY <2>3, <2>4, <2>5, <3>1 DEF HasDisk
    <3>2. CASE g <= s - 1
      <4>1. g # s /\ g \in Segs /\ HasDisk(kv, g)
        BY <1>4, <2>6, <3>2 DEF Written
      <4>2. kv'.meta[g] = kv.meta[g] /\ file'[g] = file[g]
        BY <2>3, <2>4, <2>5, <4>1
      <4> QED
        BY <4>1, <4>2 DEF HasDisk
    <3> QED
      BY <1>6, <3>1, <3>2
  <2> QED
    BY <1>3, <1>5, <1>8, <2>7, WentOn DEF KVStages
<1> QED
  BY <1>2, <1>7, <1>8, EndedOtherwise, ReplyShape

LEMMA PersistManifestDone ==
  ASSUME FactsInv, CachesInv, DoneInv, PersistManifest
  PROVE  DoneInv'
<1>1. PICK s : s = cmd.seg
  OBVIOUS
<1>2. /\ cmd.at = "manifest" /\ UNCHANGED <<facts, stored, plan, kv, file>>
      /\ \/ manifest' = Listed(s) /\ Goto("segment", s + 1)
         \/ cmd' = Idle /\ reply' = Reply(cmd.op, FALSE)
  BY <1>1 DEF PersistManifest, Return, Listed
<1>3. /\ s \in Nat /\ cmd # Idle /\ DataOK /\ Held(facts) /\ plan # None
      /\ s \in DOMAIN plan
  BY <1>1, <1>2, AtStage DEF Idle, CachesInv, StageOK
<1>4. Written(s) /\ plan # <<>> /\ s # 0
  BY <1>1, <1>2 DEF DoneInv, ProgressOK, KVStages
<1>5. DOMAIN plan = 1..Len(plan) /\ Len(plan) \in Nat
  BY <1>3, MemoriesOf, PlanFields DEF DataOK
<1>6. CASE manifest' = Listed(s) /\ Goto("segment", s + 1)
  <2>1. (s + 1) - 1 = s /\ s + 1 # 0 /\ s + 1 <= Len(plan) + 1
    BY <1>3, <1>5
  <2>2. Written(s)'
    BY <1>2, <1>4, WrittenKept
  <2>3. manifest' = Listed(s)'
    BY <1>2, <1>6, ListedKept
  <2>4. Written((s + 1) - 1)' /\ manifest' = Listed((s + 1) - 1)'
    BY <2>1, <2>2, <2>3
  <2> QED
    BY <1>2, <1>3, <1>4, <1>6, <2>1, <2>4, WentOn DEF KVStages
<1> QED
  BY <1>2, <1>6, EndedOtherwise, ReplyShape

LEMMA PersistEndDone ==
  ASSUME FactsInv, CachesInv, DoneInv, PersistEnd
  PROVE  DoneInv'
<1>1. PICK s : s = cmd.seg
  OBVIOUS
<1> DEFINE f == [facts EXCEPT !.kv_persist = TRUE]
<1>2. /\ cmd.at = "segment" /\ s \notin DOMAIN plan /\ cmd' = Idle
      /\ UNCHANGED <<plan, kv, file, manifest>>
      /\ \/ UNCHANGED <<facts, stored>>
         \/ facts' = f /\ stored' = f
         \/ reply' = Reply(cmd.op, FALSE)
  BY <1>1 DEF PersistEnd, Return, PersistOk
<1>3. s \in Nat /\ DataOK /\ plan # None /\ facts # None /\ Held(facts)
  BY <1>1, <1>2, AtStage
<1>4. /\ Written(s - 1) /\ plan # <<>> /\ s # 0 /\ s <= Len(plan) + 1
      /\ s > 1 => manifest = Listed(s - 1)
  BY <1>1, <1>2 DEF DoneInv, ProgressOK, KVStages
<1>5. DOMAIN plan = 1..Len(plan) /\ Len(plan) \in Nat /\ Len(plan) # 0
  BY <1>3, <1>4, MemoriesOf, PlanFields DEF DataOK
<1>6. s - 1 = Len(plan) /\ s > 1
  BY <1>2, <1>3, <1>4, <1>5
<1>7. Written(Len(plan)) /\ manifest = Listed(Len(plan))
  BY <1>4, <1>6
<1>8. \A g \in DOMAIN plan : HasDisk(kv, g) /\ file[g] # None
  BY <1>5, <1>7 DEF Written, HasDisk
<1>9. stored \in {facts, Husk}
  BY <1>2, <1>3 DEF FactsInv, KVStages
<1>10. ASSUME stored' \in {facts', Husk}, facts'.system = facts.system, facts'.memories = facts.memories
       PROVE  DoneInv'
  <2>1. Admitted'
    BY <1>2, <1>8 DEF Admitted, HasDisk
  <2>2. manifest' = Listed(Len(plan))'
    BY <1>2, <1>7, <1>10 DEF Listed, HashOf, ContentOf
  <2>3. IndexedMeansSearchable' /\ KVPersisted'
    BY <1>2, <1>3, <1>4, <1>8, <1>10, <2>1, <2>2 DEF IndexedMeansSearchable, KVPersisted
  <2> QED
    BY <1>2, <2>3, IdleDone DEF DoneInv
<1>11. f.system = facts.system /\ f.memories = facts.memories
  BY <1>3 DEF Held, Facts
<1> HIDE DEF f
<1>12. CASE UNCHANGED <<facts, stored>>
  BY <1>9, <1>10, <1>12
<1>13. CASE facts' = f /\ stored' = f
  BY <1>10, <1>11, <1>13
<1> QED
  BY <1>2, <1>12, <1>13, EndedOtherwise, ReplyShape

LEMMA IndexOrSaveDone ==
  ASSUME FactsInv, CachesInv, DoneInv, NEW op \in {"index", "save"}, NEW deactivate \in BOOLEAN,
         IndexOrSave(op, deactivate)
  PROVE  DoneInv'
<1>1. /\ cmd.op = op /\ plan' = plan
      /\ \/ cmd' = Idle /\ reply' = Reply(cmd.op, FALSE)
         \/ plan # <<>> /\ Goto("segment", 1)
         \/ plan # <<>> /\ Goto("build", 1) /\ ~facts'.kv_persist
  BY DEF IndexOrSave, Running, PersistIfDirty, PersistOk, Return
<1>2. cmd # Idle /\ op \in Planned
  BY <1>1 DEF Idle, Planned
<1>3. plan # None /\ DataOK
  BY <1>1, <1>2 DEF CachesInv, StageOK
<1>4. DOMAIN plan = 1..Len(plan) /\ Len(plan) \in Nat
  BY <1>3, MemoriesOf, PlanFields DEF DataOK
<1>5. CASE plan # <<>> /\ Goto("segment", 1)
  <2>1. Written(1 - 1)'
    BY <1>1, <1>4 DEF Written
  <2>2. 1 <= Len(plan') + 1 /\ plan' # <<>> /\ ~(1 > 1) /\ 1 # 0
    BY <1>1, <1>4, <1>5
  <2> QED
    BY <1>2, <1>5, <2>1, <2>2, WentOn
<1>6. CASE Goto("build", 1) /\ ~facts'.kv_persist
  BY <1>2, <1>6, WentOn DEF KVStages
<1> QED
  BY <1>1, <1>5, <1>6, EndedOtherwise, ReplyShape

LEMMA IndexResidentDone ==
  ASSUME FactsInv, CachesInv, DoneInv, IndexResidentSegment \/ IndexResidentEnd
  PROVE  DoneInv'
<1>0. cmd.at = "build" /\ cmd.op = "index" /\ UNCHANGED <<facts, plan>>
  BY DEF IndexResidentSegment, IndexResidentEnd, Running
<1>1. cmd.at = "build" /\ cmd.op = "index" /\ cmd # Idle /\ UNCHANGED <<facts, plan>>
  BY <1>0 DEF Idle
<1>2. ~facts.kv_persist
  BY <1>1 DEF DoneInv, ProgressOK
<1>3. CASE IndexResidentSegment
  <2>1. \/ Goto("build", cmd.seg + 1)
        \/ cmd' = Idle /\ reply' = Reply(cmd.op, FALSE)
    BY <1>3 DEF IndexResidentSegment, Return
  <2>2. CASE Goto("build", cmd.seg + 1)
    <3>1. PICK t : t = cmd.seg + 1
      OBVIOUS
    <3>2. Goto("build", t)
      BY <2>2, <3>1
    <3> QED
      BY <1>1, <1>2, <3>2, WentOn DEF KVStages
  <2> QED
    BY <2>1, <2>2, EndedOtherwise, ReplyShape
<1>4. CASE IndexResidentEnd
  <2> DEFINE all == \A g \in DOMAIN plan : HasResident(kv, g)
  <2>1. cmd' = Idle /\ reply' = Reply("index", all) /\ kv' = kv /\ all \in BOOLEAN
    BY <1>1, <1>4 DEF IndexResidentEnd, Return
  <2>2. CASE all
    <3>1. Admitted'
      BY <1>1, <2>1, <2>2 DEF Admitted, HasResident
    <3>2. IndexedMeansSearchable' /\ KVPersisted'
      BY <1>1, <1>2, <3>1 DEF IndexedMeansSearchable, KVPersisted
    <3> QED
      BY <2>1, <3>2, IdleDone DEF DoneInv
  <2>3. CASE ~all
    <3>1. all = FALSE
      BY <2>3
    <3>2. reply' = Reply("index", FALSE)
      BY <2>1, <3>1
    <3> QED
      BY <2>1, <3>2, EndedOtherwise, ReplyShape
  <2> QED
    BY <2>2, <2>3
<1> QED
  BY <1>3, <1>4

(* The other commands: their replies promise nothing here. *)
LEMMA SearchDone ==
  ASSUME FactsInv, DoneInv, Search \/ SearchActivate \/ SearchInfer \/ SearchEnd
  PROVE  DoneInv'
<1>0. cmd.op = "search"
  BY DEF Search, SearchActivate, SearchInfer, SearchEnd, Running
<1>1. cmd.op = "search" /\ cmd # Idle
  BY <1>0 DEF Idle
<1>2. \/ \E at \in {"activate", "infer"} : \E seg : Goto(at, seg)
      \/ \E ok \in BOOLEAN : cmd' = Idle /\ reply' = Reply(cmd.op, ok)
  BY DEF Search, SearchActivate, SearchInfer, SearchEnd, Return
<1>3. ASSUME NEW at \in {"activate", "infer"}, NEW seg, Goto(at, seg) PROVE DoneInv'
  BY <1>1, <1>3, WentOn DEF KVStages
<1>4. ASSUME NEW ok \in BOOLEAN, cmd' = Idle, reply' = Reply(cmd.op, ok) PROVE DoneInv'
  BY <1>1, <1>4, EndedOtherwise, ReplyShape
<1> QED
  BY <1>2, <1>3, <1>4

LEMMA DoneInvInductive == FactsInv /\ CachesInv /\ DoneInv /\ [Next]_vars => DoneInv'
<1> SUFFICES ASSUME FactsInv, CachesInv, DoneInv, [Next]_vars PROVE DoneInv'
  OBVIOUS
<1>1. ASSUME NEW b \in BOOLEAN, CreateSession(b) PROVE DoneInv'
  BY <1>1, EndedOtherwise, ReplyShape DEF CreateSession
<1>2. ASSUME NEW t \in Systems, AddSystem(t) PROVE DoneInv'
  <2>1. cmd' = Idle /\ \E ok : reply' = Reply("system", ok)
    BY <1>2 DEF AddSystem, Quiet
  <2> QED
    BY <2>1, EndedOtherwise, ReplyShape
<1>3. ASSUME NEW op \in Planned, Begin(op) PROVE DoneInv'
  <2>1. cmd' = [op |-> op, at |-> "run", seg |-> 0] /\ reply' = NoReply
    BY <1>3 DEF Begin
  <2>2. ProgressOK'
    BY <2>1 DEF ProgressOK, KVStages
  <2> QED
    BY <2>1, <2>2, OtherReply, ReplyShape DEF DoneInv
<1>4. ASSUME NEW op \in Planned, BeginFails(op) PROVE DoneInv'
  <2>1. cmd' = Idle /\ reply' = Reply(op, FALSE)
    BY <1>4 DEF BeginFails, Quiet
  <2> QED
    BY <2>1, EndedOtherwise, ReplyShape
<1>5. ASSUME \/ \E t \in Texts : AddToLastSegment(t) \/ AddInNewSegment(t)
             \/ AddMemoryRejected \/ NextSegment \/ NextSegmentRejected \/ DeleteCache
      PROVE  DoneInv'
  <2>1. /\ cmd.op \in {"add", "next", "delete"} /\ cmd' = Idle
        /\ \E ok : reply' = Reply(cmd.op, ok)
    BY <1>5 DEF AddToLastSegment, AddInNewSegment, AddMemoryRejected, NextSegment,
                NextSegmentRejected, DeleteCache, Running, Return
  <2> QED
    BY <2>1, EndedOtherwise, ReplyShape
<1>6. CASE Index \/ Save
  BY <1>6, IndexOrSaveDone DEF Index, Save
<1>7. CASE PersistSegment \/ PersistFile \/ PersistManifest \/ PersistEnd
  BY <1>7, PersistSegmentDone, PersistFileDone, PersistManifestDone, PersistEndDone
<1>8. CASE ClearSession \/ CreateFails
  BY <1>8, EndedOtherwise, ReplyShape DEF ClearSession, CreateFails, Quiet
<1>9. CASE DeleteSession
  <2>1. reply' = NoReply /\ cmd'.at \in {"cache", "kept"}
    BY <1>9 DEF DeleteSession
  <2>2. ProgressOK'
    BY <2>1 DEF ProgressOK, KVStages
  <2> QED
    BY <2>1, <2>2, OtherReply, ReplyShape DEF DoneInv
<1>10. CASE OtherCommand \/ Restart
  BY <1>10, EndedOtherwise, ReplyShape DEF OtherCommand, Restart, Quiet
<1>11. CASE UNCHANGED vars
  BY <1>11 DEF vars, DoneInv, ProgressOK, Written, Listed, HasDisk, HashOf, ContentOf,
               IndexedMeansSearchable, Admitted, HasResident, KVPersisted
<1> QED
  BY <1>1, <1>2, <1>3, <1>4, <1>5, <1>6, <1>7, <1>8, <1>9, <1>10, <1>11,
     IndexResidentDone, SearchDone DEF Next

LEMMA DoneInvariant == Spec => [](FactsInv /\ CachesInv /\ DoneInv)
<1>1. Init => DoneInv
  <2> SUFFICES ASSUME Init PROVE DoneInv
    OBVIOUS
  <2>1. cmd = Idle /\ reply = NoReply
    BY DEF Init
  <2> QED
    BY <2>1, ReplyShape DEF DoneInv, ProgressOK, IndexedMeansSearchable, KVPersisted,
                            Idle, KVStages, NoReply, Reply
<1>2. FactsInv /\ CachesInv /\ DoneInv /\ [Next]_vars => DoneInv'
  BY DoneInvInductive
<1> QED
  BY <1>1, <1>2, CachesInvariant, PTL DEF Spec

(* A reply that indexing succeeded means that every segment is in memory   *)
(* or in a file, so that a search is admitted, although the budget may     *)
(* evict what the same command made resident and a file may fail to load.  *)
THEOREM IndexedAlwaysSearchable == Spec => []IndexedMeansSearchable
<1>1. DoneInv => IndexedMeansSearchable
  BY DEF DoneInv
<1> QED
  BY <1>1, DoneInvariant, PTL

-----------------------------------------------------------------------------
(* What a restart finds.  In a plan that covers the memories, every one of *)
(* them is in exactly one segment.                                         *)
HoldersIn(p, m) == {i \in DOMAIN p : \E k \in DOMAIN p[i] : p[i][k] = m}

LEMMA CoveringSegments ==
  ASSUME NEW n \in Nat, n <= MaxMemories, NEW p, PlanOf(p, n), Covers(p, n)
  PROVE  /\ \A g \in DOMAIN p :
               /\ p[g][1] \in 1..n /\ LastOf(p[g]) \in p[g][1]..n
               /\ \A m \in Nat : (\E k \in DOMAIN p[g] : p[g][k] = m)
                                   <=> p[g][1] <= m /\ m <= LastOf(p[g])
         /\ \A g \in DOMAIN p : p[g][1] = IF g = 1 THEN 1 ELSE LastOf(p[g - 1]) + 1
         /\ n # 0 => p # <<>> /\ LastOf(p[Len(p)]) = n
<1>1. /\ DOMAIN p = 1..Len(p) /\ Len(p) \in Nat
      /\ \A g \in DOMAIN p : Within(p[g], n) /\ p[g] \in Segments
  <2>1. p \in Plans
    BY PlanTyped
  <2> QED
    BY <2>1, PlanFields, ElementOfSeq DEF Plans
<1>2. /\ \A g \in DOMAIN p : p[g] = Run(p[g][1], LastOf(p[g]))
      /\ \A g \in DOMAIN p : p[g][1] = IF g = 1 THEN 1 ELSE LastOf(p[g - 1]) + 1
      /\ n = IF p = <<>> THEN 0 ELSE LastOf(LastOf(p))
  BY DEF Covers
<1>3. ASSUME NEW g \in DOMAIN p
      PROVE  /\ p[g][1] \in 1..n /\ LastOf(p[g]) \in p[g][1]..n
             /\ \A m \in Nat : (\E k \in DOMAIN p[g] : p[g][k] = m)
                                 <=> p[g][1] <= m /\ m <= LastOf(p[g])
  <2>1. PICK s : s = p[g]
    OBVIOUS
  <2>2. Within(s, n) /\ s \in Segments /\ s = Run(s[1], LastOf(s))
    BY <1>1, <1>2, <1>3, <2>1
  <2>3. LastOf(s) <= n
    BY <2>2, WithinBounds DEF LastOf
  <2>4. /\ s[1] \in 1..n /\ LastOf(s) \in s[1]..n
        /\ \A i \in 1..Len(s) : s[i] = s[1] + i - 1
        /\ Len(s) = LastOf(s) - s[1] + 1
    BY <2>2, <2>3, HashedSegment
  <2>5. DOMAIN s = 1..Len(s)
    BY <2>2, WithinBounds
  <2>6. ASSUME NEW m \in Nat
        PROVE  (\E k \in DOMAIN s : s[k] = m) <=> s[1] <= m /\ m <= LastOf(s)
    <3>0. PICK a, b, l : a = s[1] /\ b = LastOf(s) /\ l = Len(s)
      OBVIOUS
    <3>3. /\ a \in 1..n /\ b \in a..n /\ l = b - a + 1 /\ DOMAIN s = 1..l
          /\ \A i \in 1..l : s[i] = a + i - 1
      BY <2>4, <2>5, <3>0
    <3>1. ASSUME NEW k \in DOMAIN s, s[k] = m PROVE a <= m /\ m <= b
      BY <3>1, <3>3
    <3>2. ASSUME a <= m, m <= b PROVE \E k \in DOMAIN s : s[k] = m
      <4>1. PICK k : k = m - a + 1
        OBVIOUS
      <4>2. k \in 1..l /\ a + k - 1 = m
        BY <3>2, <3>3, <4>1
      <4> QED
        BY <3>3, <4>2
    <3> QED
      BY <3>0, <3>1, <3>2
  <2> QED
    BY <2>1, <2>4, <2>6
<1> QED
  BY <1>2, <1>3 DEF LastOf

LEMMA OneHolder ==
  ASSUME NEW n \in Nat, n <= MaxMemories, NEW p, PlanOf(p, n), Covers(p, n), NEW m \in 1..n
  PROVE  Cardinality(HoldersIn(p, m)) = 1
<1> DEFINE first(g) == p[g][1]
           last(g) == LastOf(p[g])
           N == Len(p)
<1>1. n # 0 /\ m \in Nat
  OBVIOUS
<1>2. /\ DOMAIN p = 1..N /\ N \in Nat /\ N # 0 /\ last(N) = n
      /\ \A g \in 1..N : /\ first(g) \in 1..n /\ last(g) \in first(g)..n
                         /\ (\E k \in DOMAIN p[g] : p[g][k] = m) <=> first(g) <= m /\ m <= last(g)
      /\ \A g \in 1..N : first(g) = IF g = 1 THEN 1 ELSE last(g - 1) + 1
  BY <1>1, CoveringSegments, PlanFields
<1>3. HoldersIn(p, m) = {g \in 1..N : first(g) <= m /\ m <= last(g)}
  BY <1>2 DEF HoldersIn
<1> HIDE DEF first, last, N
<1>4. PICK g \in 1..N : m <= last(g) /\ \A h \in 1..N : m <= last(h) => g <= h
  <2> DEFINE T == {h \in 1..N : m <= last(h)}
  <2>1. T \in SUBSET Nat /\ N \in T
    BY <1>2
  <2>2. PICK g \in T : \A h \in T : g <= h
    BY <2>1, LeastNatural
  <2> QED
    BY <2>2
<1>5. first(g) <= m
  <2>1. CASE g = 1
    BY <1>2, <2>1
  <2>2. CASE g # 1
    <3>1. g - 1 \in 1..N /\ ~(g <= g - 1)
      BY <1>2, <2>2
    <3>2. ~(m <= last(g - 1)) /\ last(g - 1) \in Nat
      BY <1>2, <1>4, <3>1, SMTT(20)
    <3> QED
      BY <1>2, <2>2, <3>2
  <2> QED
    BY <2>1, <2>2
<1>6. ASSUME NEW h \in 1..N, g < h PROVE last(g) < first(h)
  <2> DEFINE T == {j \in 1..N : g < j /\ ~(last(g) < first(j))}
  <2> SUFFICES ASSUME T # {} PROVE FALSE
    BY <1>6
  <2>1. T \in SUBSET Nat
    BY <1>2
  <2>2. PICK j \in T : \A i \in T : j <= i
    BY <2>1, LeastNatural
  <2>3. j \in 1..N /\ g < j /\ ~(last(g) < first(j))
    BY <2>2
  <2>4. j - 1 \in 1..N /\ j # 1 /\ ~(j <= j - 1) /\ first(j) = last(j - 1) + 1
    <3> HIDE DEF T
    <3>1. N \in Nat
      BY <1>2
    <3>2. j - 1 \in 1..N /\ j # 1 /\ ~(j <= j - 1) /\ j \in 1..N
      BY <2>3, <3>1
    <3> QED
      BY <1>2, <3>2
  <2>5. last(g) \in Nat /\ last(j - 1) \in Nat /\ first(j - 1) \in Nat /\ first(j - 1) <= last(j - 1)
    <3>1. ASSUME NEW i \in 1..N
          PROVE  last(i) \in Nat /\ first(i) \in Nat /\ first(i) <= last(i)
      <4>1. first(i) \in 1..n /\ last(i) \in first(i)..n
        BY <1>2
      <4> QED
        BY <4>1
    <3> QED
      BY <2>4, <3>1
  <2>6. CASE g = j - 1
    BY <2>3, <2>4, <2>5, <2>6
  <2>7. CASE g < j - 1
    <3>1. j - 1 \notin T
      <4> HIDE DEF T
      <4> QED
        BY <2>2, <2>4
    <3>2. last(g) < first(j - 1)
      BY <2>4, <2>7, <3>1
    <3> QED
      BY <2>3, <2>4, <2>5, <3>2
  <2>8. g \in Nat /\ j \in Nat
    BY <1>2, <2>3
  <2> HIDE DEF T
  <2> QED
    BY <2>3, <2>6, <2>7, <2>8
<1>7. ASSUME NEW h \in 1..N, first(h) <= m, m <= last(h) PROVE h = g
  <2>1. g <= h
    BY <1>4, <1>7
  <2>2. ~(g < h)
    <3>1. first(h) \in Nat /\ last(g) \in Nat
      BY <1>2
    <3> QED
      BY <1>1, <1>4, <1>6, <1>7, <3>1
  <2> QED
    BY <1>2, <2>1, <2>2
<1>8. HoldersIn(p, m) = {g}
  BY <1>3, <1>4, <1>5, <1>7
<1> QED
  BY <1>8, FS_Singleton

LEMMA ListedFits ==
  ASSUME DataOK, plan # None, plan # <<>>, PlanCoversMemories, manifest = Listed(Len(plan))
  PROVE  /\ LoadedPlans(facts) = {plan}
         /\ DOMAIN manifest = DOMAIN plan /\ manifest # None
         /\ \A g \in DOMAIN plan : manifest[g] = HashOf(facts, plan[g])
<1> DEFINE n == Len(facts.memories)
           N == Len(plan)
<1>1. Held(facts) /\ PlanOf(plan, n) /\ n \in Nat /\ n <= MaxMemories /\ Covers(plan, n)
  BY MemoriesOf DEF DataOK, PlanCoversMemories
<1>2. /\ DOMAIN plan = 1..N /\ N \in Nat /\ N # 0
      /\ plan = [g \in DOMAIN plan |-> plan[g]]
  BY <1>1, PlanFields
<1>3. /\ DOMAIN manifest = 1..N
      /\ \A g \in 1..N : /\ manifest[g] = HashOf(facts, plan[g])
                         /\ manifest[g].indices = plan[g]
  BY DEF Listed, HashOf
<1>4. \A g \in 1..N : HashOf(facts, plan[g]) \in [indices : Segments, content : ContentType]
  BY <1>2, TargetOf DEF DataOK
<1>5. manifest \in Manifests /\ Len(manifest) = N
  <2> DEFINE H == [indices : Segments, content : ContentType]
             hash(g) == HashOf(facts, plan[g])
  <2>1. manifest = [g \in 1..N |-> hash(g)]
    BY DEF Listed
  <2>2. \A g \in 1..N : hash(g) \in H
    BY <1>4
  <2>m. Manifests = Seq(H)
    BY DEF Manifests
  <2> HIDE DEF N, H, hash
  <2>4. manifest \in [1..N -> H]
    BY <2>1, <2>2
  <2>5. manifest \in Seq(H)
    BY <1>2, <2>4, SeqDef
  <2>3. 1..Len(manifest) = 1..N /\ Len(manifest) \in Nat
    BY <1>3, <2>5, LenProperties
  <2> QED
    BY <1>2, <2>3, <2>5, <2>m
<1>6. manifest # None /\ manifest # <<>>
  BY <1>2, <1>5, NoneAssumption, EmptySeq
<1>7. [i \in DOMAIN manifest |-> manifest[i].indices] = plan
  BY <1>2, <1>3
<1>8. \A m : {i \in DOMAIN manifest : \E k \in DOMAIN manifest[i].indices :
                                          manifest[i].indices[k] = m} = HoldersIn(plan, m)
  BY <1>2, <1>3 DEF HoldersIn
<1> HIDE DEF n, N
<1>9. \A i \in DOMAIN manifest : SameHash(facts, manifest[i])
  <2> SUFFICES ASSUME NEW i \in DOMAIN manifest PROVE SameHash(facts, manifest[i])
    OBVIOUS
  <2>1. i \in DOMAIN plan /\ manifest[i] = HashOf(facts, plan[i]) /\ manifest[i].indices = plan[i]
    BY <1>2, <1>3
  <2>2. plan[i] = Run(plan[i][1], LastOf(plan[i]))
    BY <1>1, <2>1 DEF Covers
  <2>3. LastOf(plan[i]) <= n
    BY <1>1, <2>1, CoveringSegments
  <2> QED
    BY <2>1, <2>2, <2>3 DEF SameHash, n
<1>10. \A m \in 1..n : Cardinality(HoldersIn(plan, m)) = 1
  BY <1>1, OneHolder
<1>11. n # 0
  <2> SUFFICES ASSUME n = 0 PROVE FALSE
    OBVIOUS
  <2>1. 1 \in DOMAIN plan
    BY <1>2
  <2>2. plan[1][1] \in 1..n
    BY <1>1, <2>1, CoveringSegments
  <2> QED
    BY <2>2
<1>12. ManifestFits(facts)
  BY <1>6, <1>8, <1>9, <1>10 DEF ManifestFits, n
<1> QED
  BY <1>2, <1>3, <1>6, <1>7, <1>11, <1>12 DEF LoadedPlans, n

(* After a successful index or save of a session that persists its KV, a   *)
(* restart that finds the session at all (its copy was not lost by a       *)
(* delete that failed) finds the same facts, makes the same plan from the  *)
(* manifest and finds a file for every segment, however many crashes,      *)
(* failed writes and evictions came before it.                             *)
THEOREM PersistedAlwaysRestorable ==
  ASSUME PlanMayFail = FALSE
  PROVE  Spec => []PersistedMeansRestorable
<1>1. ASSUME CachesInv, DoneInv, CoverInv PROVE PersistedMeansRestorable
  <2> SUFFICES ASSUME reply \in {Reply("index", TRUE), Reply("save", TRUE)},
                      facts # None, facts.kv_persist, stored # Husk
               PROVE  /\ stored = facts
                      /\ LoadedPlans(stored) = {plan}
                      /\ \A g \in DOMAIN plan : RefreshedMeta(stored, plan)[g] = "DiskOnly"
    BY DEF PersistedMeansRestorable
  <2>1. /\ stored = facts /\ plan # None /\ plan # <<>> /\ manifest = Listed(Len(plan))
        /\ \A g \in DOMAIN plan : file[g] # None
    BY <1>1 DEF DoneInv, KVPersisted
  <2>2. DataOK /\ PlanCoversMemories
    BY <1>1 DEF CachesInv, CoverInv
  <2>3. /\ LoadedPlans(facts) = {plan}
        /\ DOMAIN manifest = DOMAIN plan /\ manifest # None
        /\ \A g \in DOMAIN plan : manifest[g] = HashOf(facts, plan[g])
    BY <2>1, <2>2, ListedFits
  <2>4. DOMAIN plan \subseteq Segs
    BY <2>1, <2>2, MemoriesOf, PlanFields DEF DataOK
  <2>5. \A g \in DOMAIN plan : RefreshedMeta(facts, plan)[g] = "DiskOnly"
    BY <2>1, <2>3, <2>4 DEF RefreshedMeta
  <2> QED
    BY <2>1, <2>3, <2>5
<1> QED
  BY <1>1, DoneInvariant, CoverInvariant, PTL
=============================================================================
