---------------------------- MODULE SessionFiles ----------------------------
(***************************************************************************)
(* The directory of one session: session.meta, which holds the system      *)
(* text, the settings and the number of memories, and memories.bin.  Each  *)
(* file is written to a temporary file and renamed over the old one; the   *)
(* server may stop between any two steps, and every step may fail.         *)
(*                                                                         *)
(* Abstractions: a temporary file is read by nobody and holds the facts of *)
(* the command that runs, so it is no variable.  The manual boundaries and *)
(* kv_persist, which only grow, are the number of changes made to them.    *)
(* Which appends save at once depends on the plan (SessionKV); here both   *)
(* may happen at any append.                                               *)
(***************************************************************************)
EXTENDS Naturals, Sequences

CONSTANTS
    Texts,        \* memory texts
    Systems,      \* system texts a client may set
    MaxMemories,  \* bound on the memories of the session (not in the code)
    MaxSettings,  \* bound on the changes of the settings (not in the code)
    None          \* an absent session or file

VARIABLES
    facts,   \* the store of the session in memory, or None
    dirty,   \* session.facts_dirty
    dir,     \* whether the session directory exists
    meta,    \* session.meta, or None
    mems,    \* memories.bin, or None
    op,      \* the step the command that runs is at
    acked    \* history: the facts last reported as saved, or None once the
             \* client asked to delete them or a failed rename removed them

vars == <<facts, dirty, dir, meta, mems, op, acked>>

-----------------------------------------------------------------------------
AnySystem == Systems \cup {""}
FactsType == [system : AnySystem, settings : 0..MaxSettings, memories : Seq(Texts)]
MetaType == [system : AnySystem, settings : 0..MaxSettings, count : Nat]

ASSUME BoundsAssumption == MaxMemories \in Nat /\ MaxSettings \in Nat
ASSUME NoneAssumption == None \notin FactsType /\ None \notin MetaType /\ None \notin Seq(Texts)

NewFacts == [system |-> "", settings |-> 0, memories |-> <<>>]

MetaOf(f) == [system |-> f.system, settings |-> f.settings, count |-> Len(f.memories)]

(* Defect: every record of memories.bin is read, whatever session.meta     *)
(* counts.                                                                 *)
LoadedUncounted(header, records) ==
    IF header = None \/ (header.count # 0 /\ records = None) THEN None
    ELSE [system |-> header.system, settings |-> header.settings,
          memories |-> IF header.count = 0 THEN <<>> ELSE records]

(* load_session: the first records of memories.bin, as many as             *)
(* session.meta counts; memories.bin is not opened when it counts none.    *)
Loaded(header, records) ==
    IF \/ header = None
       \/ header.count # 0 /\ (records = None \/ header.count > Len(records))
    THEN None
    ELSE [system |-> header.system, settings |-> header.settings,
          memories |-> IF header.count = 0 THEN <<>> ELSE SubSeq(records, 1, header.count)]

OnDisk == Loaded(meta, mems)

Init ==
    /\ facts = None /\ dirty = FALSE
    /\ dir = FALSE /\ meta = None /\ mems = None
    /\ op = "idle" /\ acked = None

Quiet == op = "idle" /\ facts # None

(* create_session refuses an id whose directory exists; save_session_      *)
(* metadata then makes the directory.                                      *)
Create ==
    /\ op = "idle" /\ facts = None /\ ~dir
    /\ dir' = TRUE /\ op' = "create"
    /\ UNCHANGED <<facts, dirty, meta, mems, acked>>

(* The session exists once its session.meta is written.  A create that     *)
(* fails leaves the directory.                                             *)
CreateMeta ==
    /\ op = "create"
    /\ op' = "idle"
    /\ \/ /\ meta' = MetaOf(NewFacts)
          /\ facts' = NewFacts /\ dirty' = FALSE /\ acked' = NewFacts
       \/ UNCHANGED <<meta, facts, dirty, acked>>
    /\ UNCHANGED <<dir, mems>>

(* Defect: the system text may be set when there are memories.             *)
AddSystemLate(system) ==
    /\ Quiet
    /\ facts' = [facts EXCEPT !.system = system] /\ dirty' = TRUE
    /\ op' = "meta"
    /\ UNCHANGED <<dir, meta, mems, acked>>

(* add_system: before the first memory, so that session.meta is enough.    *)
AddSystem(system) ==
    /\ Quiet /\ facts.memories = <<>>
    /\ facts' = [facts EXCEPT !.system = system] /\ dirty' = TRUE
    /\ op' = "meta"
    /\ UNCHANGED <<dir, meta, mems, acked>>

(* add_memory: most appends are not saved. *)
AddMemory(text) ==
    /\ Quiet /\ Len(facts.memories) < MaxMemories
    /\ facts' = [facts EXCEPT !.memories = Append(@, text)] /\ dirty' = TRUE
    /\ op' \in {"idle", "memories"}
    /\ UNCHANGED <<dir, meta, mems, acked>>

(* next_segment adds a boundary, save_session sets kv_persist; both need a *)
(* memory and save at once.                                                *)
Configure ==
    /\ Quiet /\ facts.memories # <<>> /\ facts.settings < MaxSettings
    /\ facts' = [facts EXCEPT !.settings = @ + 1] /\ dirty' = TRUE
    /\ op' = "memories"
    /\ UNCHANGED <<dir, meta, mems, acked>>

(* persist_session_store_if_dirty, at the start of index and save. *)
SaveDirty ==
    /\ Quiet /\ dirty
    /\ op' = "memories"
    /\ UNCHANGED <<facts, dirty, dir, meta, mems, acked>>

(* A file that could not be written or renamed is as before, or it is      *)
(* gone: when the rename fails the target is removed, and the rename that  *)
(* is tried again may fail as well.                                        *)
FailedToReplace(old, new) == new \in {old, None}

StillAcked(replaced) == IF replaced THEN None ELSE acked

(* Defect: save_session replaces session.meta first. *)
WriteMemoriesLast ==
    /\ dir' = TRUE
    /\ \/ op = "memories" /\ meta' = MetaOf(facts) /\ op' = "records"
          /\ UNCHANGED <<mems, acked, dirty>>
       \/ op = "records" /\ mems' = facts.memories /\ op' = "idle"
          /\ dirty' = FALSE /\ acked' = facts /\ UNCHANGED meta
    /\ UNCHANGED facts

(* save_session replaces memories.bin first. *)
WriteMemories ==
    /\ op = "memories"
    /\ dir' = TRUE
    /\ \/ mems' = facts.memories /\ op' = "meta" /\ UNCHANGED <<dirty, acked>>
       \/ /\ FailedToReplace(mems, mems')
          /\ op' = "idle" /\ dirty' = TRUE
          /\ acked' = StillAcked(mems' # mems)
    /\ UNCHANGED <<facts, meta>>

(* Defect: the flag is cleared although session.meta was not written.      *)
WriteMetaClean ==
    /\ op = "meta"
    /\ op' = "idle" /\ dir' = TRUE
    /\ \/ meta' = MetaOf(facts) /\ dirty' = FALSE /\ acked' = facts
       \/ UNCHANGED <<meta, acked>> /\ dirty' = FALSE
    /\ UNCHANGED <<facts, mems>>

(* Renaming session.meta is the moment the new facts replace the old.      *)
WriteMeta ==
    /\ op = "meta"
    /\ op' = "idle" /\ dir' = TRUE
    /\ \/ meta' = MetaOf(facts) /\ dirty' = FALSE /\ acked' = facts
       \/ /\ FailedToReplace(meta, meta')
          /\ dirty' = TRUE
          /\ acked' = StillAcked(meta' # meta)
    /\ UNCHANGED <<facts, mems>>

(* delete_session: remove_all takes the files in any order, then the       *)
(* directory; the session goes only when all of it is gone.                *)
Delete ==
    /\ Quiet
    /\ op' = "delete" /\ acked' = None
    /\ UNCHANGED <<facts, dirty, dir, meta, mems>>

RemoveFile ==
    /\ op = "delete"
    /\ \/ meta # None /\ meta' = None /\ UNCHANGED mems
       \/ mems # None /\ mems' = None /\ UNCHANGED meta
    /\ UNCHANGED <<facts, dirty, dir, op, acked>>

(* Defect: memories.bin is not waited for. *)
RemoveDirectoryEarly ==
    /\ op = "delete" /\ meta = None
    /\ dir' = FALSE /\ facts' = None /\ dirty' = FALSE
    /\ op' = "idle"
    /\ UNCHANGED <<meta, mems, acked>>

RemoveDirectory ==
    /\ op = "delete" /\ meta = None /\ mems = None
    /\ dir' = FALSE /\ facts' = None /\ dirty' = FALSE
    /\ op' = "idle"
    /\ UNCHANGED <<meta, mems, acked>>

(* Defect: the session is erased although its directory is not. *)
DeleteFailsErasing ==
    /\ op = "delete"
    /\ op' = "idle" /\ facts' = None /\ dirty' = FALSE
    /\ UNCHANGED <<dir, meta, mems, acked>>

DeleteFails ==
    /\ op = "delete"
    /\ op' = "idle"
    /\ UNCHANGED <<facts, dirty, dir, meta, mems, acked>>

(* The process ends, at any step, and starts again: scan_sessions takes    *)
(* what loads and passes over what does not.                               *)
Restart ==
    /\ facts' = OnDisk /\ dirty' = FALSE
    /\ op' = "idle"
    /\ UNCHANGED <<dir, meta, mems, acked>>

Next ==
    \/ Create \/ CreateMeta
    \/ \E s \in Systems : AddSystem(s)
    \/ \E t \in Texts : AddMemory(t)
    \/ Configure \/ SaveDirty
    \/ WriteMemories \/ WriteMeta
    \/ Delete \/ RemoveFile \/ RemoveDirectory \/ DeleteFails
    \/ Restart

Spec == Init /\ [][Next]_vars

-----------------------------------------------------------------------------
(* The shape of the state; files are in the directory, and the step of a   *)
(* command that writes them belongs to a session.                          *)
TypeOK ==
    /\ facts \in FactsType \cup {None}
    /\ dirty \in BOOLEAN /\ dir \in BOOLEAN
    /\ meta \in MetaType \cup {None}
    /\ mems \in Seq(Texts) \cup {None}
    /\ op \in {"idle", "create", "memories", "meta", "delete"}
    /\ acked \in FactsType \cup {None}
    /\ ~dir => meta = None /\ mems = None
    /\ op \in {"memories", "meta", "delete"} => facts # None

(* What was reported as saved is what a restart loads, whatever happened   *)
(* since: appends, a save that failed or was cut off after memories.bin.   *)
AckedSurvives == acked # None => OnDisk = acked

(* A session that is not marked dirty is the one on disk: never an older   *)
(* state of it.  Only a delete that was asked for, and failed after it had *)
(* removed a file, leaves one that is in no copy.                          *)
CleanMeansLoadable ==
    facts # None /\ ~dirty => OnDisk = facts \/ (acked = None /\ OnDisk = None)

(* A session the server does not have cannot be loaded either: nothing     *)
(* comes back after a restart that was gone before it.                     *)
GoneStaysGone == op = "idle" /\ facts = None => OnDisk = None

(* The two files implement one copy that is replaced as a whole. *)
Durable == INSTANCE DurableMemory WITH
    Settings <- 0..MaxSettings, Partial <- TRUE, memory <- facts, saved <- OnDisk

DurableSpec == Durable!Spec

(* A restart brings back the first memories of the session, under the      *)
(* system text they were added with, or nothing.                           *)
RestoresPrefix == Durable!SavedIsPrefix

=============================================================================
