-------------------------- MODULE SessionKVPromise --------------------------
(***************************************************************************)
(* What SessionKV promises to a client: its refinement mappings to         *)
(* DurableMemory and SearchableMemory, and the fairness under which every  *)
(* command ends.                                                           *)
(***************************************************************************)
EXTENDS SessionKV

FactsOf(f) ==
    IF f = None THEN None
    ELSE [system |-> f.system, memories |-> f.memories,
          settings |-> [boundaries |-> f.boundaries, kv_persist |-> f.kv_persist]]

SettingsType == [boundaries : SUBSET (1..MaxMemories + 1), kv_persist : BOOLEAN]

ASSUME FactsOfNoneAssumption ==
    None \notin [system : Systems \cup {""}, memories : Seq(Texts), settings : SettingsType]

(* The memories of the segments that were searched; the piece shown to the *)
(* model is what the active context was computed from.                     *)
Searched == IF cmd.at = "run" \/ cmd.seg = 1 THEN 0 ELSE LastOf(plan[cmd.seg - 1])
Shown == IF cmd.at = "infer" THEN kv.active.content ELSE <<>>

QueryNow ==
    IF cmd.op = "search" THEN [state |-> "running", done |-> Searched, piece |-> Shown]
    ELSE [state |-> IF reply = Reply("search", TRUE) THEN "answered" ELSE "none",
          done |-> 0, piece |-> <<>>]

Durable == INSTANCE DurableMemory WITH
    Settings <- SettingsType, Partial <- FALSE,
    memory <- FactsOf(facts), saved <- FactsOf(Restored)

Searchable == INSTANCE SearchableMemory WITH
    Settings <- SettingsType, Partial <- FALSE,
    memory <- FactsOf(facts), saved <- FactsOf(Restored), query <- QueryNow

-----------------------------------------------------------------------------
(* The worker thread goes on with the command it runs: each call of the    *)
(* inference library and of the file system returns.  Clients need not     *)
(* send commands and the process need not stop.                            *)
CommandStep ==
    \/ \E t \in Texts : AddToLastSegment(t) \/ AddInNewSegment(t)
    \/ AddMemoryRejected \/ NextSegment \/ NextSegmentRejected
    \/ Index \/ Save
    \/ IndexResidentSegment \/ IndexResidentEnd
    \/ PersistSegment \/ PersistFile \/ PersistManifest \/ PersistEnd
    \/ Search \/ SearchActivate \/ SearchInfer \/ SearchEnd
    \/ DeleteCache

FairSpec == Spec /\ WF_vars(CommandStep)

(* What a restart brings back is, whatever crashes, saves or deletes that  *)
(* fail came before, the facts of some moment as a whole, or nothing; and  *)
(* a session that ends was gone from disk before it left memory.           *)
DurableSpec == Durable!Spec

(* A search that is answered has shown the model every memory the session  *)
(* has, once and in order, under its system text, whatever was appended,   *)
(* indexed, evicted, saved, reloaded or interrupted before.                *)
SearchableSpec == Searchable!SearchableSpec

(* Every command ends, and with it the wait of all the others: no loop     *)
(* over segments, files or retries goes on for ever.                       *)
CommandEnds == cmd # Idle ~> cmd = Idle

=============================================================================
