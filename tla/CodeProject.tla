---------------------------- MODULE CodeProject ----------------------------
(***************************************************************************)
(* atcode: a client that indexes a repository into one session of the      *)
(* server and keeps two files of its own, index.json with the counts and   *)
(* chunks.jsonl with the records that search results are looked up in.     *)
(* A command is a sequence of requests and file operations; it may end     *)
(* between any two of them, the server may restart between any two of      *)
(* them, and the repository may be edited meanwhile.                       *)
(*                                                                         *)
(* Abstractions: a chunk is its file and its place in it, which is what    *)
(* chunk_id is made of, and a file is the number of its chunks.  One       *)
(* command runs at a time.  Segments are left out: the KV cache is that of *)
(* every memory or counts as none, the manifest lists the first memories,  *)
(* as many as its segments hold, and next_segment is free to succeed where *)
(* there is a boundary.  Which appends the server writes at once and       *)
(* whether kv_persist is set are free.  A server step is one request.      *)
(* Plans are complete, a KV file that is listed and exists is taken for    *)
(* that of its segment, and the KV files of a deleted session go with it;  *)
(* SessionKV has the cases where they are not, or do not.  A Husk loads    *)
(* again only once the facts are saved again.                              *)
(***************************************************************************)
EXTENDS Naturals, Sequences, FiniteSets, SequencesExt

CONSTANTS
    Scanned,    \* the files the default scan finds, in its order
    Extras,     \* files only `index --file` brings in
    MaxChunks,  \* bound on the chunks of each file (not in the code)
    MaxEdits,   \* bound on the edits after a create_session (not in the code)
    Husk,       \* a session directory that cannot be loaded
    None        \* an absent session, file or KV cache

Files == ToSet(Scanned) \cup Extras

ASSUME FilesAssumption ==
    /\ Scanned \in Seq(Files) /\ IsFiniteSet(Extras) /\ Extras \cap ToSet(Scanned) = {}
    /\ MaxChunks \in [Files -> Nat] /\ MaxEdits \in Nat

VARIABLES
    repo,      \* the number of chunks of each file, 0 when there is none
    include,   \* the files of [include] in config.toml
    index,     \* memory_count in index.json, or None
    chunks,    \* the ids in chunks.jsonl, or None
    session,   \* the memories of the session in the server, or None
    saved,     \* its directory: the memories that load, Husk or None
    dirty,     \* session.facts_dirty
    planned,   \* whether the segment plan is in memory
    kv,        \* whether the KV cache of every memory is in memory or on disk
    onDisk,    \* whether it is on disk, by the metadata kept with the plan
    cached,    \* the memories kv_manifest lists, all their files there, or None
    cmd,       \* the command that runs, or the last one
    edited,    \* history: the edits of the repository since create_session
    doubted    \* history: the records were written after a loss, or by a
               \* resume after an edit

local == <<include, index, chunks>>
server == <<session, saved, dirty, planned, kv, onDisk, cached>>
vars == <<repo, local, server, cmd, edited, doubted>>

-----------------------------------------------------------------------------
Header(f) == <<f, 0>>
ChunksOf(f) == {<<f, i>> : i \in 1..repo[f]}
MemoriesOf(f) == [i \in 1..(repo[f] + 1) |-> <<f, i - 1>>]
Ids == UNION {{<<f, i>> : i \in 1..MaxChunks[f]} : f \in Files}
Memories == UNION {{<<f, i>> : i \in 0..MaxChunks[f]} : f \in Files}

ASSUME NoneAssumption ==
    /\ None \notin Seq(Memories) \cup Nat \cup {Husk} /\ Husk \notin Seq(Memories)
    /\ \A records \in SUBSET Ids : records # None

(* The files iter_indexed_files goes through, and the records of a scan    *)
(* that keeps those of files it does not find.                             *)
ToScan == Scanned \o include
Found == {f \in ToSet(ToScan) : repo[f] > 0}
Preserved == IF chunks = None THEN {} ELSE {r \in chunks : r[1] \notin Found}
ScanRecords == Preserved \cup UNION {ChunksOf(f) : f \in Found}
MemoryCount(records) == Cardinality({r[1] : r \in records}) + Cardinality(records)

(* A plan is restored with its KV cache from a manifest that covers the    *)
(* session, and is rebuilt without it from another.                        *)
Listed == cached # None /\ cached = session
KV == IF planned THEN kv ELSE Listed
OnDisk == IF planned THEN onDisk ELSE Listed
PlanReady == planned' = TRUE /\ kv' = KV /\ onDisk' = OnDisk

(* status.indexed and status.disk_cached: without a plan the segments are  *)
(* those of the manifest, however few of the memories they hold.           *)
StatusIndexed ==
    session # None /\ IF planned THEN session # <<>> /\ kv ELSE cached # None
StatusCached ==
    session # None /\ IF planned THEN session # <<>> /\ onDisk ELSE cached # None

(* persist_session_store, and persist_if_dirty: a session that is not      *)
(* marked dirty is not written, wherever its files are.                    *)
Persist == saved' = session' /\ dirty' = FALSE
PersistFails == saved' \in {saved, Husk} /\ dirty' = TRUE
SaveIfDirty == IF dirty THEN Persist ELSE UNCHANGED <<saved, dirty>>

Idle(op, at) ==
    [op |-> op, at |-> at, rest |-> <<>>, pending |-> <<>>, records |-> {}, count |-> 0,
     file |-> None, lost |-> FALSE, trusted |-> FALSE]

Command(op, at) == cmd' = Idle(op, at)
Goto(at) == cmd' = [cmd EXCEPT !.at = at]
Done == cmd' = [Idle(cmd.op, "done") EXCEPT !.lost = cmd.lost, !.trusted = cmd.trusted]
Failed == Command("none", "error")
At(at) == cmd.at = at
Free == cmd.at \in {"done", "error"}

Init ==
    /\ repo \in {r \in [Files -> UNION {0..MaxChunks[f] : f \in Files}] :
                   \A f \in Files : r[f] <= MaxChunks[f]}
    /\ include = <<>> /\ index = None /\ chunks = None
    /\ session = None /\ saved = None /\ dirty = FALSE
    /\ planned = FALSE /\ kv = FALSE /\ onDisk = FALSE /\ cached = None
    /\ cmd = Idle("none", "done")
    /\ edited = 0 /\ doubted = FALSE

(* A request fails before it has an effect, its reply is lost after it had *)
(* one, a check of the client fails, or the client is killed.              *)
Interrupted ==
    /\ ~Free
    /\ Failed
    /\ UNCHANGED <<repo, local, server, edited, doubted>>

-----------------------------------------------------------------------------
(* index, with neither local file there, and build_index. *)
StartIndex ==
    /\ Free /\ index = None /\ chunks = None
    /\ Command("build", "create")
    /\ UNCHANGED <<repo, local, server, edited, doubted>>

(* create_session and add_system, which drops the plan.  A create that     *)
(* fails may leave the directory.                                          *)
CreateSession ==
    /\ At("create") /\ session = None /\ saved = None
    /\ \/ /\ session' = <<>> /\ Persist
          /\ edited' = 0
          /\ cmd' = [cmd EXCEPT !.at = "file", !.rest = ToScan]
       \/ /\ session' = <<>> /\ dirty' = TRUE /\ saved' \in {<<>>, Husk}
          /\ edited' = 0 /\ Failed
       \/ /\ saved' = Husk /\ Failed
          /\ UNCHANGED <<session, dirty, edited>>
    /\ UNCHANGED <<repo, local, planned, kv, onDisk, cached, doubted>>

(* A file is read when its turn comes; one that was there before is passed *)
(* over, so that an included file of the scan is read once.                *)
Seen == {r[1] : r \in cmd.records}

ReadFile ==
    /\ At("file") /\ cmd.pending = <<>> /\ cmd.rest # <<>>
    /\ LET f == Head(cmd.rest) IN
       cmd' = [cmd EXCEPT
                 !.rest = Tail(@),
                 !.pending = IF repo[f] = 0 \/ f \in Seen THEN <<>> ELSE MemoriesOf(f)]
    /\ UNCHANGED <<repo, local, server, edited, doubted>>

(* next_segment saves the session: before a header of a scan, and first    *)
(* when a file is added to an index that has records.                      *)
NextSegment ==
    /\ session \notin {None, <<>>}
    /\ \/ At("file") /\ cmd.op = "build" /\ cmd.pending # <<>> /\ Head(cmd.pending)[2] = 0
       \/ At("seal")
    /\ UNCHANGED session /\ PlanReady
    /\ \/ Persist /\ Goto("file")
       \/ PersistFails /\ Failed
    /\ UNCHANGED <<repo, local, cached, edited, doubted>>

(* add_memory.  A record is kept for each chunk, none for a header.        *)
AddMemory ==
    /\ At("file") /\ cmd.pending # <<>> /\ session # None
    /\ LET memory == Head(cmd.pending) IN
       /\ session' = Append(session, memory)
       /\ \/ /\ Persist \/ (dirty' = TRUE /\ UNCHANGED saved)
             /\ cmd' = [cmd EXCEPT
                          !.pending = Tail(@),
                          !.records = @ \cup IF memory[2] = 0 THEN {} ELSE {memory},
                          !.count = @ + 1]
          \/ PersistFails /\ Failed
    /\ planned' = TRUE /\ kv' = FALSE /\ onDisk' = FALSE
    /\ UNCHANGED <<repo, local, cached, edited, doubted>>

(* build_index gives up when there was nothing to add. *)
AllAdded ==
    /\ At("file") /\ cmd.pending = <<>> /\ cmd.rest = <<>>
    /\ IF cmd.records = {} THEN Failed ELSE Goto("index")
    /\ UNCHANGED <<repo, local, server, edited, doubted>>

(* index_session: the facts if dirty, then the KV cache of every segment,  *)
(* written to its file and listed with kv_persist.                         *)
AfterIndex(persisted) ==
    CASE cmd.op = "build" -> "save"
      [] cmd.op = "add" -> "indexed"
      [] cmd.op = "resume" -> IF persisted THEN "status" ELSE "save"

IndexSession ==
    /\ At("index") /\ session \notin {None, <<>>}
    /\ UNCHANGED session /\ SaveIfDirty
    /\ planned' = TRUE /\ kv' = TRUE
    /\ \/ onDisk' = TRUE /\ cached' = session /\ Goto(AfterIndex(TRUE))
       \/ onDisk' = OnDisk /\ UNCHANGED cached /\ Goto(AfterIndex(FALSE))
    /\ UNCHANGED <<repo, local, edited, doubted>>

(* save_session: the facts if dirty, then the KV cache, then the facts     *)
(* again if kv_persist was not set before.                                 *)
SaveSession ==
    /\ At("save") /\ session \notin {None, <<>>}
    /\ UNCHANGED session
    /\ planned' = TRUE /\ kv' = TRUE /\ onDisk' = TRUE /\ cached' = session
    /\ \/ (SaveIfDirty \/ Persist) /\ Goto("check")
       \/ saved' \in {IF dirty THEN session ELSE saved, Husk} /\ dirty' = TRUE /\ Failed
    /\ UNCHANGED <<repo, local, edited, doubted>>

(* index or save fails, or the server dies, after the facts: the manifest  *)
(* is written anew after each segment.                                     *)
IndexCutOff ==
    /\ cmd.at \in {"index", "save"} /\ session \notin {None, <<>>}
    /\ UNCHANGED session /\ SaveIfDirty
    /\ planned' = TRUE
    /\ kv' \in {KV, TRUE} /\ onDisk' \in {OnDisk, kv'}
    /\ cached' \in {cached, None} \cup {SubSeq(session, 1, n) : n \in 1..Len(session)}
    /\ Failed
    /\ UNCHANGED <<repo, local, edited, doubted>>

(* index or save cannot write the facts, and stops.                        *)
FactsNotSaved ==
    /\ cmd.at \in {"index", "save"} /\ session # None /\ dirty
    /\ UNCHANGED session /\ PlanReady
    /\ PersistFails /\ Failed
    /\ UNCHANGED <<repo, local, cached, edited, doubted>>

(* resume reads the status again after index, and saves unless the KV      *)
(* cache is on disk; it skips the check when it saves nothing.             *)
ReadStatus ==
    /\ At("status") /\ session # None
    /\ IF StatusCached THEN StatusIndexed /\ Goto("chunks") ELSE Goto("save")
    /\ UNCHANGED <<repo, local, server, edited, doubted>>

CheckStatus ==
    /\ StatusIndexed
    /\ \/ At("indexed") /\ Goto("save")
       \/ At("check") /\ Goto("chunks")
    /\ UNCHANGED <<repo, local, server, edited, doubted>>

(* Defect: index.json is written from the records alone. *)
WriteIndexOfChunks ==
    /\ At("write_index")
    /\ index' = Cardinality(cmd.records)
    /\ IF cmd.op = "add" THEN Goto("config") ELSE Done
    /\ UNCHANGED <<repo, include, chunks, server, edited, doubted>>

(* write_local_index_metadata: chunks.jsonl is replaced, then index.json.  *)
WriteChunks ==
    /\ At("chunks")
    /\ chunks' = cmd.records
    /\ doubted' = (doubted \/ cmd.lost \/ (cmd.op = "resume" /\ edited > 0))
    /\ Goto("write_index")
    /\ UNCHANGED <<repo, include, index, server, edited>>

WriteIndex ==
    /\ At("write_index")
    /\ index' = cmd.count
    /\ IF cmd.op = "add" THEN Goto("config") ELSE Done
    /\ UNCHANGED <<repo, include, chunks, server, edited, doubted>>

-----------------------------------------------------------------------------
(* What the server reports decides what is left for resume to do: a        *)
(* session it calls indexed is not indexed, and one it calls disk_cached   *)
(* is not saved when kv_persist is set.                                    *)
ResumeAt(at) ==
    /\ at = "index" <=> ~StatusIndexed
    /\ at = "chunks" => StatusCached
    /\ cmd' = [Idle("resume", at) EXCEPT
                 !.records = ScanRecords, !.count = MemoryCount(ScanRecords),
                 !.trusted = (at = "chunks")]
    /\ UNCHANGED <<repo, local, server, edited, doubted>>

(* Defect: the session is not compared with the scan. *)
ResumeUnchecked ==
    /\ Free /\ session # None /\ ScanRecords # {}
    /\ \E at \in {"index", "save", "chunks"} : ResumeAt(at)

(* index --resume: the scan and the session must agree in their counts.    *)
Resume ==
    /\ Free /\ session # None /\ ScanRecords # {}
    /\ Len(session) = MemoryCount(ScanRecords)
    /\ \E at \in {"index", "save", "chunks"} : ResumeAt(at)

(* index --file: a file that has no record yet, into a session that has    *)
(* what index.json says.                                                   *)
AddFile(f) ==
    /\ Free /\ index # None /\ chunks # None
    /\ repo[f] > 0 /\ \A r \in chunks : r[1] # f
    /\ StatusIndexed /\ Len(session) = index
    /\ cmd' = [Idle("add", IF chunks = {} THEN "file" ELSE "seal") EXCEPT
                 !.file = f, !.pending = MemoriesOf(f), !.records = chunks, !.count = index]
    /\ UNCHANGED <<repo, local, server, edited, doubted>>

(* The file is added to [include] last. *)
WriteConfig ==
    /\ At("config")
    /\ include' = IF cmd.file \in ToSet(include) THEN include ELSE Append(include, cmd.file)
    /\ Done
    /\ UNCHANGED <<repo, index, chunks, server, edited, doubted>>

(* reset and reindex.  A session the server does not know is no error.     *)
StartReset(op) ==
    /\ Free
    /\ Command(op, "delete")
    /\ UNCHANGED <<repo, local, server, edited, doubted>>

SessionGone ==
    /\ saved' = None /\ session' = None /\ dirty' = FALSE
    /\ planned' = FALSE /\ kv' = FALSE /\ onDisk' = FALSE /\ cached' = None

(* A delete that fails keeps the session and its mark, with the KV cache   *)
(* dropped and the directory whole or in part.  It is not reported how     *)
(* much of the KV files is left.                                           *)
SessionStays ==
    /\ saved' \in {saved, Husk}
    /\ onDisk' \in {onDisk, FALSE} /\ kv' = onDisk' /\ cached' \in {cached, None}
    /\ UNCHANGED <<session, dirty, planned>>

(* Defect: the KV cache is forgotten only on disk. *)
DeleteSessionKeepingKV ==
    /\ At("delete") /\ session # None
    /\ saved' = None /\ session' = None /\ dirty' = FALSE
    /\ planned' = FALSE /\ onDisk' = FALSE /\ cached' = None
    /\ Goto("unlink")
    /\ UNCHANGED <<repo, local, kv, edited, doubted>>

(* Defect: every error of delete_session is passed over, not 404 alone.    *)
DeleteSessionPassing ==
    /\ At("delete") /\ Goto("unlink")
    /\ \/ session = None /\ UNCHANGED server
       \/ session # None /\ (SessionGone \/ SessionStays)
    /\ UNCHANGED <<repo, local, edited, doubted>>

DeleteSession ==
    /\ At("delete")
    /\ \/ session = None /\ Goto("unlink") /\ UNCHANGED server
       \/ session # None /\ SessionGone /\ Goto("unlink")
       \/ session # None /\ SessionStays /\ Failed
    /\ UNCHANGED <<repo, local, edited, doubted>>

UnlinkIndex ==
    /\ At("unlink")
    /\ index' = None /\ Goto("unlink_chunks")
    /\ UNCHANGED <<repo, include, chunks, server, edited, doubted>>

(* reindex goes on as build_index; reset --all removes config.toml too.    *)
UnlinkChunks ==
    /\ At("unlink_chunks")
    /\ chunks' = None /\ doubted' = FALSE
    /\ \/ cmd.op = "reset" /\ include' \in {include, <<>>} /\ Done
       \/ cmd.op = "reindex" /\ UNCHANGED include /\ Command("build", "create")
    /\ UNCHANGED <<repo, index, server, edited>>

-----------------------------------------------------------------------------
(* The server starts again, with the sessions that load and no plan.       *)
ServerRestart ==
    /\ session' = IF saved = Husk THEN None ELSE saved
    /\ dirty' = FALSE /\ planned' = FALSE /\ kv' = FALSE /\ onDisk' = FALSE
    /\ cmd' = [cmd EXCEPT !.lost = @ \/ (~Free /\ session # session')]
    /\ UNCHANGED <<repo, local, saved, cached, edited, doubted>>

(* A search, or another request that needs the plan. *)
LoadPlan ==
    /\ session # None /\ ~planned /\ PlanReady
    /\ UNCHANGED <<repo, local, session, saved, dirty, cached, cmd, edited, doubted>>

(* The KV cache in memory makes way for that of another session. *)
OtherSessionEvicts ==
    /\ kv # onDisk /\ kv' = onDisk
    /\ UNCHANGED <<repo, local, session, saved, dirty, planned, onDisk, cached, cmd,
                   edited, doubted>>

Edit ==
    /\ \E f \in Files : \E n \in 0..MaxChunks[f] : n # repo[f] /\ repo' = [repo EXCEPT ![f] = n]
    /\ edited < MaxEdits /\ edited' = edited + 1
    /\ UNCHANGED <<local, server, cmd, doubted>>

Next ==
    \/ StartIndex \/ CreateSession \/ ReadFile \/ NextSegment \/ AddMemory \/ AllAdded
    \/ IndexSession \/ SaveSession \/ IndexCutOff \/ FactsNotSaved
    \/ ReadStatus \/ CheckStatus \/ WriteChunks \/ WriteIndex
    \/ Resume \/ (\E f \in Files : AddFile(f)) \/ WriteConfig
    \/ (\E op \in {"reset", "reindex"} : StartReset(op))
    \/ DeleteSession \/ UnlinkIndex \/ UnlinkChunks
    \/ Interrupted \/ ServerRestart \/ LoadPlan \/ OtherSessionEvicts \/ Edit

Spec == Init /\ [][Next]_vars

-----------------------------------------------------------------------------
(* The shape of the state; a session in the server has a directory, and a  *)
(* plan and its KV cache are of a session.                                 *)
TypeOK ==
    /\ \A f \in Files : repo[f] \in 0..MaxChunks[f]
    /\ include \in Seq(Files) /\ index \in Nat \cup {None}
    /\ chunks # None => chunks \subseteq Ids
    /\ session # None => session \in Seq(Memories) /\ saved # None
    /\ saved \notin {None, Husk} => saved \in Seq(Memories)
    /\ session = None => ~planned /\ ~dirty
    /\ ~planned => ~kv /\ ~onDisk
    /\ cmd.records \subseteq Ids /\ cmd.count \in Nat
    /\ edited \in Nat /\ doubted \in BOOLEAN

(* A chunk that has a record is in the session, and on disk with it: after *)
(* index, resume, add or reindex, cut off anywhere, no file that the index *)
(* claims to hold is left out of every search.  Three doors stay open.     *)
(* Two are excluded by doubted: resume compares counts only, and a restart *)
(* of the server may take memories from under a running command.  The      *)
(* third is the directory a delete, or a save, that failed has left as a   *)
(* Husk, with the session still in memory (lost_facts).                    *)
LocalRecordsExist ==
    chunks # None /\ session # None /\ ~doubted
    => chunks \subseteq Range(session) /\ (saved # Husk => chunks \subseteq Range(saved))

(* A command that succeeded leaves an index that says what the session     *)
(* holds, in memory and on disk, and, unless resume took the server's word *)
(* that nothing was left to do, in its KV cache.  Only a resume succeeds   *)
(* over a directory that does not load.                                    *)
Succeeded == At("done") /\ cmd.op \in {"build", "resume", "add"} /\ ~cmd.lost

IndexIsComplete ==
    Succeeded =>
        /\ cmd.op # "resume" => saved # Husk
        /\ saved # Husk =>
              /\ session # None /\ saved = session
              /\ index = Len(session) /\ chunks # None
              /\ ~cmd.trusted => cached = session /\ KV
              /\ ~doubted => index = MemoryCount(chunks)

(* After a reset that succeeded nothing of the index is left that a later  *)
(* search, resume or restart could find; a directory without a session     *)
(* may be.                                                                 *)
ResetForgets ==
    At("done") /\ cmd.op = "reset"
    => session = None /\ saved \in {None, Husk} /\ index = None /\ chunks = None

(* doc/repository-search.md:267-268: resume "continues server-side         *)
(* indexing only when segment KV is missing, persists KV only when needed",*)
(* so that a session it succeeded on has the KV cache of all its memories. *)
ResumeCompletes == Succeeded /\ cmd.op = "resume" /\ saved # Husk => KV

=============================================================================
