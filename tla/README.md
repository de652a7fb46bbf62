# A TLA+ model of the attemory server

attemory is a memory server for language models. A client creates *sessions*,
appends *memories* (texts) to them, and searches them with the attention of a
local model. Memories are grouped into *segments* that fit the context window,
and the KV cache of every segment is computed once, kept in memory under a
budget, and optionally written to disk. This directory models the part of the
program whose correctness is hard to see: which KV cache belongs to which
memories, in memory, in the active context and on disk; how memories are cut
into segments and results put together again; which files a session consists of;
and the client that indexes a repository into one session. All of it goes
through appends, evictions, failing calls, crashes and restarts.

Paths below are relative to the repository; most code is under `src/`.

## The system

| Component | State it keeps | Operations | What makes it correct |
|---|---|---|---|
| HTTP server (`src/server`) | none | parse, dispatch, format; **one worker thread** (`server.cpp:111`) | commands are serial |
| SessionManager, CommandScope (`src/context/session/session_manager.cpp`, `command/command_scope.cpp`) | sessions: facts (system text, memories, boundaries, kv_persist), facts_dirty | create, restore, add_system, add_memory, next_segment, index, save, search, clear, delete, init | the copy of a session that looks clean is never an older one; only a delete can lose it |
| SegmentPlanner (`session/segment_planner.cpp`) | segment_plan | rebuild from the memories, restore from the cache manifest, extend by an append | every memory is in one segment, in order, below the limits |
| SegmentKVManager (`kv/segment_kv_manager.cpp`) | active slot, incremental prefixes, KV metadata | prepare, activate, extend a prefix, stage, evict, release | a KV cache is used only for the memories it was computed from; one live context |
| ResidentKVStore (`kv/resident_kv_store.cpp`) | entries, byte counter, access clock, budget | find, store, remove, clear, release contexts, evict | exact accounting, LRU eviction within the budget |
| Index and save (`kv/segment_kv_cache_commands.cpp`, `segment_kv_metadata.cpp`) | cache directory | segment by segment: build, export, write file, write manifest | success means searchable, and, if persisted, restorable |
| Search (`src/context/search`) | none of its own | admit, activate each segment, infer, merge, stream | a query is answered from the present memories |
| Status (`session/session_status.cpp`) | none | list_sessions | says what a search would find (it does not always) |
| Persistence (`src/persistent`) | session.meta, memories.bin, manifest.meta, segN.db | write by temporary file and rename, read, scan | a crash leaves something that loads |
| atmcore | model, contexts | build, append, snapshot, hydrate, infer, tokenize | external: its source is not in the repository |
| Python client, MCP server, CLI, atcode (`python/attemory`) | atcode: config, index.json, chunks.jsonl | HTTP wrappers; build, resume, add-files, reindex, reset | local files agree with the server session |

A command enters through a route, builds a `CommandScope` (which releases the
contexts of every other session), finds the session, makes its plan if there is
none, and works on facts, plan, resident store, active slot and files. The
handle of a resident segment is *shared*: the active slot and the store hold the
same object, so a release through one is seen by the other.

What makes this hard is not threads: there is one worker. It is the number of
places that describe the same segment (facts, plan, metadata, resident entry,
prefix, active slot, file, manifest, status), each updated at a different
moment; commands that write several files and can be cut off between any two;
and calls that fail halfway. The list under `hazards` in `PROJECT.json` names
each one at its line.

## The modules

| Module | Models | Kind |
|---|---|---|
| `ResidentKVStore` | the resident store, exactly: bytes, recency, eviction, shared handles | state machine |
| `SessionKV` | the life of one session: facts, plan, KV in its three places, files, commands in steps | state machine |
| `SessionFiles` | the two files of a session and their directory, step by step | state machine |
| `SegmentPlanner` | placing, rebuilding, restoring the segments of a session from token counts | state machine |
| `PlannedSearch` | searches of a session and oneshot searches over these segments; extends `SegmentPlanner` and `SearchResults` | composition |
| `SearchResults` | merge and limits of the rankings of the segments | functions |
| `CodeProject` | atcode: a client, its two local files, a server that may restart, a repository that changes | state machine |
| `DurableMemory` | what a client may rely on about memories and restarts | abstract |
| `SearchableMemory` | what a client may rely on about a search; extends `DurableMemory` | abstract |
| `SessionKVPromise` | the mappings of `SessionKV` to both, and the fairness of its steps | refinement |
| `MCResidentKVStore`, `MCSessionKV`, `MCPlannedSearch`, `MCCodeProject` | TLC instances: values of the constants, symmetry, views | |
| `ResidentKVStore_proofs`, `SessionKV_proofs`, `SessionFiles_proofs`, `SegmentPlanner_proofs`, `PlannedSearch_proofs`, `CodeProject_proofs`, `DurableMemory_proofs` | theorems about the module of that name | proofs |
| `SessionKVPromise_proofs` | that `SessionKV` implements both abstract specifications; extends `SessionKV_proofs` | proofs |

How they fit together. `DurableMemory` sees a session as one value in memory and
one on disk. `SessionKV` implements it with commands and treats the disk as one
value that is replaced as a whole, kept, or lost (`LeftOf`); `SessionFiles`
implements it with two files, and shows that this is what two files amount to:
a save or a delete that fails leaves the old copy or one that does not load
(the one exception, below, is of a session that is marked dirty). `SessionKV`
leaves open where a
segment starts, `SegmentPlanner` says it; `SessionKV` leaves open what the budget
evicts, `ResidentKVStore` says it. `SearchableMemory` adds to `DurableMemory` a
query that reads the memories piece by piece; `PlannedSearch` covers what
happens to the rankings of the pieces. `CodeProject` uses the server as
`DurableMemory` describes it: each request is one step.

### ResidentKVStore

`entries` is the hash map of hash maps of `ResidentKVEntry`; an entry records the
size of the snapshot blob, whether a live context is attached, and the size that
was accounted when the entry was last refreshed. `older` is the order of
`last_access`: the access clock itself grows without bound and only its order is
read. `resident_bytes` is the running counter. One action stands for one public
method; a method with a loop that can fail has a second action in which any
subset of the other targets was done before the failure, because the order of a
hash map is arbitrary. `Victims` gives the result of the eviction loop directly:
an entry goes exactly when removing the older unprotected ones was not enough.
`ExportInPlace` and `SwitchContext` are the two ways code outside the store
changes a handle the store holds; neither updates the counter, and that is the
reason the counter is defined over the *accounted* sizes.

The sum of the accounted sizes is the cardinality of a set of numbered bytes
(`ByteUnits`), not a recursive sum: the facts about finite sets then apply in
the proofs.

Not modelled: the overflow return of `store` (blobs fit in 64 bits, stated as
an assumption), and `peek`, which changes nothing.

### SessionKV

| Variable | Code |
|---|---|
| `facts`, `dirty` | `Session::store`, `facts_dirty` |
| `stored` | `memories.bin` and `session.meta`: the facts they load, `Husk` when the directory is there and does not load, or `None` |
| `plan` | `SegmentPlan`, as the memory indices of every segment |
| `kv.resident`, `kv.prefix`, `kv.active`, `kv.meta` | resident entries, `incremental_prefixes`, `active_segment`, `segment_kv_metadata` states |
| `file`, `manifest` | `segN.db`, `manifest.meta` |
| `cmd`, `reply` | the running command and its stage; what the last one answered |

A handle carries the *content* it was computed from: the system text and the
texts of the memories, in order. Properties compare that content with what the
segment holds now. A content hash is the pair of indices and content.

The helpers of the KV manager (`PrepareResidentSegment`, `ActivateForSearch`,
`KeepOnlySegmentLive`, `ExtendedPrefix`, ...) are operators from a KV state to
the *set* of its outcomes, each a KV state with a success flag; `Then` composes
them and lets failures through with the state they leave. A command that writes
one thing is one action. Index, save, search and delete, which write several or
can fail between steps, are chains of actions linked by `cmd`: `Begin` (scope
and plan), the command's head, one action for each segment and each file, and an
end. `Restart` is possible in every state and keeps only `stored`, `file` and
`manifest`. `OtherCommand` is any command of another session, or a oneshot
search, in its effect on this session.

Abstractions, and why they are sound for the properties:

* Token estimates decide where an append or a rebuild starts a new segment and
  which context is long enough to be reused. Both choices are free.
* Blob sizes decide what the budget evicts. `Evictable` is any subset of the
  unprotected entries when a budget is set; `ResidentKVStore` has the exact rule.
* The copy of the facts is one value. A save stores all of them; a save or a
  delete that fails leaves the old copy or a `Husk`, a directory that does not
  load: the rename fallback (`session_persistence.cpp:90-103`) and `remove_all`
  (`session_persistence.cpp:332`) both may have taken a file by then. A delete
  that fails leaves the session in memory with `facts_dirty` as it was
  (`session_manager.cpp:663-675`), so a clean session may have a `Husk` for its
  copy, and later saves write nothing over it. `SessionFiles` has the two files
  behind this, and allows one thing more: when `memories.bin` was lost, a save
  that fails after it has written it again leaves it under the old
  `session.meta`. The session is dirty then, which no property of `SessionKV` is
  about; `DurableMemory` names it (`Partial`).
* `CopyMayBeLost` switches the `Husk` on. It is on where a property is about the
  copy (`session_native`, `session_promise`, `lost_facts`) and off in
  `session_reference`, whose properties are about KV caches: with it the run
  passes as well, with 9.0 million states in about four minutes. The
  proofs hold for both values.
* `restore_session` is `Begin` followed by a reply that changes nothing.
* Reading a manifest or a file that is damaged gives the same as an absent one.
* An HTTP request that is rejected before it reaches the session changes nothing.

### SessionFiles

`facts` and `dirty` are the session in memory; `dir`, `meta` and `mems` are the
directory, `session.meta` and `memories.bin`; `op` is the step the running
command is at. `save_session` writes `memories.bin` and then `session.meta`, so
`WriteMemories` and `WriteMeta` are two actions with a possible `Restart`
between them; `Loaded` is `load_session`, which reads as many records as
`session.meta` counts. Each write goes to a temporary file first and is renamed
over the old one. When that rename fails, `replace_file_with_temp` removes the
target and tries again: a second failure leaves no file (`FailedToReplace`).
That is the one way a *failed* save loses what was saved before, and the
properties say so: `acked` becomes `None` then, and the session stays dirty.
`Delete` removes the files in either order and may stop anywhere. A delete that
stops half way leaves a session in memory that is not dirty and is in no copy;
`CleanMeansLoadable` says that nothing but a delete does, and that there is then
no copy rather than an older one. `Create` is
two actions, so a directory can be left without a session.

### SegmentPlanner, SearchResults and PlannedSearch

`SegmentPlanner` has the memories and boundaries with their saved copy, the
plan with `estimated_tokens` and `exact_tokens` of every segment, the manifest,
and the context length. `Tokens` is a constant operator: the library's count for
a list of texts. The one thing assumed of it is `TokensAssumption`: a memory
appended to a segment adds at most what it adds to an empty one, and the margin
of four tokens (`kAppendTokenEstimateSafetyMargin`) the code allows for the seam.
A rebuild is one action for each memory, because it can fail at any of them, and
because what it leaves then counts as a plan. `foreign` and `broken` are history:
the plan or manifest may have been made for another session of the same id (a
delete does not check whether the cache directory went) or another context
length; a rebuild has failed.

`SearchResults` has the merge and the limits as recursive functions.
`PlannedSearch` composes both: a search of the session ranks the plan's segments
one after the other; a oneshot search plans its own memories first, a memory at a
time. Rankings are arbitrary sequences of positions, out of range or repeated
ones included.

### CodeProject

| Variable | Code |
|---|---|
| `repo` | the number of chunks of each file of the repository |
| `include`, `index`, `chunks` | `config.toml`, `memory_count` of `index.json`, the records of `chunks.jsonl` |
| `session`, `dirty`, `saved` | the session in the server, its `facts_dirty`, its directory: what loads, a `Husk`, or `None` |
| `planned`, `kv`, `onDisk` | whether the segment plan is in memory, and whether by its metadata every memory has its KV cache, and has it on disk |
| `cached` | the memories `manifest.meta` lists, with their files there |
| `cmd` | the running command and its step, what it has read and counted |
| `edited`, `doubted` | history, see below |

A command goes from request to request; `Interrupted` ends it
anywhere, with or without the effect of the last request; `ServerRestart` and
`Edit` may come between any two steps. A record is kept for each chunk, and a
memory is sent for each chunk and for the header of each file; `MemoryCount` is
the count a resume compares with. A file has been seen by the scan when one of its
chunks has a record (`Seen`), so a file that is scanned and in `[include]` is read
once.

The requests are the server's commands. Index and save write the facts only when
the session is dirty (`SaveIfDirty`; save once more when `kv_persist` was not
set), then the KV cache, and may be cut off after any part of it
(`IndexCutOff`): the manifest then lists the first memories only. What the server
*reports* is an operator of its own: `StatusIndexed` and `StatusCached` follow
`build_session_status` and, while there is no plan in memory, count what the
manifest lists, however little that is. `Resume` branches on these two and on nothing else,
as `resume_index` does, and `ReadStatus` is its second look after an index; `cmd.trusted`
records that it found nothing to do. `KV` is what a search would find.
A delete that fails (`SessionStays`) leaves the session in memory, with its mark
and perhaps over a `Husk`, which no later index repairs.

Abstractions: segments are left out, so that the KV cache in memory is complete
or counts as none, and the manifest lists a first part of the memories; which
appends are written at once and whether `kv_persist` is set are free; the
KV files of a deleted session go with it, and a file that is listed fits its
segment. `SessionKV` is about the cases where that is not so.

`doubted` marks two of the three doors `LocalRecordsExist` leaves open: a resume
after an edit of the repository, and a server that lost memories under a running
command; both are described under *Observed* below. The third, the `Husk`, is
named in the property, because only the copy is lost and not the session in
memory.

### DurableMemory, SearchableMemory, SessionKVPromise

`DurableMemory` allows five kinds of change: create, change in memory (which is
saved, not saved, or loses the copy), save, lose the copy as a whole, restart. `Partial` says whether a
lost copy may come back in part before it is complete; the two files of
`SessionFiles` do that (`memories.bin` was removed, by the rename fallback or a
delete that failed, and is written again while `session.meta` still counts the
earlier memories), the commands of `SessionKV` do not. `SearchableMemory` lets a query show the model the next
memories under the system text, and answer when all were shown; while it runs
nothing else may happen except a restart. The mapping takes the piece that is
shown from what the active context *was computed from*, not from the plan, so a
stale KV cache is a step the abstract specification does not have.

## What the runs check

Passing runs:

| Run | Instance | Shows |
|---|---|---|
| `resident_store` | 2 sessions x 2 segments, blobs of 0..2 bytes, budget 3 | the counter is exact; eviction is minimal, in LRU order, and meets the budget |
| `session_reference` | reference engine, budget, 3 memories, 2 segments, a rebuild may fail | no search reads a KV cache of other memories; staged prefixes can be extended; one live context; snapshots are kept; all of it also on the partial plan a failed rebuild leaves |
| `session_native` | native engine, budget, 2 memories, 2 segments, a system text | the plan covers the memories; the same for KV built without a snapshot; what is reported indexed is searchable; what is persisted is complete for a restart that finds the session; the copy of a clean session is never an older one, and only a delete takes it away; facts are on disk before their KV |
| `session_promise` | reference engine, budget, 2 memories, 2 segments, fairness | the commands implement `DurableMemory` and `SearchableMemory`; every command ends |
| `session_files` | 2 texts, a system text, 3 memories, 2 changes of the settings | what was reported as saved loads again; a clean session is the one on disk, unless a delete failed; what is gone stays gone; a restart restores a prefix; the files implement `DurableMemory` |
| `planned_search` | 3 texts, contexts of 16 and 20 tokens, 3 memories, 2 segments, top_k 0..2 | counts are safe, segments fit, append, rebuild and manifest agree on one plan, a rebuild with the same context succeeds; a oneshot plan fits; answers are sound and no segment is crowded out |
| `code_project` | a file of up to 2 chunks in the scan, one of 1 chunk added by `--file`, 2 edits | records have their chunks in the session; a command that succeeded leaves an index that agrees with session, copy and, unless resume took the status at its word, KV cache; a reset leaves nothing |

Runs that show where the code and its documents disagree:

| Run | Property | What happens |
|---|---|---|
| `stale_file` | `PersistedFilesAreCurrent` | append to a persisted segment, index again: the metadata says Resident, the old file exists, so the file is taken for saved and is listed under the new hash. After a restart the search fails to decode it |
| `hollow_save` | `IndexedCanBeSaved` | index, index, save with the native engine: the active slot is released without an export, the resident entry is an empty shell, save has nothing to write |
| `partial_plan` | `PlanCoversMemories` | a rebuild fails on a token estimate; the segments made so far are taken for a ready plan by the next command |
| `lost_facts` | `SavedSurvivesRestart` | a delete fails after it removed `session.meta`: the session stays, not marked dirty; save writes KV files, no facts, and reports success; a restart does not find the session |
| `resume_status` | `ResumeCompletes` | index interrupted between two segments, restart, `index --resume`: the status counts the manifest's segments and says indexed and disk_cached, so resume skips index and save and reports success; searches are refused |

**Bounds.** Two memories and one segment are enough for a segment to grow after
it was indexed, saved or evicted; three let it grow twice, so that a prefix is
staged, extended and staged again. Two segments are enough for one to evict,
release or outlive the other, and for a command to stop between them. The texts
of `SessionKV` are all equal: memories are then told apart only by how many there
are, which is the harder case for hashes and prefixes (a file of a deleted
session *can* fit a new one). The native run varies the system text, so that a
session made again under an old id differs from what is left of it.
`session_files` has two texts, so that a count and the records it counts can
disagree, and three memories, so that `memories.bin` can be longer than
`session.meta` says by more than one. In `planned_search` the tokenizer
(`MCTokens`) uses the whole margin between equal texts and joins others; three
memories fill two segments of the smaller context, so both limits are met, and
restarts change between the contexts. In `code_project` one chunk of either file
makes two memories, so that after an edit the counts can agree while the chunks
differ; one file of the scan and one outside are the two sources of records, and
a second chunk lets a command end in the middle of a file. Two edits after a
create (`MaxEdits`) are enough to change a file and change it back, between the
same two steps or not. An instance with two files of one chunk in the scan, and one
edit, was run as well and holds (4.2 million states). In `resident_store` two large blobs exceed the budget, one
does not; `FewEntries` continues only from states with at most two entries, or
three without live contexts; larger states are generated and checked.
`MaxMemories`, `MaxSettings`, `MaxChunks` and `MaxEdits` bound what clients and
authors do and are not in the code; `MaxSegments` is `kMaxSegmentsPerSession`.

**Views.** `View` of `MCSessionKV` forgets replies other than those of index and
save, and `SilentView` all replies. No action reads `reply`, and the properties
of the runs read only what is kept. `View` of `MCPlannedSearch` keeps, while a
search runs or its answer stands, the search and the context length only: a search
changes nothing of the session, and the session states it leads back to were
explored without it.

**Fairness.** `FairSpec` is weak fairness of `CommandStep`, the steps a command
takes once it was started. The code justifies it: one worker thread
(`server.cpp:111`) runs a command to its end before it takes another, without
waiting for a client or for another command, and calls of the library and of the
file system return, with success or failure. Requests, crashes and commands of
other sessions are not fair: nothing makes them happen. Under it `CommandEnds`
says that no chain of segments, files and retries goes on for ever. Nothing
stronger is claimed: an index that keeps failing never succeeds.

Deadlock is checked in every run.

**Observed while modelling**, and not violations of a documented promise:

* The memories appended since the last save are lost when the server stops, a
  graceful shutdown included (`facts_dirty` tells the client). A client that adds
  memories while the server restarts is not told: the server accepts the rest,
  and atcode writes an index with chunks no search can find. `code_project`
  excludes a command that lost memories this way (`cmd.lost`).
* `index --resume` compares counts of memories only. A repository that was edited
  between the interrupted build and the resume can have as many memories, and
  then records are written for chunks the session does not hold (`doubted`).
* `index --file` writes the local files first and `config.toml` last. When it is
  cut off between, the file is in the index but not in `[include]`: it has its
  records, `--file` refuses it as indexed, and the next `reindex` leaves it out,
  while `doc/repository-search.md:280-281` says added files are recorded.
* The rename fallback (`session_persistence.cpp:92`) removes the last good copy
  before it knows that the new one can take its place.
* The status counts the manifest's segments while there is no plan in memory, so
  after an interrupted index and a restart `indexed` is true although
  `doc/usage.md:351` says it is "True when all required segments are indexed".
  `resume_status` shows what a client makes of it.
* A `create_session` that dies between the directory and `session.meta` leaves an
  id that create refuses (`session_manager.cpp:423`) and delete answers 404 for;
  `atcode reset` takes the 404 for success, and every index after it fails until
  the directory is removed by hand, although the project "can be indexed again
  with the same settings" (`doc/repository-search.md:403-405`). `ResetForgets`
  allows the `Husk` for this reason.
* After a delete that failed half way only a command that marks the session
  dirty (an append, a new system text, a boundary) gets its facts written again;
  until then `index --resume` of atcode succeeds over a directory that does not
  load (`IndexIsComplete` says that nothing but a resume does).
* A manifest left by a deleted session of the same id is used when the texts
  agree, whatever boundaries the new session has; `PlanIsGreedy` excludes
  `foreign` plans for this reason.
* `partial_plan` needs no failing call when the server is started again with a
  smaller context: a memory that no longer fits makes the rebuild fail each time
  (`RebuildSucceeds` speaks of the same context).
* Indexing one default session may evict the KV of another one that was indexed;
  the budget does not count incremental prefixes nor snapshots exported in place;
  with the native engine a prefix is staged on append but never taken.

## What is proved

Every theorem is for all values of the constants, under the named assumptions of
the modules only; TLC evaluates these in the runs.

`ResidentKVStore_proofs`, for any finite sets of sessions and segments, any
budget and any bound on blob sizes:

* `TypeCorrect`, `BytesAlwaysAccounted`. Neither `TypeOK` nor `BytesAccounted`
  is inductive alone: that the counter stays a natural number needs that it
  equals the sum of what is there, and that the sum is right after an eviction
  needs typed entries. Their conjunction `Accounted` is. The lemmas give the
  sum of a split, of a subset, of one entry, and of an overwritten entry; one
  lemma for each shape of action (store, forget, release, release and evict)
  shows that it keeps `Accounted`.
* `RecencyAlwaysTotal`, from `Accounted` and the fact that touching a key or
  restricting the order keeps a strict total order.
* `BudgetAlwaysEnforced` and `StoreAlwaysEvictsMinimally`, action properties.
  They follow from the order having a least element in any nonempty set of
  entries (`OldestExists`, from the well-foundedness of strict inclusion on
  finite sets): the newest victim is found, and with it the total is over the
  budget.

`SessionKV_proofs`, for any texts, bounds and engine:

* `CleanNeverOld` and `FactsAlwaysBeforeKV`, from the inductive invariant
  `FactsInv`: the flag is boolean; a running command has its session and a known
  stage; the copy of a clean session is the session or a `Husk`, except while a
  delete has removed the directory and not yet the session; in the stages that
  write KV files the session is clean. The stage conditions are what makes it
  inductive: without them nothing relates `dirty` to the middle of a command.
* `OnlyDeletesLose`, an action property from the same invariant: the weaker
  statement above allows a clean session over a `Husk`, and this one says which
  steps lead there. It holds of the delete alone because a save that loses the
  copy raises the flag in the same step.

* `SessionTypeCorrect`, `ResidentAlwaysCurrent`, `PrefixCanAlwaysGrow`,
  `SearchAlwaysReadsCurrent`, `AlwaysOneLiveContext` and
  `ReferenceAlwaysKeepsSnapshots`. None of the properties is inductive; their
  strengthening `CachesInv` has three parts. `DataOK`: the plan names memories of
  the session, the i-th of a segment being no earlier than the i-th memory.
  `Sound(kv)`: every resident handle has the content its segment has now, every
  prefix a proper prefix of it, the active slot of a resident segment *is* its
  handle, and at most one context is alive. `StageOK`: a search between its two
  steps has a usable active segment. One lemma for each operator of the KV
  manager says what all of its outcomes, failures included, keep (`PreparedAfter`,
  `SearchActivated`, ...); one lemma for each action applies them. The step with
  substance is `AddToLastSegment`: the segment's content grows, so its handle must
  go and the prefix it leaves is now a proper one.
* `PlanAlwaysCovers`, from `CoverInv`: also the manifest lists its memories in
  order and without gaps, because a plan can be read from it. The plan a rebuild
  makes is a set of starts read in order (`Cut`); that its runs join up
  (`CutCovers`) takes the next start after a given one, and as induction is out of
  reach it comes from a least element (`LeastNatural`, from the well-foundedness of
  strict inclusion on finite sets). The theorem has the hypothesis `PlanMayFail = FALSE`, no
  token estimate fails, and the run `partial_plan` shows that it is needed.
* `IndexedAlwaysSearchable` and `PersistedAlwaysRestorable`, from `DoneInv`: while
  files are written, the segments before the present one have theirs
  (`Written`), and the manifest lists them (`Listed`). That the restart then plans
  the same segments needs that a manifest of all of them is one `LoadPlan`
  accepts, which is `CoverInv`; so the second has the same hypothesis. The
  property speaks of a restart that finds the session: `lost_facts` shows one
  that does not.

`SessionKVPromise_proofs`:

* `CommandsImplementDurable`: the initial states map to initial states, and
  every action of `SessionKV` maps to a change, a save, a loss, a drop, a restart
  or a stutter of `DurableMemory`. It needs that facts and copy have their type,
  and that a delete that reaches the cache directory has removed the copy.
* `SearchesImplementSearchable`: the same for `SearchableMemory`, whose query is
  mapped from what the active context was computed from. `SearchInfer` maps to
  showing the next piece, and `PieceOfSegment` says why that piece continues
  where the last one stopped: the context has the content of the segment
  (`CachesInv`) and the segment starts after the one before (`CoverInv`). The query is
  answered when the last segment is done, which is when all memories were shown. Hypothesis
  `PlanMayFail = FALSE`, as above: on a partial plan a search would be answered
  although memories were left out.

`SessionFiles_proofs`:

* `TypeCorrect`, `AckedAlwaysSurvives`, `CleanAlwaysLoadable`,
  `GoneAlwaysStaysGone` and `AlwaysRestoresPrefix`. The inductive invariant joins
  them with two facts: `MetaFits` relates `session.meta` to the memories in
  memory (it counts no more than there are, under a system text that can only
  differ when it counts none), and `Stages` says what has already been written at
  each step. Without `MetaFits` a `memories.bin` written
  under an older `session.meta` might load memories under another system text.
* `FilesImplementDurable`: renaming `session.meta` is the moment the abstract copy
  changes; renaming `memories.bin` is a stutter, or a `Recover` when the copy was
  lost before.

`SegmentPlanner_proofs`, for any texts, contexts, limits and any tokenizer that
satisfies `TokensAssumption`:

* `TypeCorrect`, `CountsAlwaysSafe`, `SegmentsAlwaysFit`. The inductive invariant
  adds to them: the manifest's entries have the tokens of their own texts and,
  unless foreign, keep to the soft limit (`ManifestInv`), because a restored plan
  is built from them; the last memory planned is not past the one that comes next
  (`PlanInv`), because the number of texts in a segment, and with it the range of
  the tokenizer's assumption, is bounded by its last index. `GrownIsPlanned` is
  the step where the margin is needed: the estimate of a segment stays above its
  exact count when a memory is appended.
* `PlanAlwaysGreedy` and `RebuildAlwaysSucceeds`, from `CutInv`: there is one cut
  of the memories, the first memory and the number of the segment that each
  memory is in (`head`, `number`), which the memories and boundaries alone determine
  (`Cut`: a memory begins a segment when a boundary says so or when it does not fit the
  soft limit with what its segment has). Plan and manifest follow that cut as far
  as they reach (`PlanFollows`, `ManifestFollows`), and the facts on disk are a
  first part of those in memory with the same boundaries, so the cut of a restart
  is the first part of the same cut. It is stated over the exact counts: an
  estimate that is above the soft limit is measured before it decides, which is
  where `CountsAreSafe` is used. Then a rebuild that places the memories again
  meets only segments that were admitted before, and cannot fail.

`PlannedSearch_proofs`, for any rankings of integers and any `top_k` in `Nat`:

* `SearchesLeaveSession`: every step of the composition is a step of `SegmentPlanner` or
  leaves it alone. So the theorems above hold of it, and searches may rely on them.
* `OneshotAlwaysFits`: while a oneshot plan is made, the segments made so far
  are counted and join up, and end at the last memory placed (`OneshotCut`).
* `AnswerAlwaysSound`: `Answers` says of a partial answer what the property says of
  a whole one, and the merge of one more ranking keeps it, position by position;
  `AtMost` does the same for the limit. The merge and the limit are recursive
  functions inside operators; that they satisfy their equations is proved first (`MergedRuns`,
  `LimitedRuns`), and the steps along them by `UpTo`, induction up to a
  bound, again from well-foundedness.
* `SegmentsNeverCrowdedOut`: `LimitedIsFirst` says what the limit returns, position
  by position. Along the results, what is kept is exactly the first of each
  segment, at the place that their number gives, and a segment has there as many
  as were found of it until it has `top_k` (`FirstKept`).

`CodeProject_proofs`, for any files, any order of the scan and any numbers of
chunks:

* `CodeTypeCorrect` and `ResetAlwaysForgets`, from `Steady`. Its first part,
  `StoreInv`, relates the session to its directory: a copy that loads is a first
  part of the session, and all of it unless the session is dirty *and* has a plan
  without KV cache, because an append raises the flag and drops the cache, and
  whatever makes a cache has saved the facts. Its second, `StageInv`, says what
  each step of a command finds: a delete has removed the session before the files
  are unlinked; `index.json` is not there without `chunks.jsonl`; past the index
  request (`Indexed`) a copy that loads is the session, and only a resume can be
  there over a `Husk`; past the save (`Cached`) the manifest lists all of the
  session and a plan in memory has it on disk, unless the command trusted the
  status. `StageInv` holds under restarts because only what is on disk is needed
  later.
* `LocalRecordsAlwaysExist` and `IndexAlwaysComplete`, from `RecordsInv` on top of
  it. While a file is sent, what is pending is a run of its memories that starts
  after its last record (`PendingInv`); the count of the client is the number of
  records and of headers sent (`CountInv`); what was recorded was sent, unless the
  server lost memories (`SentInv`). The step with substance is `Resume`, which
  compares two numbers and then trusts the records of a new scan. Without an
  edit the session of a cut-off build holds nothing twice and nothing but memories
  of the files found (`FreshInv`), and a sequence without repetitions that is as
  long as a finite set is large holds all of it (`HoldsAll`, with
  `CountWithHeaders` for the size of the set). When records exist already, the
  scan gives these very records (`ScanInv`, `ScanInSession`). `IndexInv` is what a
  later `--file` needs: `index.json` agrees with the records or counts fewer
  memories than the session has, so that the check of the counts refuses it.

`DurableMemory_proofs`:

* `SavedAlwaysPrefix`: whatever implements `DurableMemory` restores the first
  memories of the session under the system text they were added with. With the two
  theorems above it holds of the commands and of the files.

Only model-checked:

* Liveness (`CommandEnds`), out of the proof system's reach.
* `PlanCoversMemories` and `PersistedMeansRestorable` where an estimate may fail:
  the first is false there, and the run `partial_plan` is its counterexample.

## Plan

What is left:

* `KVManager`: several sessions over one `ResidentKVStore` and one active slot,
  replacing `OtherCommand` by the commands themselves, and the proof that the
  free eviction of `SessionKV` allows what the store does.

## What is not modelled

* The HTTP layer: options, routes, request parsing and response formatting
  (`server_args.cpp`, `routes.cpp`, `request_parser.cpp`, `response_builder.cpp`)
  have no state between requests. A request that is rejected there changes
  nothing.
* The vendored libraries `src/3rd/json` and `src/3rd/cpp-httplib`: third-party
  code, and four fifths of the lines of C++ in the tree. The models stand for a
  fair part of the program's own code and for none of theirs.
* The inference library is external: its calls succeed or fail, count tokens and
  rank. Its memory and contexts appear only through the handles.
* Formats of the files (`binary_io.cpp`, KV cache encoding): a file is what is read
  back from it. Damaged files are files that do not load.
* The Python client, MCP server, process starter and model download are I/O
  without a protocol of their own. Of atcode, splitting files into chunks, search
  and its reranking change no state.
* Token totals, timestamps and timings of the status.
* Several sessions in one model: see the plan. What one session sees of another is
  `OtherCommand` in `SessionKV`; what they share is in `ResidentKVStore`.
* Packaging, benchmarks and examples are not part of the program's logic.

`PROJECT.json` lists every component with its status.

## Running

    tlc -workers 2 -config SessionKVReference.cfg MCSessionKV
    tlc -workers 2 -config CodeProject.cfg MCCodeProject
    tlapm ResidentKVStore_proofs.tla

The longest run, `session_reference`, has 4.9 million states and takes two to
three minutes; `session_native` (2.2 million), `session_promise` and
`code_project` (1.3 million) take about one each, the others less.

The definitions whose comment begins with *Defect* are variants of the one that
follows them, each with a plausible mistake; `PROJECT.json` (`mutants`) names the
property that detects it.
