----------------------------- MODULE SessionKV -----------------------------
(***************************************************************************)
(* The life of one session of the server: its facts in memory and on disk, *)
(* its segment plan, and the three places a segment's KV cache can be: the *)
(* resident store, the incremental prefixes and the files of the cache     *)
(* directory.                                                              *)
(*                                                                         *)
(* The server runs one command at a time (one HTTP worker thread), so the  *)
(* only concurrency is with crashes, failing I/O and failing model calls,  *)
(* and with the commands of other sessions between two commands of this    *)
(* one.  A command that writes several files is several actions, chained   *)
(* by cmd; Restart may come between any two of them.                       *)
(*                                                                         *)
(* Abstractions: a memory is its text; token counts decide where segments  *)
(* split and which context is long enough, so those choices are free; blob *)
(* sizes decide what the budget evicts, so that choice is free as well     *)
(* (ResidentKVStore has the exact rule).  The two files of the facts are   *)
(* one copy here: replaced as a whole, left alone, or lost, by a delete or *)
(* a save that fails, and then the directory is a Husk.  What SessionFiles *)
(* allows beyond that is a lost memories.bin that a later failing save     *)
(* writes again under the old session.meta; the session is dirty then.     *)
(***************************************************************************)
EXTENDS Naturals, Sequences, FiniteSets

CONSTANTS
    Texts,        \* memory texts
    Systems,      \* system texts a client may set; "" is the initial one
    MaxMemories,  \* bound on the memories of the session (not in the code)
    MaxSegments,  \* kMaxSegmentsPerSession
    UseNative,    \* runtime.use_native_engine: KV is built without a snapshot
    Budgeted,     \* a resident KV budget is set: eviction may happen
    PlanMayFail,  \* whether a token estimate may fail during a rebuild
    CopyMayBeLost, \* whether a delete or a save that fails may leave a Husk
    None,         \* an absent record, handle or file
    Husk          \* a session directory that does not load

ASSUME BoundsAssumption == MaxMemories \in Nat /\ MaxSegments \in Nat \ {0}
ASSUME FlagsAssumption == {UseNative, Budgeted, PlanMayFail, CopyMayBeLost} \subseteq BOOLEAN

VARIABLES
    facts,     \* session.store, or None when the session is not loaded
    dirty,     \* session.facts_dirty
    stored,    \* the session directory: the facts a restart loads, a Husk, or None
    plan,      \* segment_plan: the memory indices of every segment, or None
    kv,        \* resident, prefix, active and meta: see KVState
    file,      \* seg<N>.db: the contents it was encoded from, or None
    manifest,  \* manifest.meta: the hash of every segment listed, or None
    cmd,       \* the command that runs, and how far it got
    reply      \* the command that returned last, and whether it succeeded

vars == <<facts, dirty, stored, plan, kv, file, manifest, cmd, reply>>

-----------------------------------------------------------------------------
Segs == 1..MaxSegments
Run(first, last) == [i \in 1..(last - first + 1) |-> first + i - 1]
LastOf(s) == s[Len(s)]

Facts == [system : Systems \cup {""}, memories : Seq(Texts),
          boundaries : SUBSET (1..MaxMemories + 1), kv_persist : BOOLEAN]

(* What a KV cache was computed from: the system text, then the memories.  *)
ContentOf(f, s) == <<f.system>> \o [i \in DOMAIN s |-> f.memories[s[i]]]
Content(g) == ContentOf(facts, plan[g])

(* segment_kv_content_hash covers the indices and texts of the memories.   *)
HashOf(f, s) == [indices |-> s, content |-> ContentOf(f, s)]

(* A segment KV handle: what it was computed from, whether it has a        *)
(* snapshot and whether it has a live context.                             *)
Handle(content, snap, live) == [content |-> content, snap |-> snap, live |-> live]

(* The active slot: own is a context of its own, hydrated from a snapshot; *)
(* otherwise the slot shares the handle of the resident segment.           *)
Active(g, own, content) == [seg |-> g, own |-> own, content |-> content]

NoHandles == [g \in Segs |-> None]
NoMeta == [g \in Segs |-> "absent"]
NoKV == [resident |-> NoHandles, prefix |-> NoHandles, active |-> None, meta |-> NoMeta]
Idle == [op |-> "idle", at |-> "run", seg |-> 0]

IsPrefixOf(s, t) == Len(s) <= Len(t) /\ s = SubSeq(t, 1, Len(s))
ProperPrefix(s, t) == Len(s) < Len(t) /\ IsPrefixOf(s, t)

-----------------------------------------------------------------------------
(* The shapes of contents, handles, slots, plans and manifests.  A content *)
(* or a segment has at least one memory; None is none of these values.     *)
ContentType == {<<sys>> \o ms : sys \in Systems \cup {""},
                                ms \in UNION {[1..n -> Texts] : n \in 1..MaxMemories}}
Handles == [content : ContentType, snap : BOOLEAN, live : BOOLEAN]
Slots == [seg : Segs, own : BOOLEAN, content : ContentType]
KVStates == [resident : [Segs -> Handles \cup {None}], prefix : [Segs -> Handles \cup {None}],
             active : Slots \cup {None},
             meta : [Segs -> {"absent", "Missing", "DiskOnly", "Resident"}]]
Segments == Seq(1..MaxMemories) \ {<<>>}
Plans == Seq(Segments)
Manifests == Seq([indices : Segments, content : ContentType])

ASSUME NoneAssumption ==
    None \notin Facts \cup Handles \cup Slots \cup ContentType \cup Plans \cup Manifests

ASSUME HuskAssumption == Husk \notin Facts \cup {None}

-----------------------------------------------------------------------------
(* Operations on a KV state k.  Those that may fail, or depend on the free *)
(* choices, are sets of outcomes.                                          *)
Outcome(ok, k) == [ok |-> ok, kv |-> k]
Ok(k) == Outcome(TRUE, k)
Failed(k) == Outcome(FALSE, k)

(* reset_active_segment, clear_active, and evict_session: the live context *)
(* of the active slot is released without taking a snapshot.               *)
Deactivated(k) ==
    IF k.active = None THEN k
    ELSE LET g == k.active.seg
         IN [k EXCEPT !.active = None,
                      !.resident[g] = IF k.active.own \/ @ = None THEN @
                                      ELSE [@ EXCEPT !.live = FALSE]]

IsLive(h) == h # None /\ h.live
LiveBut(handles, g) == {h \in Segs \ {g} : IsLive(handles[h])}

Snapshotted(handles, g) ==
    [h \in Segs |-> IF h \in LiveBut(handles, g)
                    THEN [handles[h] EXCEPT !.snap = TRUE, !.live = FALSE]
                    ELSE handles[h]]

Evictable(handles, g) ==
    IF Budgeted THEN SUBSET {h \in Segs \ {g} : handles[h] # None} ELSE {{}}

Evicted(handles, E) == [h \in Segs |-> IF h \in E THEN None ELSE handles[h]]

(* Defect: the other contexts stay alive.                                  *)
KeepOnlySegmentLiveReleasingNone(k, g) ==
    {Ok([k EXCEPT !.resident = Evicted(@, E)]) : E \in Evictable(k.resident, g)}

(* keep_only_segment_live: every other context is released to a snapshot,  *)
(* which fails when an export does, then the budget is applied.            *)
KeepOnlySegmentLive(k, g) ==
    LET kept(E) == [k EXCEPT !.resident = Evicted(Snapshotted(@, g), E),
                             !.prefix = Snapshotted(@, g)]
        refocused(j) == IF j.active # None /\ j.active.seg # g
                        THEN Deactivated(j) ELSE j
    IN {Ok(refocused(kept(E))) : E \in Evictable(k.resident, g)}
       \cup (IF LiveBut(k.resident, g) \cup LiveBut(k.prefix, g) # {}
             THEN {Failed(k)} ELSE {})

(* resident.store and the keep_only_segment_live that always follows it.   *)
StoreResident(k, g, handle) ==
    KeepOnlySegmentLive([k EXCEPT !.resident[g] = handle], g)

HasDisk(k, g) == k.meta[g] \in {"DiskOnly", "Resident"} /\ file[g] # None
HasResident(k, g) == k.resident[g] # None

(* Every way to go on from the outcomes that succeeded. *)
Then(outcomes, Rest(_)) == UNION {IF o.ok THEN Rest(o.kv) ELSE {o} : o \in outcomes}

NowResident(k, g) == [k EXCEPT !.meta[g] = "Resident"]
SharedActive(k, g) ==
    IF IsLive(k.resident[g])
    THEN [k EXCEPT !.active = Active(g, FALSE, k.resident[g].content)]
    ELSE k

(* try_prepare_incremental_resident_segment: the prefix is taken, whatever *)
(* follows; it is extended by the appended memories when it is usable and  *)
(* every call succeeds.                                                    *)
PrefixUsable(k, g) ==
    /\ ~UseNative
    /\ k.prefix[g] # None
    /\ ProperPrefix(k.prefix[g].content, Content(g))

PrefixTaken(k, g) == IF UseNative THEN k ELSE [k EXCEPT !.prefix[g] = None]

ExtendedPrefix(k, g) ==
    IF PrefixUsable(k, g) /\ (k.prefix[g].snap \/ k.prefix[g].live)
    THEN {Ok(SharedActive(NowResident(o.kv, g), g)) :
             o \in {o \in Then(KeepOnlySegmentLive(PrefixTaken(k, g), g),
                               LAMBDA j : StoreResident(j, g, Handle(Content(g), TRUE, TRUE))) :
                      o.ok}}
    ELSE {}

(* The KV states left by an attempt that gave nothing: before or after its *)
(* own keep_only_segment_live.                                             *)
PrefixGaveUp(k, g) ==
    {PrefixTaken(k, g)} \cup
    (IF PrefixUsable(k, g)
     THEN {o.kv : o \in {o \in KeepOnlySegmentLive(PrefixTaken(k, g), g) : o.ok}}
     ELSE {})

(* Defect: the file is taken for the segment's KV whatever it holds.       *)
LoadedFileUnchecked(k, g) ==
    Then(StoreResident(k, g, Handle(file[g], TRUE, FALSE)),
         LAMBDA j : {Ok(NowResident(j, g))})

(* Loading the file: decode_kv_snapshot_from_stream is given the texts the *)
(* segment has now and rejects a file that holds others.                   *)
MayProbeFile(k, g, build) ==
    /\ IF build THEN k.meta[g] # "absent" ELSE k.meta[g] \in {"DiskOnly", "Resident"}
    /\ file[g] # None

LoadedFile(k, g) ==
    IF file[g] = Content(g)
    THEN Then(StoreResident(k, g, Handle(Content(g), TRUE, FALSE)),
              LAMBDA j : {Ok(NowResident(j, g))})
    ELSE {}

LoadFailed(k, g) == [k EXCEPT !.meta[g] = "Missing"]

(* Defect: the reference engine's KV is not exported when it is built.     *)
BuiltWithoutSnapshot(k, g) ==
    Then(KeepOnlySegmentLive(k, g),
         LAMBDA j :
             Then(StoreResident(j, g, Handle(Content(g), FALSE, TRUE)),
                  LAMBDA i : {Ok(SharedActive(NowResident(i, g), g))}))

(* Building the KV from the memories: with a snapshot for the reference    *)
(* engine, as a live context only for the native one.                      *)
Built(k, g) ==
    Then(KeepOnlySegmentLive(k, g),
         LAMBDA j :
             {Failed(j)} \cup
             Then(StoreResident(j, g, Handle(Content(g), ~UseNative, TRUE)),
                  LAMBDA i : {Ok(SharedActive(NowResident(i, g), g))}))

(* prepare_resident_segment in mode AllowBuild (build) or RequireExisting. *)
Found(k, g) ==
    Then(KeepOnlySegmentLive(k, g), LAMBDA j : {Ok(SharedActive(j, g))})

FromFileOrBuilt(k, g, build) ==
    LET otherwise(j) == IF build THEN Built(j, g) ELSE {Failed(j)}
    IN IF MayProbeFile(k, g, build)
       THEN LoadedFile(k, g) \cup otherwise(LoadFailed(k, g))
       ELSE otherwise(k)

PrepareResidentSegment(k, g, build) ==
    IF HasResident(k, g) THEN Found(k, g)
    ELSE ExtendedPrefix(k, g) \cup
         UNION {FromFileOrBuilt(j, g, build) : j \in PrefixGaveUp(k, g)}

(* activate_for_search, once the segment is resident: reuse the active     *)
(* context or the resident one if it is long enough, else hydrate a new    *)
(* one from the snapshot; without a blob the native engine rebuilds.       *)
ReuseContext(k, g) ==
    {Ok(j) : j \in
        (IF k.active # None /\ k.active.seg = g /\ (k.active.own \/ IsLive(k.resident[g]))
         THEN {k} ELSE {})
        \cup (IF IsLive(k.resident[g]) THEN {SharedActive(k, g)} ELSE {})}

Hydrated(k, g) ==
    IF k.resident[g].snap
    THEN {Failed(k),
          Ok([k EXCEPT !.active = Active(g, TRUE, k.resident[g].content)])}
    ELSE {}

RebuiltForSearch(k, g) ==
    IF UseNative
    THEN {Failed(k)} \cup
         Then(StoreResident(k, g, Handle(Content(g), FALSE, TRUE)),
              LAMBDA j : {Ok(SharedActive(j, g))})
    ELSE IF k.resident[g].snap THEN {} ELSE {Failed(k)}

ActivateForSearch(k, g) ==
    Then(PrepareResidentSegment(k, g, FALSE),
         LAMBDA j : ReuseContext(j, g)
                      \cup Hydrated(Deactivated(j), g)
                      \cup RebuiltForSearch(Deactivated(j), g))

-----------------------------------------------------------------------------
(* The plan.                                                               *)
StartsSegment(f, m) == m = 1 \/ m \in f.boundaries

(* rebuild_segment_plan_fast: memories in order, a segment starting at     *)
(* every boundary and wherever the token estimate asks for one.            *)
Partitions(f) ==
    LET n == Len(f.memories)
        forced == {m \in 1..n : StartsSegment(f, m)}
        end(S, m) == CHOOSE e \in m..n : /\ e = n \/ (e + 1) \in S
                                         /\ (m + 1)..e \cap S = {}
        ith(S, i) == CHOOSE m \in S : Cardinality({j \in S : j < m}) = i - 1
        cut(S) == [i \in 1..Cardinality(S) |-> Run(ith(S, i), end(S, ith(S, i)))]
    IN {cut(S) : S \in {S \in SUBSET (1..n) :
                          forced \subseteq S /\ Cardinality(S) <= MaxSegments}}

(* restore_segment_plan_from_cache_manifest: the segments of the manifest, *)
(* if their hashes are those of these facts and they cover the memories    *)
(* once each.  The boundaries are not compared.                            *)
SameHash(f, h) ==
    /\ h.indices = Run(h.indices[1], LastOf(h.indices))
    /\ LastOf(h.indices) <= Len(f.memories)
    /\ HashOf(f, h.indices) = h

(* Defect: the coverage of the memories is not checked.                    *)
ManifestFitsInPart(f) ==
    /\ manifest # None
    /\ manifest # <<>>
    /\ \A i \in DOMAIN manifest : SameHash(f, manifest[i])

ManifestFits(f) ==
    /\ manifest # None
    /\ manifest # <<>>
    /\ \A i \in DOMAIN manifest : SameHash(f, manifest[i])
    /\ \A m \in 1..Len(f.memories) :
          Cardinality({i \in DOMAIN manifest : \E k \in DOMAIN manifest[i].indices :
                                                  manifest[i].indices[k] = m}) = 1

LoadedPlans(f) ==
    IF Len(f.memories) = 0 THEN {<<>>}
    ELSE IF ManifestFits(f)
         THEN {[i \in DOMAIN manifest |-> manifest[i].indices]}
         ELSE Partitions(f)

(* refresh_session_kv_metadata on a plan just made: the manifest's files   *)
(* that exist and were written for the same indices and texts.             *)
RefreshedMeta(f, p) ==
    [g \in Segs |->
        IF g \notin DOMAIN p THEN "absent"
        ELSE IF /\ manifest # None
                /\ g \in DOMAIN manifest
                /\ manifest[g] = HashOf(f, p[g])
                /\ file[g] # None
             THEN "DiskOnly" ELSE "Missing"]

(* prepare_session_plan, at the start of every command that needs a plan.  *)
PreparePlan ==
    IF plan # None THEN UNCHANGED <<plan, kv>>
    ELSE /\ plan' \in LoadedPlans(facts)
         /\ kv' = [kv EXCEPT !.meta = RefreshedMeta(facts, plan')]

-----------------------------------------------------------------------------
Reply(op, ok) == [op |-> op, ok |-> ok]
NoReply == Reply("idle", FALSE)

Return(ok) == cmd' = Idle /\ reply' = Reply(cmd.op, ok)
Goto(at, seg) == cmd' = [cmd EXCEPT !.at = at, !.seg = seg] /\ UNCHANGED reply

(* What a delete or a save that fails leaves of the copy: all or nothing.  *)
LeftOf(copy) == IF CopyMayBeLost THEN {copy, Husk} ELSE {copy}

(* Defect: a failed save does not set facts_dirty.                         *)
PersistFailsClean(f) == facts' = f /\ stored' \in LeftOf(stored) /\ UNCHANGED dirty

(* save_session; when it fails the copy is the old one, or it is lost: the *)
(* second rename fails too, after the file it replaces was removed.        *)
PersistOk(f) == facts' = f /\ stored' = f /\ dirty' = FALSE
PersistFails(f) == facts' = f /\ dirty' = TRUE /\ stored' \in LeftOf(stored)

PersistIfDirty(ok) ==
    IF dirty
    THEN IF ok THEN PersistOk(facts) ELSE PersistFails(facts)
    ELSE ok /\ UNCHANGED <<facts, stored, dirty>>

Init ==
    /\ facts = None /\ dirty = FALSE /\ stored = None
    /\ plan = None /\ kv = NoKV
    /\ file = NoHandles /\ manifest = None
    /\ cmd = Idle /\ reply = NoReply

Quiet == cmd = Idle /\ facts # None
Running(op, at) == cmd.op = op /\ cmd.at = at

(* create_session: the id must be free in memory and on disk. *)
CreateSession(kv_persist) ==
    LET f == [system |-> "", memories |-> <<>>, boundaries |-> {}, kv_persist |-> kv_persist]
    IN /\ cmd = Idle /\ facts = None /\ stored = None
       /\ PersistOk(f)
       /\ plan' = <<>>
       /\ reply' = Reply("create", TRUE)
       /\ UNCHANGED <<kv, file, manifest, cmd>>

(* session.meta cannot be written; its directory may exist by then.        *)
CreateFails ==
    /\ cmd = Idle /\ facts = None /\ stored = None
    /\ stored' \in LeftOf(None)
    /\ reply' = Reply("create", FALSE)
    /\ UNCHANGED <<facts, dirty, plan, kv, file, manifest, cmd>>

(* add_system: only before the first memory; the derived state is reset.   *)
AddSystem(system) ==
    LET f == [facts EXCEPT !.system = system]
    IN /\ Quiet
       /\ Len(facts.memories) = 0
       /\ \/ PersistOk(f) /\ reply' = Reply("system", TRUE)
          \/ PersistFails(f) /\ reply' = Reply("system", FALSE)
       /\ plan' = None
       /\ kv' = NoKV
       /\ UNCHANGED <<file, manifest, cmd>>

(* A command that needs the plan; it runs in the actions that follow.      *)
Planned == {"add", "next", "index", "save", "search"}

Begin(op) ==
    /\ Quiet
    /\ PreparePlan
    /\ cmd' = [op |-> op, at |-> "run", seg |-> 0]
    /\ reply' = NoReply
    /\ UNCHANGED <<facts, dirty, stored, file, manifest>>

(* A rebuild that fails leaves the segments made so far as the plan.       *)
BeginFails(op) ==
    /\ Quiet
    /\ PlanMayFail
    /\ plan = None /\ Len(facts.memories) > 0 /\ ~ManifestFits(facts)
    /\ \E n \in 0..Len(facts.memories) - 1 :
          plan' \in Partitions([facts EXCEPT !.memories = SubSeq(@, 1, n)])
    /\ reply' = Reply(op, FALSE)
    /\ UNCHANGED <<facts, dirty, stored, kv, file, manifest, cmd>>

(* append_memory_and_update_plan and the rest of add_memory.               *)
Appended(text) == [facts EXCEPT !.memories = Append(@, text)]
Next1 == Len(facts.memories) + 1
Last == Len(plan)

MarkedMissing(k, g) == [k EXCEPT !.meta[g] = "Missing"]

(* Defect: the staged handle stays resident.                               *)
StagedInPlace(k, g) ==
    IF k.resident[g] = None THEN k ELSE [k EXCEPT !.prefix[g] = k.resident[g]]

(* stage_incremental_prefix: the KV of the segment as it was becomes the   *)
(* prefix of what it will be.                                              *)
Staged(k, g) ==
    IF k.resident[g] = None THEN k
    ELSE [k EXCEPT !.prefix[g] = k.resident[g], !.resident[g] = None]

(* Defect: an addition that is not saved does not set facts_dirty.         *)
AddToLastSegmentClean(text) ==
    /\ Running("add", "run")
    /\ Next1 <= MaxMemories
    /\ plan # <<>> /\ Next1 \notin facts.boundaries
    /\ plan' = [plan EXCEPT ![Last] = Append(@, Next1)]
    /\ kv' = Staged(Deactivated(MarkedMissing(kv, Last)), Last)
    /\ facts' = Appended(text)
    /\ Return(TRUE)
    /\ UNCHANGED <<dirty, stored, file, manifest>>

AddToLastSegment(text) ==
    /\ Running("add", "run")
    /\ Next1 <= MaxMemories
    /\ plan # <<>> /\ Next1 \notin facts.boundaries
    /\ plan' = [plan EXCEPT ![Last] = Append(@, Next1)]
    /\ kv' = Staged(Deactivated(MarkedMissing(kv, Last)), Last)
    /\ facts' = Appended(text) /\ dirty' = TRUE
    /\ Return(TRUE)
    /\ UNCHANGED <<stored, file, manifest>>

(* Defect: the previous segment is staged, though it has not grown.        *)
AddInNewSegmentStaging(text) ==
    /\ Running("add", "run")
    /\ Next1 <= MaxMemories
    /\ Last < MaxSegments
    /\ plan' = Append(plan, <<Next1>>)
    /\ LET k == Deactivated(MarkedMissing(kv, Last + 1))
       IN kv' = IF Last = 0 THEN k ELSE Staged(k, Last)
    /\ PersistOk(Appended(text)) /\ Return(TRUE)
    /\ UNCHANGED <<file, manifest>>

(* Defect: the segment limit is exceeded by one.                           *)
AddInNewSegmentPastLimit(text) ==
    /\ Running("add", "run")
    /\ Next1 <= MaxMemories
    /\ Last <= MaxSegments
    /\ plan' = Append(plan, <<Next1>>)
    /\ kv' = Deactivated(kv)
    /\ PersistOk(Appended(text)) /\ Return(TRUE)
    /\ UNCHANGED <<file, manifest>>

AddInNewSegment(text) ==
    /\ Running("add", "run")
    /\ Next1 <= MaxMemories
    /\ Last < MaxSegments
    /\ plan' = Append(plan, <<Next1>>)
    /\ kv' = Deactivated(MarkedMissing(kv, Last + 1))
    /\ \/ PersistOk(Appended(text)) /\ Return(TRUE)
       \/ PersistFails(Appended(text)) /\ Return(FALSE)
    /\ UNCHANGED <<file, manifest>>

(* The memory is too large, or the segment limit is reached. *)
AddMemoryRejected ==
    /\ Running("add", "run")
    /\ Return(FALSE)
    /\ UNCHANGED <<facts, dirty, stored, plan, kv, file, manifest>>

NextSegment ==
    /\ Running("next", "run")
    /\ plan # <<>> /\ Next1 \notin facts.boundaries
    /\ kv' = Deactivated(kv)
    /\ LET f == [facts EXCEPT !.boundaries = @ \cup {Next1}]
       IN \/ PersistOk(f) /\ Return(TRUE)
          \/ PersistFails(f) /\ Return(FALSE)
    /\ UNCHANGED <<plan, file, manifest>>

NextSegmentRejected ==
    /\ Running("next", "run")
    /\ plan = <<>> \/ Next1 \in facts.boundaries
    /\ Return(FALSE)
    /\ UNCHANGED <<facts, dirty, stored, plan, kv, file, manifest>>

(* Defect: the facts are not persisted first.                              *)
IndexOrSaveDirty(op, deactivate) ==
    /\ Running(op, "run")
    /\ IF plan = <<>>
       THEN Return(FALSE) /\ UNCHANGED kv
       ELSE /\ kv' = IF deactivate THEN Deactivated(kv) ELSE kv
            /\ Goto(IF op = "save" \/ facts.kv_persist THEN "segment" ELSE "build", 1)
    /\ UNCHANGED <<facts, dirty, stored, plan, file, manifest>>

(* index_session and save_session start alike: persist the facts if dirty, *)
(* refuse an empty session.  Only index evicts the active segment.  To     *)
(* persist, the cache directory must be made first.                        *)
IndexOrSave(op, deactivate) ==
    LET persists == op = "save" \/ facts.kv_persist
        prepared == /\ kv' = IF deactivate THEN Deactivated(kv) ELSE kv
                    /\ \/ Goto(IF persists THEN "segment" ELSE "build", 1)
                       \/ persists /\ Return(FALSE)
    IN /\ Running(op, "run")
       /\ \/ /\ PersistIfDirty(TRUE)
             /\ IF plan = <<>> THEN Return(FALSE) /\ UNCHANGED kv ELSE prepared
          \/ PersistIfDirty(FALSE) /\ Return(FALSE) /\ UNCHANGED kv
       /\ UNCHANGED <<plan, file, manifest>>

Index == IndexOrSave("index", TRUE)
Save == IndexOrSave("save", FALSE)

(* One segment of the index of a session that does not persist its KV.     *)
IndexResidentSegment ==
    /\ Running("index", "build") /\ cmd.seg \in DOMAIN plan
    /\ IF HasResident(kv, cmd.seg)
       THEN UNCHANGED kv /\ Goto("build", cmd.seg + 1)
       ELSE \E o \in PrepareResidentSegment(kv, cmd.seg, TRUE) :
                /\ kv' = o.kv
                /\ IF o.ok THEN Goto("build", cmd.seg + 1) ELSE Return(FALSE)
    /\ UNCHANGED <<facts, dirty, stored, plan, file, manifest>>

(* Defect: segments the budget evicted meanwhile are not looked for.       *)
IndexResidentEndUnchecked ==
    /\ Running("index", "build") /\ cmd.seg \notin DOMAIN plan
    /\ Return(TRUE)
    /\ UNCHANGED <<facts, dirty, stored, plan, kv, file, manifest>>

IndexResidentEnd ==
    /\ Running("index", "build") /\ cmd.seg \notin DOMAIN plan
    /\ Return(\A g \in DOMAIN plan : HasResident(kv, g))
    /\ UNCHANGED <<facts, dirty, stored, plan, kv, file, manifest>>

(* persist_session_segments_to_disk, one segment: nothing to do when its   *)
(* file is there already, else make it resident.                           *)
PersistSegment ==
    /\ cmd.at = "segment" /\ cmd.seg \in DOMAIN plan
    /\ IF HasDisk(kv, cmd.seg)
       THEN UNCHANGED kv /\ Goto("manifest", cmd.seg)
       ELSE \E o \in PrepareResidentSegment(kv, cmd.seg, TRUE) :
                /\ kv' = o.kv
                /\ IF o.ok THEN Goto("file", cmd.seg) ELSE Return(FALSE)
    /\ UNCHANGED <<facts, dirty, stored, plan, file, manifest>>

(* persist_segment_kv_snapshot, unless the status now shows a file: export *)
(* the snapshot and replace the file, or remove it when either fails.      *)
PersistFile ==
    /\ cmd.at = "file"
    /\ LET g == cmd.seg
           handle == kv.resident[g]
           marked == NowResident(kv, g)
       IN IF HasDisk(kv, g)
          THEN UNCHANGED <<kv, file>> /\ Goto("manifest", g)
          ELSE \/ /\ handle.snap \/ handle.live
                  /\ file' = [file EXCEPT ![g] = handle.content]
                  /\ kv' = [marked EXCEPT !.resident[g].snap = TRUE]
                  /\ Goto("manifest", g)
               \/ /\ file' = [file EXCEPT ![g] = None]
                  /\ kv' = marked
                  /\ Return(FALSE)
    /\ UNCHANGED <<facts, dirty, stored, plan, manifest>>

(* Defect: the progress manifest lags one segment behind.                  *)
PersistManifestLate ==
    /\ cmd.at = "manifest"
    /\ manifest' = [i \in 1..(cmd.seg - 1) |-> HashOf(facts, plan[i])]
    /\ Goto("segment", cmd.seg + 1)
    /\ UNCHANGED <<facts, dirty, stored, plan, kv, file>>

(* Defect: the loop does not advance.                                      *)
PersistManifestStuck ==
    /\ cmd.at = "manifest"
    /\ manifest' = [i \in 1..cmd.seg |-> HashOf(facts, plan[i])]
    /\ Goto("segment", cmd.seg)
    /\ UNCHANGED <<facts, dirty, stored, plan, kv, file>>

(* save_progress_manifest: the segments done so far, with their hashes.    *)
PersistManifest ==
    /\ cmd.at = "manifest"
    /\ \/ /\ manifest' = [i \in 1..cmd.seg |-> HashOf(facts, plan[i])]
          /\ Goto("segment", cmd.seg + 1)
       \/ UNCHANGED manifest /\ Return(FALSE)
    /\ UNCHANGED <<facts, dirty, stored, plan, kv, file>>

(* The end of both: save marks the session as kv_persist. *)
PersistEnd ==
    /\ cmd.at = "segment" /\ cmd.seg \notin DOMAIN plan
    /\ IF cmd.op = "index" \/ facts.kv_persist
       THEN UNCHANGED <<facts, dirty, stored>> /\ Return(TRUE)
       ELSE LET f == [facts EXCEPT !.kv_persist = TRUE]
            IN \/ PersistOk(f) /\ Return(TRUE)
               \/ PersistFails(f) /\ Return(FALSE)
    /\ UNCHANGED <<plan, kv, file, manifest>>

(* run_search: every segment must be indexed before the first is searched; *)
(* then the query is tokenized, which may fail.                            *)
Search ==
    /\ Running("search", "run")
    /\ \/ /\ plan # <<>> /\ \A g \in DOMAIN plan : HasResident(kv, g) \/ HasDisk(kv, g)
          /\ Goto("activate", 1)
       \/ Return(FALSE)
    /\ UNCHANGED <<facts, dirty, stored, plan, kv, file, manifest>>

(* Defect: a segment that cannot be activated is passed over.              *)
SearchActivateSkipping ==
    /\ Running("search", "activate") /\ cmd.seg \in DOMAIN plan
    /\ \E o \in ActivateForSearch(kv, cmd.seg) :
          IF o.ok
          THEN kv' = o.kv /\ Goto("infer", cmd.seg)
          ELSE kv' = Deactivated(o.kv) /\ Goto("activate", cmd.seg + 1)
    /\ UNCHANGED <<facts, dirty, stored, plan, file, manifest>>

SearchActivate ==
    /\ Running("search", "activate") /\ cmd.seg \in DOMAIN plan
    /\ \E o \in ActivateForSearch(kv, cmd.seg) :
          IF o.ok
          THEN kv' = o.kv /\ Goto("infer", cmd.seg)
          ELSE kv' = Deactivated(o.kv) /\ Return(FALSE)
    /\ UNCHANGED <<facts, dirty, stored, plan, file, manifest>>

(* demote_removed_resident_metadata *)
Demoted(k, g) ==
    IF k.meta[g] # "Resident" THEN k
    ELSE [k EXCEPT !.meta[g] = IF file[g] # None THEN "DiskOnly" ELSE "Missing"]

(* The inference on the active context; then, when streaming under a       *)
(* budget, a segment that has a file leaves memory.                        *)
Streaming == Budgeted /\ Len(plan) > 1

SearchInfer ==
    /\ Running("search", "infer")
    /\ \/ kv' = Deactivated(kv) /\ Return(FALSE)
       \/ /\ kv' = IF Streaming /\ HasDisk(kv, cmd.seg)
                   THEN Deactivated(Demoted([kv EXCEPT !.resident[cmd.seg] = None,
                                                       !.prefix[cmd.seg] = None], cmd.seg))
                   ELSE kv
          /\ Goto("activate", cmd.seg + 1)
    /\ UNCHANGED <<facts, dirty, stored, plan, file, manifest>>

SearchEnd ==
    /\ Running("search", "activate") /\ cmd.seg \notin DOMAIN plan
    /\ Return(TRUE)
    /\ UNCHANGED <<facts, dirty, stored, plan, kv, file, manifest>>

(* clear_session *)
ClearedMeta ==
    [g \in Segs |-> IF kv.meta[g] = "Resident"
                    THEN IF file[g] # None THEN "DiskOnly" ELSE "Missing"
                    ELSE kv.meta[g]]

ClearSession ==
    /\ Quiet
    /\ kv' = [NoKV EXCEPT !.meta = ClearedMeta]
    /\ reply' = Reply("clear", TRUE)
    /\ UNCHANGED <<facts, dirty, stored, plan, file, manifest, cmd>>

(* delete_session: the runtime state goes, then the session directory, and *)
(* then the cache directory, whose removal is not checked and may stop     *)
(* halfway.  When the session directory cannot be removed, one of its      *)
(* files may be gone already; the session stays, and facts_dirty as it is. *)
DeleteSession ==
    /\ Quiet
    /\ kv' = [NoKV EXCEPT !.meta = kv.meta]
    /\ \/ stored' = None /\ cmd' = [op |-> "delete", at |-> "cache", seg |-> 0]
       \/ stored' \in LeftOf(stored) /\ cmd' = [op |-> "delete", at |-> "kept", seg |-> 0]
    /\ reply' = NoReply
    /\ UNCHANGED <<facts, dirty, plan, file, manifest>>

(* Defect: the session is erased although its directory is not.            *)
DeleteCacheErasing ==
    /\ cmd.op = "delete"
    /\ \E left \in SUBSET Segs : file' = [g \in Segs |-> IF g \in left THEN file[g] ELSE None]
    /\ manifest' \in {manifest, None}
    /\ facts' = None /\ dirty' = FALSE /\ plan' = None /\ kv' = NoKV
    /\ Return(cmd.at = "cache")
    /\ UNCHANGED stored

DeleteCache ==
    /\ cmd.op = "delete"
    /\ \E left \in SUBSET Segs : file' = [g \in Segs |-> IF g \in left THEN file[g] ELSE None]
    /\ manifest' \in {manifest, None}
    /\ IF cmd.at = "cache"
       THEN /\ facts' = None /\ dirty' = FALSE /\ plan' = None /\ kv' = NoKV
            /\ Return(TRUE)
       ELSE /\ Return(FALSE)
            /\ UNCHANGED <<facts, dirty, plan, kv>>
    /\ UNCHANGED stored

(* A command of another session, or a oneshot search: the active slot is   *)
(* cleared, live contexts are released and the budget may evict anything   *)
(* of this session.                                                        *)
OtherCommand ==
    /\ Quiet
    /\ \E E \in Evictable(kv.resident, 0) :
          LET k == Deactivated(kv)
          IN kv' = [k EXCEPT !.resident = Evicted(Snapshotted(@, 0), E),
                             !.prefix = Snapshotted(@, 0)]
    /\ reply' = NoReply
    /\ UNCHANGED <<facts, dirty, stored, plan, file, manifest, cmd>>

(* The process ends, at any point, and starts again: init scans the stored *)
(* sessions, passes over those that do not load, and leaves the plans to   *)
(* be made on demand.                                                      *)
Restored == IF stored = Husk THEN None ELSE stored

Restart ==
    /\ facts' = Restored /\ dirty' = FALSE
    /\ plan' = None /\ kv' = NoKV
    /\ cmd' = Idle /\ reply' = NoReply
    /\ UNCHANGED <<stored, file, manifest>>

Next ==
    \/ \E b \in BOOLEAN : CreateSession(b)
    \/ CreateFails
    \/ \E t \in Systems : AddSystem(t)
    \/ \E op \in Planned : Begin(op) \/ BeginFails(op)
    \/ \E t \in Texts : AddToLastSegment(t) \/ AddInNewSegment(t)
    \/ AddMemoryRejected \/ NextSegment \/ NextSegmentRejected
    \/ Index \/ Save
    \/ IndexResidentSegment \/ IndexResidentEnd
    \/ PersistSegment \/ PersistFile \/ PersistManifest \/ PersistEnd
    \/ Search \/ SearchActivate \/ SearchInfer \/ SearchEnd
    \/ ClearSession \/ DeleteSession \/ DeleteCache
    \/ OtherCommand \/ Restart

Spec == Init /\ [][Next]_vars

-----------------------------------------------------------------------------
(* The shape of the state; a range of the plan or of the manifest is not   *)
(* empty, a handle or file holds some content, a running command has a     *)
(* session.                                                                *)
TypeOK ==
    /\ facts # None => facts \in Facts /\ Len(facts.memories) <= MaxMemories
    /\ stored \notin {None, Husk} => stored \in Facts
    /\ dirty \in BOOLEAN
    /\ plan # None => facts # None /\ plan \in Plans /\ Len(plan) <= MaxSegments
    /\ kv \in KVStates
    /\ file \in [Segs -> ContentType \cup {None}]
    /\ manifest # None => manifest \in Manifests
    /\ cmd # Idle => facts # None
    /\ cmd.op \in Planned => plan # None

(* The plan p cuts 1..n, in order, into segments that leave nothing out. *)
Covers(p, n) ==
    /\ \A g \in DOMAIN p :
          /\ p[g] = Run(p[g][1], LastOf(p[g]))
          /\ p[g][1] = IF g = 1 THEN 1 ELSE LastOf(p[g - 1]) + 1
    /\ n = IF p = <<>> THEN 0 ELSE LastOf(LastOf(p))

(* The segments of the plan hold every memory of the session, in order and *)
(* once: what search ranks is what was added.                              *)
PlanCoversMemories == plan # None => Covers(plan, Len(facts.memories))

(* A KV cache in memory was computed from exactly the memories its segment *)
(* has now, however the segment grew, was saved, evicted, reloaded, or was *)
(* deleted and made again.                                                 *)
ResidentIsCurrent ==
    plan # None =>
        \A g \in DOMAIN plan : kv.resident[g] # None => kv.resident[g].content = Content(g)

(* A staged prefix is a proper prefix of its segment: extending it by the  *)
(* memories appended since gives the KV of the segment.                    *)
PrefixCanGrow ==
    plan # None =>
        \A g \in DOMAIN plan : kv.prefix[g] # None => ProperPrefix(kv.prefix[g].content, Content(g))

(* What a search runs its query on is live, and is the KV of the memories  *)
(* of the segment it then ranks.                                           *)
SearchReadsCurrent ==
    cmd.at = "infer" =>
        /\ kv.active # None
        /\ kv.active.seg = cmd.seg
        /\ kv.active.content = Content(cmd.seg)
        /\ kv.active.own \/ IsLive(kv.resident[cmd.seg])

(* At most one llama context of the session is alive, and it is the one    *)
(* the active slot holds.                                                  *)
OneLiveContext ==
    /\ \A g \in Segs : ~IsLive(kv.prefix[g])
    /\ \A g \in Segs : IsLive(kv.resident[g]) =>
          kv.active # None /\ kv.active.seg = g /\ ~kv.active.own

(* With the reference engine every resident segment can be loaded again    *)
(* from its snapshot when its context is gone.                             *)
ReferenceKeepsSnapshots ==
    ~UseNative => \A g \in Segs : /\ kv.resident[g] # None => kv.resident[g].snap
                                  /\ kv.prefix[g] # None => kv.prefix[g].snap

(* The dirty flag is not cleared by a save that failed, nor lost by a      *)
(* later one: the copy of a session that looks clean is never an older one *)
(* (it can be gone, after a delete that failed).                           *)
CleanIsNeverOld == facts # None /\ cmd = Idle /\ ~dirty => stored \in {facts, Husk}

(* A session that looks clean and is not the one on disk: a restart would  *)
(* bring back something else, or nothing.  Only a delete makes one; every  *)
(* other command, failed save and crash leaves the flag up or the copy     *)
(* good.                                                                   *)
LostUnnoticed == facts # None /\ ~dirty /\ stored # facts
OnlyDeleteLoses == [][LostUnnoticed' => LostUnnoticed \/ cmd'.op = "delete"]_vars

(* A reply that indexing succeeded means that a search is admitted.        *)
Admitted == \A g \in DOMAIN plan : HasResident(kv, g) \/ HasDisk(kv, g)
IndexedMeansSearchable == reply = Reply("index", TRUE) /\ plan # None => Admitted

(* After index or save of a kv_persist session has succeeded, a restart    *)
(* that finds the session finds the same facts and the same plan, and a    *)
(* file for every segment.  SavedSurvivesRestart below is about a restart  *)
(* that does not find it.                                                  *)
PersistedMeansRestorable ==
    reply \in {Reply("index", TRUE), Reply("save", TRUE)} /\ facts # None /\ facts.kv_persist
        => \/ stored = Husk
           \/ /\ stored = facts
              /\ LoadedPlans(stored) = {plan}
              /\ \A g \in DOMAIN plan : RefreshedMeta(stored, plan)[g] = "DiskOnly"

(* KV is written to disk only for facts that were saved before, never for  *)
(* memories the copy on disk lacks: a crash between two files leaves no    *)
(* manifest that runs ahead of the session a restart loads.  (The copy may *)
(* be gone, after a delete that failed; then there is no session.)         *)
FactsBeforeKV ==
    cmd.at \in {"segment", "file", "manifest"} => ~dirty /\ stored \in {facts, Husk}

-----------------------------------------------------------------------------
(* What the repository's documents say of the program, and the code does   *)
(* not do.                                                                 *)

(* Index and save of a kv_persist session persist the KV cache of every    *)
(* segment (doc/usage.md:331-332): the file of a segment holds its KV.     *)
PersistedFilesAreCurrent ==
    reply \in {Reply("index", TRUE), Reply("save", TRUE)} /\ facts # None /\ facts.kv_persist
        => \A g \in DOMAIN plan : file[g] = Content(g)

(* A default session that is indexed can be saved so that its KV survives  *)
(* a restart (doc/usage.md:297-299): what save is about to write exists.   *)
IndexedCanBeSaved ==
    Running("save", "file") /\ ~facts.kv_persist /\ ~HasDisk(kv, cmd.seg)
        => kv.resident[cmd.seg].snap \/ kv.resident[cmd.seg].live

(* A saved session survives a restart of the server (doc/usage.md:297-298) *)
(* when save_session has reported success.                                 *)
SavedSurvivesRestart == reply = Reply("save", TRUE) /\ facts # None => Restored = facts

=============================================================================
