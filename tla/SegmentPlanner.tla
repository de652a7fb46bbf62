--------------------------- MODULE SegmentPlanner ---------------------------
(***************************************************************************)
(* How the memories of a session are cut into segments that fit the        *)
(* model's context: one memory at a time as they are added, all of them    *)
(* again when a restart finds no usable manifest, or as the manifest says. *)
(* The three must agree, because the KV files and the results of a search  *)
(* are named after the segments.                                           *)
(*                                                                         *)
(* Tokens(texts) is what estimate_memory_kv_token_count of the inference   *)
(* library gives for a segment of these texts under the system text of the *)
(* session, and what the KV of the segment has when it is built.  It is    *)
(* exact but costly; append_token_estimate is the cheap bound the planner  *)
(* tries first.  Calls that fail are in SessionKV (PlanMayFail), and so is *)
(* where the KV is.  A token count of 2^31 or more cannot be reached below *)
(* the limits, so the saturation of the estimate is left out.              *)
(***************************************************************************)
EXTENDS Integers, Sequences, FiniteSets

CONSTANTS
    Texts,        \* memory texts
    Tokens(_),    \* the tokens of a segment, of the texts of its memories
    Contexts,     \* context lengths the server may be started with
    MaxSegments,  \* kMaxSegmentsPerSession
    MaxMemories,  \* bound on the memories of the session (not in the code)
    None          \* no plan, no manifest

Margin == 4         \* kAppendTokenEstimateSafetyMargin
SoftPercent == 85   \* kSegmentSoftLimitPercent

Larger(m, n) == IF m > n THEN m ELSE n
Lists(n) == UNION {[1..k -> Texts] : k \in 0..n}

(* What a memory adds to a segment when it comes after others differs from *)
(* what it adds alone by at most the margin: templates and tokens that     *)
(* merge at the seam.                                                      *)
Delta(t) == Larger(1, Tokens(<<t>>) - Tokens(<<>>))

ASSUME BoundsAssumption ==
    /\ MaxMemories \in Nat /\ MaxSegments \in Nat
    /\ Contexts \subseteq Nat \ {0}
ASSUME TokensAssumption ==
    \A texts \in Lists(MaxMemories) :
        /\ Tokens(texts) \in Nat \ {0}
        /\ \A t \in Texts : Tokens(Append(texts, t)) <= Tokens(texts) + Delta(t) + Margin

VARIABLES
    memories,    \* session.store.memories
    boundaries,  \* manual_segment_boundaries
    saved,       \* the memories and boundaries on disk
    plan,        \* segment_plan.segments, or None before prepare_session_plan
    next,        \* the memory a rebuild places next, or 0 when none runs
    manifest,    \* the segments of manifest.meta, or None
    limit,       \* effective_context_length
    foreign,     \* history: the manifest or the plan may be another session's,
                 \* or made for another context length
    broken       \* history: a rebuild has failed since the server started

vars == <<memories, boundaries, saved, plan, next, manifest, limit, foreign, broken>>

-----------------------------------------------------------------------------
(* A segment: its memories, its estimated_tokens, and its exact_tokens, 0  *)
(* when they are not known.                                                *)
Segment(indices, estimated, exact) ==
    [indices |-> indices, estimated |-> estimated, exact |-> exact]

LastOf(s) == s[Len(s)]
Run(first, last) == [i \in 1..(last - first + 1) |-> first + i - 1]
TextsOf(ms, indices) == [i \in DOMAIN indices |-> ms[indices[i]]]

SoftLimit == Larger(1, (limit * SoftPercent) \div 100)

(* Defect: no margin.                                                      *)
EstimateTight(segment, t) == segment.estimated + Delta(t)

(* append_token_estimate *)
Estimate(segment, t) == segment.estimated + Delta(t) + Margin

(* The segment with memory m of ms: the estimate if it is low enough, else *)
(* the exact count.                                                        *)
Grown(ms, segment, m) ==
    LET indices == Append(segment.indices, m)
        estimate == Estimate(segment, ms[m])
        exact == Tokens(TextsOf(ms, indices))
    IN IF estimate <= SoftLimit THEN Segment(indices, estimate, 0)
       ELSE Segment(indices, exact, exact)

(* Whether memory m starts a segment, after those already planned. *)
Starts(ms, segments, m, manual) ==
    \/ segments = <<>>
    \/ manual
    \/ Grown(ms, LastOf(segments), m).estimated > SoftLimit

(* Defect: the segments are not counted.                                   *)
AdmittedUncounted(ms, segments, m, manual, fresh) == Tokens(<<ms[m]>>) <= fresh

(* "memory is too large for a fresh segment", "segment limit exceeded" *)
Admitted(ms, segments, m, manual, fresh) ==
    /\ Tokens(<<ms[m]>>) <= fresh
    /\ Starts(ms, segments, m, manual) => Len(segments) < MaxSegments

Placed(ms, segments, m, manual) ==
    LET alone == Tokens(<<ms[m]>>)
    IN IF Starts(ms, segments, m, manual)
       THEN Append(segments, Segment(<<m>>, alone, alone))
       ELSE [segments EXCEPT ![Len(segments)] = Grown(ms, @, m)]

-----------------------------------------------------------------------------
(* restore_segment_plan_from_cache_manifest: every segment must be a range *)
(* of memories with the same texts, fit the context, and together they     *)
(* cover the memories once.  The boundaries are not compared.              *)
SameMemories(e) ==
    /\ e.indices = Run(e.indices[1], LastOf(e.indices))
    /\ LastOf(e.indices) <= Len(memories)
    /\ e.texts = TextsOf(memories, e.indices)

(* Defect: the context length is not compared.                             *)
ManifestFitsAnyContext ==
    /\ manifest # None /\ manifest # <<>>
    /\ \A i \in DOMAIN manifest : SameMemories(manifest[i])
    /\ \A m \in DOMAIN memories :
          Cardinality({i \in DOMAIN manifest : \E k \in DOMAIN manifest[i].indices :
                                                  manifest[i].indices[k] = m}) = 1

ManifestFits ==
    /\ manifest # None /\ manifest # <<>>
    /\ \A i \in DOMAIN manifest : manifest[i].tokens <= limit /\ SameMemories(manifest[i])
    /\ \A m \in DOMAIN memories :
          Cardinality({i \in DOMAIN manifest : \E k \in DOMAIN manifest[i].indices :
                                                  manifest[i].indices[k] = m}) = 1

Restored ==
    [i \in DOMAIN manifest |->
        Segment(manifest[i].indices, manifest[i].tokens, manifest[i].tokens)]

Ready == plan # None /\ next = 0

Init ==
    /\ memories = <<>> /\ boundaries = {}
    /\ saved = [memories |-> <<>>, boundaries |-> {}]
    /\ plan = <<>> /\ next = 0
    /\ manifest = None
    /\ limit \in Contexts
    /\ foreign = FALSE /\ broken = FALSE

(* initialize_session_plan: the first command after a restart; a rebuild   *)
(* starts from an empty plan, which counts as ready from now on.           *)
Prepare ==
    /\ plan = None
    /\ IF memories = <<>> THEN plan' = <<>> /\ next' = 0
       ELSE IF ManifestFits THEN plan' = Restored /\ next' = 0
       ELSE plan' = <<>> /\ next' = 1
    /\ UNCHANGED <<memories, boundaries, saved, manifest, limit, foreign, broken>>

(* Defect: a rebuild does not look at the boundaries.                      *)
RebuildUnbounded ==
    /\ next # 0
    /\ IF Admitted(memories, plan, next, FALSE, SoftLimit)
       THEN /\ plan' = Placed(memories, plan, next, FALSE)
            /\ next' = IF next = Len(memories) THEN 0 ELSE next + 1
            /\ UNCHANGED broken
       ELSE next' = 0 /\ broken' = TRUE /\ UNCHANGED plan
    /\ UNCHANGED <<memories, boundaries, saved, manifest, limit, foreign>>

(* Defect: the limit is tested before it is known whether a segment starts. *)
RebuildCountingFirst ==
    /\ next # 0
    /\ IF Tokens(<<memories[next]>>) <= SoftLimit /\ Len(plan) < MaxSegments
       THEN /\ plan' = Placed(memories, plan, next, next \in boundaries)
            /\ next' = IF next = Len(memories) THEN 0 ELSE next + 1
            /\ UNCHANGED broken
       ELSE next' = 0 /\ broken' = TRUE /\ UNCHANGED plan
    /\ UNCHANGED <<memories, boundaries, saved, manifest, limit, foreign>>

(* rebuild_segment_plan_fast, one memory; an error leaves what was placed. *)
Rebuild ==
    /\ next # 0
    /\ LET manual == next \in boundaries
       IN IF Admitted(memories, plan, next, manual, SoftLimit)
          THEN /\ plan' = Placed(memories, plan, next, manual)
               /\ next' = IF next = Len(memories) THEN 0 ELSE next + 1
               /\ UNCHANGED broken
          ELSE next' = 0 /\ broken' = TRUE /\ UNCHANGED plan
    /\ UNCHANGED <<memories, boundaries, saved, manifest, limit, foreign>>

(* Saving the facts may fail, which the client is told; they stay dirty.   *)
MaySave(ms, bs) == saved' \in {saved, [memories |-> ms, boundaries |-> bs]}

(* append_memory_and_update_plan; a memory that is not admitted changes    *)
(* nothing, one that starts a segment is saved at once.                    *)
Add(t) ==
    LET ms == Append(memories, t)
        m == Len(ms)
        manual == m \in boundaries
    IN /\ Ready /\ Len(memories) < MaxMemories
       /\ Admitted(ms, plan, m, manual, SoftLimit)
       /\ memories' = ms
       /\ plan' = Placed(ms, plan, m, manual)
       /\ IF Starts(ms, plan, m, manual) THEN MaySave(ms, boundaries) ELSE UNCHANGED saved
       /\ UNCHANGED <<boundaries, next, manifest, limit, foreign, broken>>

NextSegment ==
    LET m == Len(memories) + 1
    IN /\ Ready /\ plan # <<>> /\ m \notin boundaries
       /\ boundaries' = boundaries \cup {m}
       /\ MaySave(memories, boundaries')
       /\ UNCHANGED <<memories, plan, next, manifest, limit, foreign, broken>>

(* Index and save commands, as far as the plan goes: the facts are saved;  *)
(* the exact count of a segment is taken from its KV, unless the KV was    *)
(* there already; the manifest lists the segments persisted so far.        *)
EntryOf(segment) ==
    LET texts == TextsOf(memories, segment.indices)
    IN [indices |-> segment.indices, texts |-> texts, tokens |-> Tokens(texts)]

Measured(segments, known) ==
    [i \in DOMAIN segments |->
        IF i \in known
        THEN LET exact == Tokens(TextsOf(memories, segments[i].indices))
             IN Segment(segments[i].indices, exact, exact)
        ELSE segments[i]]

Index(done, persists) ==
    /\ Ready /\ plan # <<>>
    /\ saved' = [memories |-> memories, boundaries |-> boundaries]
    /\ \E known \in SUBSET (1..done) : plan' = Measured(plan, known)
    /\ manifest' = IF persists /\ done > 0 THEN [i \in 1..done |-> EntryOf(plan[i])]
                   ELSE manifest
    /\ UNCHANGED <<memories, boundaries, next, limit, foreign, broken>>

(* delete_session and create_session under the same id: the removal of the *)
(* cache directory is not checked and may leave the manifest.              *)
Recreate(left) ==
    /\ plan # None /\ next = 0
    /\ memories' = <<>> /\ boundaries' = {}
    /\ saved' = [memories |-> <<>>, boundaries |-> {}]
    /\ plan' = <<>> /\ UNCHANGED next
    /\ manifest' = left /\ left \in {manifest, None}
    /\ foreign' = (left # None)
    /\ broken' = FALSE
    /\ UNCHANGED limit

(* The server stops, at any moment, and is started with some context       *)
(* length.                                                                 *)
Restart(c) ==
    /\ memories' = saved.memories /\ boundaries' = saved.boundaries
    /\ plan' = None /\ next' = 0
    /\ limit' = c
    /\ foreign' = /\ foreign \/ c # limit
                  /\ saved.memories # <<>> \/ manifest # None
    /\ broken' = FALSE
    /\ UNCHANGED <<saved, manifest>>

Next ==
    \/ Prepare \/ Rebuild
    \/ \E t \in Texts : Add(t)
    \/ NextSegment
    \/ \E done \in 0..MaxSegments, persists \in BOOLEAN :
          Ready /\ done <= Len(plan) /\ Index(done, persists)
    \/ \E left \in {manifest, None} : Recreate(left)
    \/ \E c \in Contexts : Restart(c)

Spec == Init /\ [][Next]_vars

-----------------------------------------------------------------------------
TokensOf(segment) == Tokens(TextsOf(memories, segment.indices))

PlannedSegments == IF plan = None THEN <<>> ELSE plan

(* The shape of the state. *)
Indices == UNION {[1..k -> 1..MaxMemories] : k \in 1..MaxMemories}
SegmentType == [indices : Indices, estimated : Nat, exact : Nat]
EntryType == [indices : Indices, texts : Lists(MaxMemories), tokens : Nat]

TypeOK ==
    /\ memories \in Lists(MaxMemories)
    /\ boundaries \subseteq 2..MaxMemories + 1
    /\ saved \in [memories : Lists(MaxMemories), boundaries : SUBSET (2..MaxMemories + 1)]
    /\ plan # None => /\ Len(plan) <= MaxSegments
                      /\ \A g \in DOMAIN plan : plan[g] \in SegmentType
    /\ next \in 0..Len(memories)
    /\ manifest # None => /\ Len(manifest) \in 1..MaxSegments
                          /\ \A g \in DOMAIN manifest : manifest[g] \in EntryType
    /\ limit \in Contexts
    /\ {foreign, broken} \subseteq BOOLEAN

(* A count that claims to be exact is, and an estimate is never too low,   *)
(* however many appends, indexings and reloads it went through.            *)
CountsAreSafe ==
    \A g \in DOMAIN PlannedSegments :
        /\ plan[g].exact # 0 => plan[g].exact = TokensOf(plan[g])
        /\ TokensOf(plan[g]) <= plan[g].estimated

(* Every segment fits the context it will be loaded into; one planned for  *)
(* this context leaves the part above the soft limit to the query.         *)
SegmentsFit ==
    \A g \in DOMAIN PlannedSegments :
        /\ TokensOf(plan[g]) <= limit
        /\ ~foreign => TokensOf(plan[g]) <= SoftLimit

(* The plan is the one the memories and boundaries alone determine: in     *)
(* order, a segment starting at a boundary or where the exact count would  *)
(* pass the soft limit, and nowhere else.  So the plan of a session does   *)
(* not depend on when it was indexed, restarted or restored.               *)
PlannedTo == IF next = 0 THEN Len(memories) ELSE next - 1

Continues(g) ==
    LET s == plan[g].indices
    IN /\ s = Run(s[1], LastOf(s))
       /\ s[1] = IF g = 1 THEN 1 ELSE LastOf(plan[g - 1].indices) + 1

Greedy(g) ==
    LET s == plan[g].indices
    IN /\ \A i \in DOMAIN s \ {1} : s[i] \notin boundaries
       /\ \/ g = 1
          \/ s[1] \in boundaries
          \/ Tokens(TextsOf(memories, Append(plan[g - 1].indices, s[1]))) > SoftLimit

PlanIsGreedy ==
    plan # None /\ ~foreign /\ ~broken =>
        /\ \A g \in DOMAIN plan : Continues(g) /\ Greedy(g)
        /\ PlannedTo = IF plan = <<>> THEN 0 ELSE LastOf(LastOf(plan).indices)

(* The memories a session has accepted can be planned again after any      *)
(* restart with the same context: no memory turns out too large and no     *)
(* segment is one too many.                                                *)
RebuildSucceeds == broken => foreign

=============================================================================
