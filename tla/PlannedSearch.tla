--------------------------- MODULE PlannedSearch ---------------------------
(***************************************************************************)
(* Searches over the segments that SegmentPlanner plans: of the session,   *)
(* segment by segment, and oneshot, over memories that come with the       *)
(* request and are planned for it alone, without boundaries and up to the  *)
(* whole context.  The server runs one command at a time, so the session   *)
(* does not change while a search runs.                                    *)
(*                                                                         *)
(* Whether the segments have their KV, and what is done when one has not,  *)
(* is in SessionKV; a search that fails answers nothing and is left out.   *)
(***************************************************************************)
EXTENDS SegmentPlanner, SearchResults

CONSTANTS
    Rankings,  \* what the library may rank: sequences of positions from 0
    TopK       \* values of top_k, 0 for no limit

ASSUME SearchAssumption == Rankings \subseteq Seq(Int) /\ TopK \subseteq Nat

VARIABLE search  \* the search that runs or was answered, or NoSearch

allVars == <<vars, search>>

(* segments are those planned so far while a oneshot search is planned,    *)
(* and the memories of each while the search runs.                         *)
NoSearch == [at |-> "none", memories |-> <<>>, segments |-> <<>>, done |-> 0,
             ordered |-> <<>>, top_k |-> 0]
Running == search.at \in {"plan", "rank"}

IndicesOf(segments) == [g \in DOMAIN segments |-> segments[g].indices]

Ranking(segments) == [NoSearch EXCEPT !.at = "rank", !.segments = IndicesOf(segments)]

(* run_search *)
BeginSearch ==
    /\ ~Running /\ Ready /\ plan # <<>>
    /\ search' = Ranking(plan)

(* run_oneshot_search, build_oneshot_session *)
BeginOneshot(ms) ==
    /\ ~Running /\ ms # <<>>
    /\ search' = [NoSearch EXCEPT !.at = "plan", !.memories = ms]

(* Defect: a segment grows up to the whole context.                        *)
OneshotPlaceWhole ==
    LET m == search.done + 1
        ms == search.memories
        grown == [search EXCEPT !.segments[1] = Segment(Append(@.indices, m), 0, 0), !.done = m]
    IN /\ search.at = "plan" /\ m <= Len(ms)
       /\ search' = IF Tokens(<<ms[m]>>) > limit THEN NoSearch
                    ELSE IF m = 1 THEN [search EXCEPT !.segments = Placed(ms, @, m, FALSE), !.done = m]
                    ELSE IF Tokens(ms) <= limit THEN grown
                    ELSE NoSearch

(* rebuild_segment_plan_fast_for_oneshot, one memory; one that cannot be   *)
(* placed ends the search.                                                 *)
OneshotPlace ==
    LET m == search.done + 1
        ms == search.memories
    IN /\ search.at = "plan" /\ m <= Len(ms)
       /\ search' = IF Admitted(ms, search.segments, m, FALSE, limit)
                    THEN [search EXCEPT !.segments = Placed(ms, @, m, FALSE), !.done = m]
                    ELSE NoSearch

OneshotPlanned ==
    /\ search.at = "plan" /\ search.done = Len(search.memories)
    /\ search' = Ranking(search.segments)

(* The inference on one segment, and its ranking merged into the results.  *)
SearchSegment(ranked) ==
    LET g == search.done + 1
    IN /\ search.at = "rank" /\ g <= Len(search.segments)
       /\ search' = [search EXCEPT
             !.ordered = Merged(@, g, search.segments[g], ranked),
             !.done = g]

SearchEnd(top_k) ==
    /\ search.at = "rank" /\ search.done = Len(search.segments)
    /\ search' = [search EXCEPT !.at = "answered", !.ordered = Limited(@, top_k),
                                !.top_k = top_k]

SearchStep ==
    \/ BeginSearch
    \/ \E ms \in Lists(MaxMemories) : BeginOneshot(ms)
    \/ OneshotPlace \/ OneshotPlanned
    \/ \E ranked \in Rankings : SearchSegment(ranked)
    \/ \E top_k \in TopK : SearchEnd(top_k)

SessionStep == ~Running /\ Next /\ search' = NoSearch
Crash == \E c \in Contexts : Restart(c) /\ search' = NoSearch

AllNext ==
    \/ SearchStep /\ UNCHANGED vars
    \/ SessionStep
    \/ Crash

AllInit == Init /\ search = NoSearch

AllSpec == AllInit /\ [][AllNext]_allVars

-----------------------------------------------------------------------------
(* Every memory sent with a oneshot search is in one segment, in order; a  *)
(* segment fits the context, and one above the soft limit holds a single   *)
(* memory, so that it is no larger than it has to be.                      *)
OneshotFits ==
    search.at = "plan" =>
        /\ \A g \in DOMAIN search.segments :
              LET s == search.segments[g].indices
                  tokens == Tokens(TextsOf(search.memories, s))
              IN /\ s = Run(s[1], LastOf(s))
                 /\ s[1] = IF g = 1 THEN 1 ELSE LastOf(search.segments[g - 1].indices) + 1
                 /\ tokens <= limit
                 /\ Len(s) > 1 => tokens <= SoftLimit
        /\ search.done = IF search.segments = <<>> THEN 0
                         ELSE LastOf(LastOf(search.segments).indices)

(* Whatever the library ranks, an answer names no memory twice, only       *)
(* memories of the segment it names, segment after segment, and no more    *)
(* than top_k of each.                                                     *)
AnswerIsSound ==
    search.at = "answered" =>
        \A i \in DOMAIN search.ordered :
            LET ref == search.ordered[i]
                indices == search.segments[ref.segment]
                before == {j \in 1..i - 1 : search.ordered[j].segment = ref.segment}
            IN /\ \E k \in DOMAIN indices : indices[k] = ref.memory
               /\ \A j \in 1..i - 1 : /\ search.ordered[j].memory # ref.memory
                                      /\ search.ordered[j].segment <= ref.segment
               /\ search.top_k > 0 => Cardinality(before) < search.top_k

(* The answer is the first top_k results of every segment, and all of them *)
(* when top_k is 0, in the order they had: no segment is crowded out by    *)
(* another, and none is reordered.                                         *)
Earlier(ordered, i) == {j \in 1..i - 1 : ordered[j].segment = ordered[i].segment}
FirstOf(ordered, n) == {i \in DOMAIN ordered : n = 0 \/ Cardinality(Earlier(ordered, i)) < n}

NoSegmentCrowdedOut ==
    [][\A top_k \in TopK :
          SearchEnd(top_k) =>
              LET first == FirstOf(search.ordered, top_k)
              IN /\ Len(search'.ordered) = Cardinality(first)
                 /\ \A i \in first :
                       search'.ordered[Cardinality(first \cap (1..i))] = search.ordered[i]]_allVars

=============================================================================
