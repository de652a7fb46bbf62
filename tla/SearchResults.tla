--------------------------- MODULE SearchResults ---------------------------
(***************************************************************************)
(* How the rankings of the segments become the answer of a search.  A      *)
(* ranking comes from the inference library and is trusted with nothing:   *)
(* it may name positions a segment does not have, or one of them twice.    *)
(***************************************************************************)
EXTENDS Integers, Sequences, FiniteSets

(* An AttentionMemoryRef: the memory and the segment it was found in. *)
Ref(memory, segment) == [memory |-> memory, segment |-> segment]

Found(ordered, memory) == \E i \in DOMAIN ordered : ordered[i].memory = memory

(* Defect: a repeated position is not looked for.                          *)
WithItemRepeated(ordered, segment, indices, position) ==
    IF position + 1 \in DOMAIN indices
    THEN Append(ordered, Ref(indices[position + 1], segment))
    ELSE ordered

(* One ranked position, counted from 0; indices are the memories of the    *)
(* segment.                                                                *)
WithItem(ordered, segment, indices, position) ==
    IF position + 1 \in DOMAIN indices /\ ~Found(ordered, indices[position + 1])
    THEN Append(ordered, Ref(indices[position + 1], segment))
    ELSE ordered

(* merge_segment_ranked_results *)
Merged(ordered, segment, indices, ranked) ==
    LET merged[n \in 0..Len(ranked)] ==
            IF n = 0 THEN ordered ELSE WithItem(merged[n - 1], segment, indices, ranked[n])
    IN merged[Len(ranked)]

(* Defect: one counter for all segments.                                   *)
LimitedTogether(ordered, top_k) ==
    IF top_k = 0 \/ Len(ordered) <= top_k THEN ordered ELSE SubSeq(ordered, 1, top_k)

(* apply_search_result_limits: at most top_k of every segment, 0 for all.  *)
Limited(ordered, top_k) ==
    LET full(kept, ref) ==
            /\ top_k > 0
            /\ Cardinality({i \in DOMAIN kept : kept[i].segment = ref.segment}) >= top_k
        limited[n \in 0..Len(ordered)] ==
            IF n = 0 THEN <<>>
            ELSE IF full(limited[n - 1], ordered[n]) THEN limited[n - 1]
            ELSE Append(limited[n - 1], ordered[n])
    IN limited[Len(ordered)]

=============================================================================
