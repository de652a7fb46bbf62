------------------------ MODULE MCResidentKVStore ------------------------
(* Model-checking instance of ResidentKVStore.                             *)
EXTENDS ResidentKVStore, TLC

Symmetry == Permutations(Sessions) \cup Permutations(Segments)

(* Any two entries, or three that hold no live context; larger states       *)
(* are reached and checked, but not continued from.                        *)
FewEntries ==
    \/ Cardinality(DOMAIN entries) < 3
    \/ /\ Cardinality(DOMAIN entries) < 4
       /\ Cardinality({k \in DOMAIN entries : entries[k].live}) = 0

=============================================================================
