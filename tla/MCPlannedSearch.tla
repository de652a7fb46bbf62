-------------------------- MODULE MCPlannedSearch --------------------------
(* Model-checking instance of PlannedSearch. *)
EXTENDS PlannedSearch

(* A tokenizer: a small, a middle and a large memory; two equal ones take  *)
(* four tokens more side by side than apart, which is all of the margin,   *)
(* and a small one joins what follows it.                                  *)
Size == [a |-> 2, b |-> 6, c |-> 12]
Seam(t, u) == IF t = u THEN 4 ELSE IF t = "a" THEN -2 ELSE 0

MCTokens(texts) ==
    LET upTo[n \in 0..Len(texts)] ==
            IF n = 0 THEN 3
            ELSE upTo[n - 1] + Size[texts[n]]
                   + IF n = 1 THEN 0 ELSE Seam(texts[n - 1], texts[n])
    IN upTo[Len(texts)]

(* Up to three positions, one of them outside of every segment. *)
MCRankings == UNION {[1..n -> {-1, 0, 1}] : n \in 0..2} \cup {<<2, 0, 2>>, <<1, 3, 0>>}

(* A search reads the segments and changes nothing of the session, which   *)
(* goes on after it as it would have done before: while one runs, or its   *)
(* answer is shown, only the search is told apart.                         *)
View == IF search.at = "none" THEN <<vars, search>> ELSE <<limit, search>>

=============================================================================
