-------------------------- MODULE SearchableMemory --------------------------
(***************************************************************************)
(* What a client may rely on when it searches: the model is shown the      *)
(* memories of the session, all of them and in their order, in pieces of   *)
(* consecutive memories under the system text, and nothing changes them    *)
(* meanwhile.  There are no segments, caches or files here; a piece is     *)
(* whatever the implementation activates at once.                          *)
(***************************************************************************)
EXTENDS DurableMemory

VARIABLE query  \* the search that runs or was answered, and how far it got

allVars == <<memory, saved, query>>

Query(state, done, piece) == [state |-> state, done |-> done, piece |-> piece]
NoQuery == Query("none", 0, <<>>)
Answered == Query("answered", 0, <<>>)
Between(done) == Query("running", done, <<>>)

Ask == memory # None /\ query' = Between(0)

(* The next memories are shown to the model. *)
Read ==
    /\ query.state = "running" /\ query.piece = <<>>
    /\ \E n \in 1..Len(memory.memories) - query.done :
          query' = [query EXCEPT !.piece =
                        <<memory.system>>
                          \o SubSeq(memory.memories, query.done + 1, query.done + n)]

Rank ==
    /\ query.state = "running" /\ query.piece # <<>>
    /\ query' = Between(query.done + Len(query.piece) - 1)

(* Only a search that has shown every memory is answered. *)
Answer ==
    /\ query.state = "running" /\ query.piece = <<>>
    /\ query.done = Len(memory.memories) /\ query.done > 0
    /\ query' = Answered

Forget == query' = NoQuery

SearchStep ==
    /\ \/ query.state # "running" /\ Ask
       \/ Read \/ Rank \/ Answer \/ Forget
    /\ UNCHANGED vars

SearchableNext ==
    \/ SearchStep
    \/ query.state # "running" /\ Next /\ Forget
    \/ Restart /\ Forget

SearchableSpec == Init /\ query = NoQuery /\ [][SearchableNext]_allVars

=============================================================================
