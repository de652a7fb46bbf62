--------------------------- MODULE DurableMemory ---------------------------
(***************************************************************************)
(* What a client may rely on about the facts of one session, without any   *)
(* file or command: the session has facts in memory and a copy that a      *)
(* restart brings back.  The copy is replaced as a whole, by the facts of  *)
(* that moment, or it is lost as a whole.  SessionKV implements this with  *)
(* its commands, SessionFiles with the two files of the session directory. *)
(***************************************************************************)
EXTENDS Naturals, Sequences

CONSTANTS
    Texts,     \* memory texts
    Systems,   \* system texts
    Settings,  \* values of what else a session is created or changed with
    Partial,   \* whether a copy that was lost may come back in part
    None       \* no session

VARIABLES
    memory,  \* the facts the server works on, or None
    saved    \* the facts a restart loads, or None

vars == <<memory, saved>>

Init == memory = None /\ saved = None

Create(settings) ==
    /\ memory = None /\ saved = None
    /\ memory' = [system |-> "", settings |-> settings, memories |-> <<>>]
    /\ saved' = memory'

(* A change is saved at once, or it is only in memory, or saving it loses  *)
(* the copy there was.                                                     *)
Changed(f) == memory # None /\ memory' = f /\ saved' \in {saved, f, None}

SetSystem(system) ==
    /\ memory.memories = <<>>
    /\ Changed([memory EXCEPT !.system = system])

Configure(settings) == Changed([memory EXCEPT !.settings = settings])

Add(text) == Changed([memory EXCEPT !.memories = Append(@, text)])

Save == memory # None /\ saved' = memory /\ UNCHANGED memory

(* A copy that was lost in part is whole again once that part is written:  *)
(* an earlier state, until the save is complete.                           *)
Recover ==
    /\ Partial /\ memory # None /\ saved = None
    /\ \E n \in 1..Len(memory.memories), x \in Settings :
          saved' = [memory EXCEPT !.settings = x, !.memories = SubSeq(@, 1, n)]
    /\ UNCHANGED memory

(* The copy goes before the session does. *)
Lose == memory # None /\ saved' = None /\ UNCHANGED memory
Drop == memory # None /\ saved = None /\ memory' = None /\ UNCHANGED saved

Restart == memory' = saved /\ UNCHANGED saved

Next ==
    \/ \E x \in Settings : Create(x) \/ (memory # None /\ Configure(x))
    \/ \E t \in Systems : memory # None /\ SetSystem(t)
    \/ \E t \in Texts : memory # None /\ Add(t)
    \/ Save \/ Recover \/ Lose \/ Drop \/ Restart

Spec == Init /\ [][Next]_vars

-----------------------------------------------------------------------------
(* A restart never brings back anything but an earlier state of the list   *)
(* of memories, under the system text they were added with.                *)
IsPrefixOf(s, t) == Len(s) <= Len(t) /\ s = SubSeq(t, 1, Len(s))

SavedIsPrefix ==
    memory # None /\ saved # None =>
        /\ IsPrefixOf(saved.memories, memory.memories)
        /\ saved.memories # <<>> => saved.system = memory.system

=============================================================================
