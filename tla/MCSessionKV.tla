--------------------------- MODULE MCSessionKV ---------------------------
(* Model-checking instances of SessionKV. *)
EXTENDS SessionKV

(* The replies no property reads are not told apart. *)
Telling == reply \in {Reply("index", TRUE), Reply("save", TRUE)}
View == <<facts, dirty, stored, plan, kv, file, manifest, cmd,
          IF Telling THEN reply ELSE NoReply>>

(* No reply is told apart: for properties that read none. *)
SilentView == <<facts, dirty, stored, plan, kv, file, manifest, cmd>>

=============================================================================
