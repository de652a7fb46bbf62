--------------------------- MODULE MCCodeProject ---------------------------
(* Model-checking instance of CodeProject. *)
EXTENDS CodeProject

(* One file of the scan and one that only `index --file` brings in.  An    *)
(* edit can keep the number of memories and change which they are: "f"     *)
(* with one chunk and "x" with one chunk make two each.                    *)
MCScanned == <<"f">>
MCMaxChunks == [f |-> 2, x |-> 1]

=============================================================================
