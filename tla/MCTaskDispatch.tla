--------------------------- MODULE MCTaskDispatch ---------------------------
(* Small instances of TaskDispatch for TLC. *)
EXTENDS TaskDispatch

=============================================================================
