---------------------------- MODULE MCRoutineWork ----------------------------
(* One fire, with room for turns that stall and fail in any order. *)
EXTENDS RoutineWork
=============================================================================
