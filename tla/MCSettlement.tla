----------------------------- MODULE MCSettlement -----------------------------
(* Two tasks of two agents: two lines, paid by two runs and the owner's batch. *)
EXTENDS Settlement, TLC
CONSTANTS t1, t2, a, b
MCLineOf == t1 :> a @@ t2 :> b
=============================================================================
