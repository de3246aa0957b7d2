----------------------------- MODULE MCApprovals -----------------------------
(* Two proposals of any kind, and two handlers. *)
EXTENDS Approvals
=============================================================================
