----------------------------- MODULE MCTaskGraph -----------------------------
(* Instances of TaskGraph for TLC. *)
EXTENDS TaskGraph, TLC

CONSTANTS lead, writer, editor, artist

\* A lead with three subordinates, of whom one may wait for the two others.
LeadOf == [t \in Task |-> IF t = lead THEN NoTask ELSE lead]
WaitsFor == [t \in Task |-> IF t = editor THEN Task \ {editor, lead} ELSE {}]

\* A root, the head it delegates to, and the writer the head delegates to.
Chain == [t \in Task |-> CASE t = lead -> NoTask [] t = writer -> editor [] OTHER -> lead]
NoWaits == [t \in Task |-> {}]

\* The two others are alike, for the invariants.
Alike == Permutations({writer, artist})
=============================================================================
