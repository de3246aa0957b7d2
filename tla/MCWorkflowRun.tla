---------------------------- MODULE MCWorkflowRun ----------------------------
(* A brief that may be skipped, a draft that is retried, its gate, and a tool that publishes. *)
EXTENDS WorkflowRun
MCSkippable == {0}
MCGates == {2}
MCFatal == {2}
MCTools == {3}
=============================================================================
