----------------------------- MODULE TraceLedger -----------------------------
(***************************************************************************)
(* What the dispatch of tasks promises to whoever reads its records, as    *)
(* the board, the billing and the run history do: a run is opened once,    *)
(* for one task, and is settled once, as succeeded or as failed, for good; *)
(* a task links only to a run of its own, and only while that run is open  *)
(* does it come to link to it.                                             *)
(***************************************************************************)
CONSTANTS Task, Run, NoTask, NoRun

VARIABLES
  outcome,   \* "none", "running", "succeeded" or "failed", for each run
  owner,     \* the task a run was opened for
  link       \* the run a task points to

ledger == <<outcome, owner, link>>

Init ==
  /\ outcome = [r \in Run |-> "none"]
  /\ owner = [r \in Run |-> NoTask]
  /\ link = [t \in Task |-> NoRun]

Open(r, t) ==
  /\ outcome[r] = "none"
  /\ outcome' = [outcome EXCEPT ![r] = "running"]
  /\ owner' = [owner EXCEPT ![r] = t]
  /\ link' = link

Link(r, t) ==
  /\ outcome[r] = "running" /\ owner[r] = t
  /\ link' = [link EXCEPT ![t] = r]
  /\ UNCHANGED <<outcome, owner>>

Settle(r, result) ==
  /\ outcome[r] = "running"
  /\ outcome' = [outcome EXCEPT ![r] = result]
  /\ UNCHANGED <<owner, link>>

\* A boot settles whatever the dead server had open.
FailAllOpen ==
  /\ outcome' = [r \in Run |-> IF outcome[r] = "running" THEN "failed" ELSE outcome[r]]
  /\ UNCHANGED <<owner, link>>

Unlink(T) ==
  /\ link' = [t \in Task |-> IF t \in T THEN NoRun ELSE link[t]]
  /\ UNCHANGED <<outcome, owner>>

Next ==
  \/ \E r \in Run, t \in Task : Open(r, t) \/ Link(r, t)
  \/ \E r \in Run, result \in {"succeeded", "failed"} : Settle(r, result)
  \/ FailAllOpen
  \/ \E T \in SUBSET Task : Unlink(T)

Spec == Init /\ [][Next]_ledger
=============================================================================
