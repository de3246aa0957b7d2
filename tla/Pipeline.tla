------------------------------- MODULE Pipeline -------------------------------
(***************************************************************************)
(* What a run of a sequential workflow promises to whoever wrote its       *)
(* definition: it starts once and has an end it is not taken back from;    *)
(* its cursor goes on one step at a time, beyond a gate only on that       *)
(* gate's go and beyond a tool only by running it, and goes back only from *)
(* a gate, to the draft.  Handlers, jobs, tasks and faults do not appear.  *)
(***************************************************************************)
EXTENDS Integers

CONSTANTS
  LastStep, Gates, Tools,
  Waived,      \* gates that may be passed without a go: their errors are skipped
  Draft

VARIABLES
  status,      \* "none", "running", "done", "killed" or "failed"
  cursor,      \* the step the run is at
  go,          \* the gates that have said go
  toolRuns,    \* how often each tool has run
  rewinds      \* how often a gate has sent the run back

pipeline == <<status, cursor, go, toolRuns, rewinds>>

Init ==
  /\ status = "none" /\ cursor = 0
  /\ go = {} /\ toolRuns = [s \in Tools |-> 0] /\ rewinds = 0

Start ==
  /\ status = "none" /\ status' = "running"
  /\ UNCHANGED <<cursor, go, toolRuns, rewinds>>

\* A gate's task gives its verdict, or gives it anew when it is retried.
Judge(g) ==
  /\ go' \in {go \cup {g}, go \ {g}}
  /\ UNCHANGED <<status, cursor, toolRuns, rewinds>>

\* The step at the cursor is left behind: a gate with its go, a tool by its run.
Leave ==
  /\ cursor \in Gates \ Waived => cursor \in go
  /\ toolRuns' = IF cursor \in Tools THEN [toolRuns EXCEPT ![cursor] = @ + 1] ELSE toolRuns

\* A handler that outlives the end of its run still moves the cursor.
Advance ==
  /\ status # "none" /\ cursor < LastStep
  /\ Leave
  /\ cursor' = cursor + 1
  /\ UNCHANGED <<status, go, rewinds>>

Rewind ==
  /\ status # "none" /\ cursor \in Gates
  /\ cursor' = Draft /\ rewinds' = rewinds + 1
  /\ UNCHANGED <<status, go, toolRuns>>

\* The run is done at its last step; a last step that is a gate may have sent it back since.
Complete ==
  /\ status # "none" /\ status' = "done"
  /\ \/ cursor = LastStep /\ Leave
     \/ LastStep \in Gates /\ LastStep \in go \cup Waived /\ UNCHANGED toolRuns
  /\ UNCHANGED <<cursor, go, rewinds>>

Abort ==
  /\ status # "none" /\ status' \in {"killed", "failed"}
  /\ UNCHANGED <<cursor, go, toolRuns, rewinds>>

Next ==
  \/ Start \/ Advance \/ Rewind \/ Complete \/ Abort
  \/ \E g \in Gates : Judge(g)

Spec == Init /\ [][Next]_pipeline
=============================================================================
