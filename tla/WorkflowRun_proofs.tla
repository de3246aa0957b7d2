------------------------- MODULE WorkflowRun_proofs -------------------------
(***************************************************************************)
(* Proofs about WorkflowRun, for any definition of a workflow, any caps    *)
(* and any number of tasks, handlers, faults and requests.                 *)
(***************************************************************************)
EXTENDS WorkflowRun, FiniteSetTheorems, TLAPS

-----------------------------------------------------------------------------
(* The inductive invariants. *)

\* Tasks are created in order, never for a tool.
InOrder == \E n \in 0..MaxTasks : Created = 1..n
NoToolTask == \A t \in Created : task[t].step \notin Tools

\* What a handler works on: the wrapper or a created task; deciding, a task of the step it has read the cursor at; giving
\* up, a task of a step that is retried; spawning, a step that is no tool; running a tool, a tool.
AsksOf(c) ==
  /\ call[c].key # Wrapper => call[c].key \in Created
  /\ call[c].pc = "decide" => call[c].key \in Created /\ task[call[c].key].step = call[c].cursor
  /\ call[c].pc = "giveup" =>
       call[c].key \in Created /\ task[call[c].key].step \notin Skippable \cup Fatal
  /\ call[c].pc = "spawn" => call[c].at \notin Tools
  /\ call[c].pc = "tool" => call[c].at \in Tools

Asks == \A c \in Call : AsksOf(c)

\* Jobs and events are those of created tasks.
Heard ==
  /\ \A t \in Task : job[t].state # "free" => t \in Created
  /\ \A i \in DOMAIN log : log[i] \in Created

Core == TypeOK /\ InOrder /\ NoToolTask /\ Asks /\ Heard

InTool(c) == call[c].pc = "tool"

\* One handler at most runs tools, the one at the cursor.
OneTool == \A c \in Call : InTool(c) =>
  /\ call[c].at = run.cursor
  /\ \A d \in Call : InTool(d) => c = d

\* A tool the run has yet to reach has run at most once for each rewind.
Ahead(s) == run.cursor < s \/ \E c \in Call : InTool(c) /\ call[c].at = s

Counted == \A s \in Tools :
  /\ toolRuns[s] <= 1 + bounces
  /\ Ahead(s) => toolRuns[s] <= bounces

ToolInv == OneTool /\ Counted

\* A gate that may not be skipped and lies before step n has a task that said go.
Passed(n) == \A g \in Gates \ Skippable :
  n > g => \E t \in Task : task[t].step = g /\ task[t].verdict = "go"

\* Only a finished task of a gate has a verdict.
Verdicts == \A t \in Task :
  task[t].verdict # "none" => task[t].status = "done" /\ task[t].step \in Gates

GateInv ==
  /\ Verdicts
  /\ Passed(run.cursor)
  /\ run.status = "done" => Passed(LastStep + 1)
  /\ \A c \in Call : call[c].pc = "decide" => Passed(call[c].cursor)

\* A run that goes straight: one handler at most is at work, holding its job, at the cursor.
Busy(c) == call[c].pc # "idle"
Settled(t) == task[t].status \in {"done", "error"}

OneHandler == \A c \in Call : Busy(c) =>
  /\ ~call[c].late /\ job[call[c].key].state = "active"
  /\ \A d \in Call : Busy(d) => c = d
  /\ run.status # "none"
  /\ IF call[c].pc = "close" THEN run.status \in Ended ELSE run.status = "running"

AtCursor == \A c \in Call :
  /\ call[c].pc = "decide" =>
       call[c].cursor = run.cursor /\ (call[c].errored <=> task[call[c].key].status = "error")
  /\ call[c].pc = "spawn" =>
       call[c].at = run.cursor /\ \A t \in Created : task[t].step # run.cursor
  /\ call[c].pc # "giveup"

\* A step has one task, which is of the cursor while it lives; heard of is what is settled.
OneTaskPerStep ==
  /\ run.status = "none" => Created = {} /\ run.cursor = 0
  /\ \A t \in Created : task[t].step <= run.cursor /\ (task[t].step < run.cursor => Settled(t))
  /\ \A t, u \in Created : task[t].step = task[u].step => t = u
  /\ \A t \in Task : job[t].state # "free" => Settled(t)
  /\ \A i \in DOMAIN log : Settled(log[i])

\* Every step that is behind the run is complete, and no tool ahead of it has run.
Complete(s) ==
  IF s \in Tools THEN toolRuns[s] = 1
  ELSE \E t \in Created : /\ task[t].step = s
                          /\ task[t].status \in {"done"} \cup (IF s \in Skippable THEN {"error"} ELSE {})

Behind ==
  /\ \A s \in Step : s < run.cursor => Complete(s)
  /\ run.status = "done" => Complete(run.cursor) /\ run.cursor = LastStep
  /\ run.status # "done" => \A s \in Tools : run.cursor <= s => toolRuns[s] = 0

Orderly == OneHandler /\ AtCursor /\ OneTaskPerStep /\ Behind

StraightInv == Straight => Orderly

-----------------------------------------------------------------------------
(* Types. *)

Pcs == {"idle", "decide", "giveup", "spawn", "tool", "close"}

\* What the assumption and the types say of the steps and of fresh rows.
LEMMA Facts ==
  /\ LastStep \in Nat /\ MaxTasks \in Nat /\ MaxRevisions \in Nat /\ RetryLimit \in Nat
  /\ 0 \in Step /\ 0 \notin Tools /\ Draft \in Step /\ Draft \notin Tools
  /\ Gates \subseteq Step /\ Tools \subseteq Step /\ Gates \cap Tools = {}
  /\ Step \subseteq Nat /\ Task \subseteq Nat /\ Wrapper \in Key /\ Task \subseteq Key
  /\ Wrapper \notin Task
  /\ Idle \in Calls /\ FreeJob \in Jobs /\ Unused \in Tasks
BY WorkflowAssumption DEF Step, Task, Key, Wrapper, Idle, Calls, FreeJob, Jobs, Unused, Tasks

\* A row that is not unused has the fields of a created task.
LEMMA RowFacts ==
  ASSUME task \in [Task -> Tasks], NEW t \in Task
  PROVE  /\ task[t].step \in Step /\ task[t].retries \in Nat /\ task[t].verdict \in Verdict
         /\ task[t].linked \in BOOLEAN
         /\ task[t].status \in {"unused", "todo", "in_progress", "done", "error"}
         /\ task[t].status = "unused" => task[t] = Unused
<1> DEFINE Row == [status : {"todo", "in_progress", "done", "error"}, step : Step,
                   verdict : Verdict, retries : Nat, linked : BOOLEAN]
<1>1. task[t] \in Tasks
  OBVIOUS
<1>2. CASE task[t] = Unused
  BY <1>2, Facts DEF Unused, Verdict
<1>3. CASE task[t] \in Row
  BY <1>3
<1> QED BY <1>1, <1>2, <1>3 DEF Tasks

\* The handler goes on to another statement.
LEMMA GotoFacts ==
  ASSUME call \in [Call -> Calls], NEW c \in Call, NEW pc \in Pcs, Goto(c, pc)
  PROVE  /\ call' \in [Call -> Calls]
         /\ \A d \in Call \ {c} : call'[d] = call[d]
         /\ call'[c].pc = pc /\ call'[c].key = call[c].key /\ call'[c].late = call[c].late
         /\ call'[c].errored = call[c].errored /\ call'[c].cursor = call[c].cursor
         /\ call'[c].at = call[c].at
<1>1. call[c] \in Calls
  OBVIOUS
<1>2. [call[c] EXCEPT !.pc = pc] \in Calls
  BY <1>1 DEF Calls, Pcs
<1>3. call' = [call EXCEPT ![c] = [call[c] EXCEPT !.pc = pc]]
  BY DEF Goto
<1> QED BY <1>1, <1>2, <1>3 DEF Calls

\* The same, for a step to spawn or to run.
LEMMA GotoAtFacts ==
  ASSUME call \in [Call -> Calls], NEW c \in Call, NEW pc \in Pcs, NEW at \in Step,
         GotoAt(c, pc, at)
  PROVE  /\ call' \in [Call -> Calls]
         /\ \A d \in Call \ {c} : call'[d] = call[d]
         /\ call'[c].pc = pc /\ call'[c].at = at
         /\ call'[c].key = call[c].key /\ call'[c].late = call[c].late
<1>1. call[c] \in Calls
  OBVIOUS
<1>2. [call[c] EXCEPT !.pc = pc, !.at = at] \in Calls
  BY <1>1 DEF Calls, Pcs
<1>3. call' = [call EXCEPT ![c] = [call[c] EXCEPT !.pc = pc, !.at = at]]
  BY DEF GotoAt
<1> QED BY <1>1, <1>2, <1>3 DEF Calls

\* The handler returns, with or without its job.
LEMMA ReturnFacts ==
  ASSUME call \in [Call -> Calls], job \in [Key -> Jobs], NEW c \in Call, Return(c)
  PROVE  /\ call' \in [Call -> Calls] /\ job' \in [Key -> Jobs]
         /\ \A d \in Call \ {c} : call'[d] = call[d]
         /\ call'[c] = Idle
         /\ \A k \in Key : k # call[c].key => job'[k] = job[k]
         /\ \A k \in Key : job'[k] = job[k] \/ job'[k] = FreeJob
<1>1. call[c].key \in Key
  BY DEF Calls
<1> QED BY <1>1, Facts DEF Return

\* A job that is given up waits for its retry or is free.
LEMMA GivenUpFacts ==
  ASSUME NEW j \in Jobs
  PROVE  GivenUp(j) \in Jobs
BY Facts DEF GivenUp, Jobs

\* A free handler is one of the handlers.
LEMMA FreeCallFacts ==
  ASSUME NEW k, Taken(k)
  PROVE  FreeCall \in Call /\ call[FreeCall].pc = "idle"
BY DEF Taken, FreeCall

\* The fields of the run's row and of a handler.
LEMMA RunFacts ==
  ASSUME TypeOK
  PROVE  /\ run.status \in {"none", "running"} \cup Ended /\ run.cursor \in Step
         /\ run.revisions \in Nat
         /\ \A c \in Call : /\ call[c].key \in Key /\ call[c].cursor \in Step
                            /\ call[c].at \in Step /\ call[c].revisions \in Nat
                            /\ call[c].pc \in Pcs /\ call[c].errored \in BOOLEAN
                            /\ call[c].late \in BOOLEAN
BY DEF TypeOK, Runs, Calls, Pcs

\* The bounds of faults and requests, which every step keeps.
Counts == faults \in 0..MaxFaults /\ requests \in 0..MaxRequests

LEMMA CountsStep ==
  ASSUME Counts, UNCHANGED bounds \/ Fault \/ Request
  PROVE  Counts'
BY WorkflowAssumption DEF Counts, bounds, Fault, Request

\* The row with a status, a cursor or both is a row.
LEMMA RunTypes ==
  ASSUME TypeOK, NEW s \in {"none", "running"} \cup Ended, NEW n \in Step, NEW k \in Nat
  PROVE  /\ [run EXCEPT !.status = s] \in Runs
         /\ [run EXCEPT !.cursor = n] \in Runs
         /\ [run EXCEPT !.cursor = n, !.revisions = k] \in Runs
BY DEF TypeOK, Runs

\* Going forward, ending, and what both do to the row and the handler.
EndFrame == UNCHANGED <<container, task, sent, poller, enabled, history, bounds>>

LEMMA EndFacts ==
  ASSUME TypeOK, NEW c \in Call, NEW s \in Ended, EndRun(c, s)
  PROVE  /\ run' \in Runs /\ run'.status = s /\ run'.cursor = run.cursor
         /\ call' \in [Call -> Calls] /\ job' = job
         /\ \A d \in Call \ {c} : call'[d] = call[d]
         /\ call'[c].pc = "close" /\ call'[c].key = call[c].key /\ call'[c].late = call[c].late
<1>1. run' = [run EXCEPT !.status = s] /\ Goto(c, "close") /\ job' = job
  BY DEF EndRun
<1>2. run' \in Runs /\ run'.status = s /\ run'.cursor = run.cursor
  BY <1>1, RunTypes DEF TypeOK, Runs
<1>3. call \in [Call -> Calls] /\ "close" \in Pcs
  BY DEF TypeOK, Pcs
<1> QED BY <1>1, <1>2, <1>3, GotoFacts

\* The cursor moves to n, and the handler goes on to run or to spawn that step.
Moves(c, n) ==
  /\ run' = [run EXCEPT !.cursor = n]
  /\ GotoAt(c, IF n \in Tools THEN "tool" ELSE "spawn", n)
  /\ UNCHANGED job

LEMMA MoveFacts ==
  ASSUME TypeOK, NEW c \in Call, NEW n \in Step, Moves(c, n)
  PROVE  /\ run' \in Runs /\ run'.status = run.status /\ run'.cursor = n
         /\ call' \in [Call -> Calls] /\ job' = job
         /\ \A d \in Call \ {c} : call'[d] = call[d]
         /\ call'[c].pc = (IF n \in Tools THEN "tool" ELSE "spawn") /\ call'[c].at = n
         /\ call'[c].key = call[c].key /\ call'[c].late = call[c].late
<1>1. run' \in Runs /\ run'.status = run.status /\ run'.cursor = n
  BY RunTypes DEF TypeOK, Runs, Moves
<1>2. (IF n \in Tools THEN "tool" ELSE "spawn") \in Pcs
  BY DEF Pcs
<1>3. call \in [Call -> Calls] /\ GotoAt(c, IF n \in Tools THEN "tool" ELSE "spawn", n) /\ job' = job
  BY DEF TypeOK, Moves
<1> QED BY <1>1, <1>2, <1>3, GotoAtFacts

\* The three ways of Forward.
LEMMA ForwardCases ==
  ASSUME TypeOK, NEW c \in Call, Forward(c)
  PROVE  \/ call[c].cursor = LastStep /\ EndRun(c, "done")
         \/ /\ call[c].cursor < LastStep /\ call[c].cursor + 1 \in Step
            /\ run.cursor = call[c].cursor /\ Moves(c, call[c].cursor + 1)
         \/ run.cursor # call[c].cursor /\ Return(c) /\ UNCHANGED run
BY RunFacts, Facts DEF Forward, PastEnd, Unmoved, Moves, Step

\* Of what a handler does when it has decided: types but those of the tasks.
Deciding(c) ==
  \/ Advance(c) \/ PassGate(c) \/ KillAtGate(c) \/ Rewind(c) \/ SkipStep(c) \/ FailStep(c)

LEMMA DecidingTypes ==
  ASSUME TypeOK, NEW c \in Call, Deciding(c)
  PROVE  /\ run' \in Runs /\ call' \in [Call -> Calls] /\ job' \in [Key -> Jobs]
         /\ bounces' \in Nat
<1>0. call \in [Call -> Calls] /\ job \in [Key -> Jobs] /\ run \in Runs /\ bounces \in Nat
  BY DEF TypeOK
<1>1. CASE Advance(c) \/ PassGate(c) \/ SkipStep(c)
  <2>1. Forward(c) /\ bounces' = bounces
    BY <1>1 DEF Advance, PassGate, SkipStep, history
  <2>2. CASE EndRun(c, "done")
    BY <1>0, <2>1, <2>2, EndFacts DEF Ended
  <2>3. CASE call[c].cursor + 1 \in Step /\ Moves(c, call[c].cursor + 1)
    BY <1>0, <2>1, <2>3, MoveFacts
  <2>4. CASE Return(c) /\ UNCHANGED run
    BY <1>0, <2>1, <2>4, ReturnFacts
  <2> QED BY <2>1, <2>2, <2>3, <2>4, ForwardCases
<1>2. CASE KillAtGate(c)
  BY <1>0, <1>2, EndFacts DEF KillAtGate, Ended, history
<1>3. CASE FailStep(c)
  BY <1>0, <1>3, EndFacts DEF FailStep, Ended, history
<1>4. CASE Rewind(c)
  <2>1. CASE Unmoved(c)
    <3>1. run' = [run EXCEPT !.cursor = Draft, !.revisions = call[c].revisions + 1]
          /\ GotoAt(c, "spawn", Draft) /\ bounces' = bounces + 1 /\ job' = job
      BY <1>4, <2>1 DEF Rewind
    <3>2. call[c].revisions + 1 \in Nat
      BY RunFacts
    <3>3. run' \in Runs
      BY <3>1, <3>2, Facts, RunTypes
    <3>4. "spawn" \in Pcs
      BY DEF Pcs
    <3> QED BY <1>0, <3>1, <3>3, <3>4, Facts, GotoAtFacts
  <2>2. CASE ~Unmoved(c)
    BY <1>0, <1>4, <2>2, ReturnFacts DEF Rewind
  <2> QED BY <2>1, <2>2
<1> QED BY <1>1, <1>2, <1>3, <1>4 DEF Deciding

\* One row of the tasks is written anew.
LEMMA WriteTypes ==
  ASSUME task \in [Task -> Tasks], NEW t \in Task, NEW row \in Tasks
  PROVE  [task EXCEPT ![t] = row] \in [Task -> Tasks]
OBVIOUS

\* The next task is one that was not created yet.
LEMMA NextTask ==
  ASSUME InOrder, Cardinality(Created) < MaxTasks
  PROVE  /\ Cardinality(Created) + 1 \in Task \ Created
         /\ \E n \in 0..MaxTasks : Created = 1..n /\ n = Cardinality(Created) /\ n < MaxTasks
<1>1. PICK n \in 0..MaxTasks : Created = 1..n
  BY DEF InOrder
<1>2. Cardinality(Created) = n
  BY <1>1, FS_Interval, Facts
<1> QED BY <1>1, <1>2, Facts DEF Task

\* Every row of the tasks keeps its step, and none is created or deleted.
Rows == \A t \in Task :
  task'[t].step = task[t].step /\ (task'[t].status = "unused" <=> task[t].status = "unused")

\* What a step other than a spawn does to the tasks: it keeps them or writes one row.
Rewritten(t, s, v, n) ==
  /\ task[t].status # "unused"
  /\ task' \in [Task -> Tasks] /\ Rows
  /\ \A u \in Task \ {t} : task'[u] = task[u]
  /\ task'[t].status = s /\ task'[t].verdict = v /\ task'[t].retries = n
  /\ task'[t].step = task[t].step

\* Writing some fields of a row.
LEMMA ExceptRow ==
  ASSUME task \in [Task -> Tasks], NEW t \in Task, task[t].status # "unused",
         NEW s \in {"todo", "in_progress", "done", "error"}, NEW v \in Verdict,
         NEW n \in Nat, NEW l \in BOOLEAN
  PROVE  /\ task' = [task EXCEPT ![t].status = s] =>
              Rewritten(t, s, task[t].verdict, task[t].retries)
         /\ task' = [task EXCEPT ![t].status = s, ![t].linked = l] =>
              Rewritten(t, s, task[t].verdict, task[t].retries)
         /\ task' = [task EXCEPT ![t] = [task[t] EXCEPT !.status = s]] =>
              Rewritten(t, s, task[t].verdict, task[t].retries)
         /\ task' = [task EXCEPT ![t].status = s, ![t].retries = n] =>
              Rewritten(t, s, task[t].verdict, n)
         /\ task' = [task EXCEPT ![t] = [task[t] EXCEPT !.status = s, !.verdict = v, !.linked = l]]
              => Rewritten(t, s, v, task[t].retries)
<1> DEFINE Row == [status : {"todo", "in_progress", "done", "error"}, step : Step,
                   verdict : Verdict, retries : Nat, linked : BOOLEAN]
<1>1. task[t] \in Row
  BY DEF Tasks, Unused
<1>2. \A row \in Row : task' = [task EXCEPT ![t] = row] /\ row.step = task[t].step =>
        Rewritten(t, row.status, row.verdict, row.retries)
  <2> SUFFICES ASSUME NEW row \in Row, task' = [task EXCEPT ![t] = row], row.step = task[t].step
               PROVE  Rewritten(t, row.status, row.verdict, row.retries)
    OBVIOUS
  <2>1. row \in Tasks /\ row.status # "unused"
    BY DEF Tasks
  <2> HIDE DEF Row
  <2>2. task' \in [Task -> Tasks] /\ task'[t] = row /\ \A u \in Task \ {t} : task'[u] = task[u]
    BY <2>1
  <2> QED BY <2>1, <2>2 DEF Rewritten, Rows
<1> DEFINE a == [task[t] EXCEPT !.status = s]
           b == [task[t] EXCEPT !.status = s, !.linked = l]
           c == [task[t] EXCEPT !.status = s, !.retries = n]
           d == [task[t] EXCEPT !.status = s, !.verdict = v, !.linked = l]
<1>3. /\ a \in Row /\ a.status = s /\ a.step = task[t].step /\ a.verdict = task[t].verdict
      /\ a.retries = task[t].retries
  BY <1>1
<1>4. /\ b \in Row /\ b.status = s /\ b.step = task[t].step /\ b.verdict = task[t].verdict
      /\ b.retries = task[t].retries
  BY <1>1
<1>5. /\ c \in Row /\ c.status = s /\ c.step = task[t].step /\ c.verdict = task[t].verdict
      /\ c.retries = n
  BY <1>1
<1>6. /\ d \in Row /\ d.status = s /\ d.step = task[t].step /\ d.verdict = v
      /\ d.retries = task[t].retries
  BY <1>1
<1>7. /\ task' = [task EXCEPT ![t].status = s] => task' = [task EXCEPT ![t] = a]
      /\ task' = [task EXCEPT ![t].status = s, ![t].linked = l] => task' = [task EXCEPT ![t] = b]
      /\ task' = [task EXCEPT ![t].status = s, ![t].retries = n] => task' = [task EXCEPT ![t] = c]
  OBVIOUS
<1> HIDE DEF Row, a, b, c, d
<1>8. /\ task' = [task EXCEPT ![t] = a] => Rewritten(t, s, task[t].verdict, task[t].retries)
      /\ task' = [task EXCEPT ![t] = b] => Rewritten(t, s, task[t].verdict, task[t].retries)
      /\ task' = [task EXCEPT ![t] = c] => Rewritten(t, s, task[t].verdict, n)
      /\ task' = [task EXCEPT ![t] = d] => Rewritten(t, s, v, task[t].retries)
  BY <1>2, <1>3, <1>4, <1>5, <1>6
<1> QED BY <1>7, <1>8 DEF a, d

\* The rows that turns, users, retries and the giving up write.
LEMMA Rewrites ==
  ASSUME task \in [Task -> Tasks], NEW t \in Task
  PROVE  /\ StartTurn(t) => \/ task' = task
                            \/ /\ task[t].status = "todo"
                               /\ Rewritten(t, "in_progress", task[t].verdict, task[t].retries)
         /\ \A v \in Verdict : Finish(t, v) =>
              /\ task[t].status = "in_progress" /\ (v # "none" => task[t].step \in Gates)
              /\ Rewritten(t, "done", v, task[t].retries)
         /\ Err(t) => /\ task[t].status = "in_progress"
                      /\ Rewritten(t, "error", task[t].verdict, task[t].retries)
         /\ SilentFinish(t) => /\ task[t].status = "in_progress"
                               /\ Rewritten(t, "done", task[t].verdict, task[t].retries)
         /\ UserDone(t) => /\ task[t].status = "todo"
                           /\ Rewritten(t, "done", task[t].verdict, task[t].retries)
         /\ \A c \in Call : RetryStep(c) /\ call[c].key = t => \/ task' = task
              \/ /\ task[t].status = "error"
                 /\ Rewritten(t, "todo", task[t].verdict, task[t].retries + 1)
         /\ \A c \in Call : GiveUp(c) /\ call[c].key = t /\ t \in Created =>
              Rewritten(t, "error", task[t].verdict, task[t].retries)
<1>1. StartTurn(t) => \/ task' = task
                      \/ /\ task[t].status = "todo"
                         /\ Rewritten(t, "in_progress", task[t].verdict, task[t].retries)
  BY ExceptRow, RowFacts DEF StartTurn
<1>2. ASSUME NEW v \in Verdict, Finish(t, v)
      PROVE  /\ task[t].status = "in_progress" /\ (v # "none" => task[t].step \in Gates)
             /\ Rewritten(t, "done", v, task[t].retries)
  <2>1. /\ task[t].status = "in_progress" /\ (v # "none" => task[t].step \in Gates)
        /\ task' = [task EXCEPT ![t] =
             [task[t] EXCEPT !.status = "done", !.verdict = v, !.linked = FALSE]]
    BY <1>2 DEF Finish, Settle
  <2>2. task[t].retries \in Nat
    BY RowFacts
  <2> QED BY <2>1, <2>2, ExceptRow
<1>3. Err(t) => /\ task[t].status = "in_progress"
                /\ Rewritten(t, "error", task[t].verdict, task[t].retries)
  BY ExceptRow, RowFacts DEF Err, Settle
<1>4. SilentFinish(t) => /\ task[t].status = "in_progress"
                         /\ Rewritten(t, "done", task[t].verdict, task[t].retries)
  BY ExceptRow, RowFacts DEF SilentFinish
<1>5. UserDone(t) => /\ task[t].status = "todo"
                     /\ Rewritten(t, "done", task[t].verdict, task[t].retries)
  BY ExceptRow, RowFacts DEF UserDone, Settle
<1>6. ASSUME NEW c \in Call, RetryStep(c), call[c].key = t
      PROVE  \/ task' = task
             \/ /\ task[t].status = "error"
                /\ Rewritten(t, "todo", task[t].verdict, task[t].retries + 1)
  <2>1. CASE task[t].status # "error"
    BY <1>6, <2>1 DEF RetryStep
  <2>2. CASE task[t].status = "error"
    <3>1. task' = [task EXCEPT ![t].status = "todo", ![t].retries = task[t].retries + 1]
      BY <1>6, <2>2 DEF RetryStep
    <3>2. task[t].retries + 1 \in Nat /\ "none" \in Verdict
      BY RowFacts DEF Verdict
    <3> QED BY <2>2, <3>1, <3>2, ExceptRow
  <2> QED BY <2>1, <2>2
<1>7. ASSUME NEW c \in Call, GiveUp(c), call[c].key = t, t \in Created
      PROVE  Rewritten(t, "error", task[t].verdict, task[t].retries)
  BY <1>7, ExceptRow, RowFacts DEF GiveUp, Created
<1> QED BY <1>1, <1>2, <1>3, <1>4, <1>5, <1>6, <1>7

\* A restart gives up turns; every other row is as it was.
LEMMA RestartRows ==
  ASSUME task \in [Task -> Tasks], Restart
  PROVE  /\ task' \in [Task -> Tasks] /\ Rows
         /\ \A t \in Task : /\ task'[t].verdict = task[t].verdict
                            /\ task'[t].retries = task[t].retries
                            /\ ~Dead(t) => task'[t] = task[t]
<1> DEFINE back(t) == [task[t] EXCEPT !.status = "todo", !.linked = FALSE]
<1>1. task' = [t \in Task |-> IF Dead(t) THEN back(t) ELSE task[t]]
  BY DEF Restart
<1>2. ASSUME NEW t \in Task, Dead(t)
      PROVE  /\ back(t) \in Tasks /\ back(t).step = task[t].step /\ back(t).status = "todo"
             /\ back(t).verdict = task[t].verdict /\ back(t).retries = task[t].retries
             /\ task[t].status # "unused"
  <2> DEFINE Row == [status : {"todo", "in_progress", "done", "error"}, step : Step,
                     verdict : Verdict, retries : Nat, linked : BOOLEAN]
  <2>1. task[t].status # "unused" /\ task[t] \in Row
    BY <1>2 DEF Dead, Tasks, Unused
  <2>2. /\ back(t) \in Row /\ back(t).step = task[t].step /\ back(t).status = "todo"
        /\ back(t).verdict = task[t].verdict /\ back(t).retries = task[t].retries
    BY <2>1
  <2> QED BY <2>1, <2>2 DEF Tasks
<1> HIDE DEF back
<1> QED BY <1>1, <1>2 DEF Rows

\* No step but a spawn creates a task or gives one another step.
LEMMA RowsStep ==
  ASSUME TypeOK, Asks, [Next]_vars, \A c \in Call : ~Spawn(c)
  PROVE  task' \in [Task -> Tasks] /\ Rows
<1>0. task \in [Task -> Tasks] /\ \A c \in Call : call[c].key \in Key
  BY RunFacts DEF TypeOK
<1>1. CASE UNCHANGED task
  BY <1>0, <1>1 DEF Rows
<1>2. ASSUME NEW t \in Task, NEW s, NEW v, NEW n, Rewritten(t, s, v, n)
      PROVE  task' \in [Task -> Tasks] /\ Rows
  BY <1>2 DEF Rewritten
<1>3. ASSUME NEW t \in Task, Turn(t) \/ UserDone(t) \/ SilentFinish(t)
      PROVE  task' \in [Task -> Tasks] /\ Rows
  BY <1>0, <1>1, <1>2, <1>3, Rewrites DEF Turn
<1>4. ASSUME NEW c \in Call, RetryStep(c) \/ GiveUp(c)
      PROVE  task' \in [Task -> Tasks] /\ Rows
  <2>1. call[c].key \in Created
    BY <1>4 DEF Asks, AsksOf, RetryStep, GiveUp, Decides
  <2> QED BY <1>0, <1>1, <1>2, <1>4, <2>1, Rewrites DEF Created
<1>5. ASSUME NEW c \in Call, Handle(c) \/ Throw(c) \/ Expire(c)
      PROVE  task' \in [Task -> Tasks] /\ Rows
  BY <1>1, <1>4, <1>5
     DEF Handle, Advance, PassGate, KillAtGate, Rewind, SkipStep, FailStep, RunTool, Close,
         Throw, Expire
<1>6. CASE Restart
  BY <1>0, <1>6, RestartRows
<1>7. ASSUME NEW t \in Task, Evaluate(t) \/ Sweep(t) \/ LoseSend(t)
      PROVE  task' \in [Task -> Tasks] /\ Rows
  BY <1>1, <1>7 DEF Evaluate, Sweep, LoseSend
<1>8. ASSUME NEW again \in BOOLEAN, NEW failed, Poll(again, failed)
      PROVE  task' \in [Task -> Tasks] /\ Rows
  BY <1>1, <1>8 DEF Poll
<1>9. CASE StartRun \/ Disable \/ UNCHANGED vars
  BY <1>1, <1>9 DEF StartRun, Disable, vars
<1> QED BY <1>3, <1>5, <1>6, <1>7, <1>8, <1>9 DEF Next

\* A fresh handler at work.
LEMMA TakeFacts ==
  ASSUME call \in [Call -> Calls], job \in [Key -> Jobs], NEW k \in Key, Taken(k),
         NEW new \in Calls, call' = [call EXCEPT ![FreeCall] = new],
         job' = [job EXCEPT ![k].state = "active"]
  PROVE  /\ call' \in [Call -> Calls] /\ job' \in [Key -> Jobs]
         /\ FreeCall \in Call /\ call[FreeCall].pc = "idle" /\ call'[FreeCall] = new
         /\ \A c \in Call \ {FreeCall} : call'[c] = call[c]
         /\ job'[k].state = "active" /\ \A j \in Key \ {k} : job'[j] = job[j]
<1>1. [job[k] EXCEPT !.state = "active"] \in Jobs
  BY DEF Jobs
<1>2. job' = [job EXCEPT ![k] = [job[k] EXCEPT !.state = "active"]]
  OBVIOUS
<1>3. [job[k] EXCEPT !.state = "active"].state = "active"
  BY DEF Jobs
<1> QED BY <1>1, <1>2, <1>3, FreeCallFacts

\* The types in three parts: the run with its handlers, the tasks, and the rest.
RunTyped ==
  /\ run \in Runs /\ call \in [Call -> Calls] /\ job \in [Key -> Jobs]
  /\ bounces \in Nat /\ toolRuns \in [Tools -> Nat]

RestTyped ==
  /\ container \in {"in_progress", "done"} /\ sent \subseteq Task
  /\ log \in Seq(Task) /\ seen \in 0..Len(log) /\ enabled \in BOOLEAN /\ Counts

LEMMA TypesSplit == TypeOK <=> RunTyped /\ task \in [Task -> Tasks] /\ RestTyped
BY DEF TypeOK, RunTyped, RestTyped, Counts

\* What starts a handler.
LEMMA EvaluateFacts ==
  ASSUME TypeOK, NEW t \in Task, Evaluate(t), IsAtCursor(t)
  PROVE  /\ call' \in [Call -> Calls] /\ job' \in [Key -> Jobs]
         /\ FreeCall \in Call /\ call[FreeCall].pc = "idle"
         /\ \A c \in Call \ {FreeCall} : call'[c] = call[c]
         /\ call'[FreeCall].pc = "decide" /\ call'[FreeCall].key = t
         /\ call'[FreeCall].errored = (task[t].status = "error") /\ ~call'[FreeCall].late
         /\ call'[FreeCall].cursor = run.cursor
         /\ job'[t].state = "active" /\ \A j \in Key \ {t} : job'[j] = job[j]
<1> DEFINE new == [Idle EXCEPT !.pc = "decide", !.key = t, !.errored = task[t].status = "error",
                               !.cursor = run.cursor, !.revisions = run.revisions]
<1>1. /\ new \in Calls /\ new.pc = "decide" /\ new.key = t /\ ~new.late /\ new.cursor = run.cursor
      /\ new.errored = (task[t].status = "error")
  BY RunFacts, Facts DEF Idle, Calls
<1>2. call' = [call EXCEPT ![FreeCall] = new] /\ job' = [job EXCEPT ![t].state = "active"]
  BY DEF Evaluate
<1>3. Taken(t) /\ t \in Key /\ call \in [Call -> Calls] /\ job \in [Key -> Jobs]
  BY Facts DEF Evaluate, TypeOK
<1> HIDE DEF new
<1> QED BY <1>1, <1>2, <1>3, TakeFacts

LEMMA StartFacts ==
  ASSUME TypeOK, StartRun, enabled /\ run.status = "none"
  PROVE  /\ run' \in Runs /\ run'.status = "running" /\ run'.cursor = run.cursor
         /\ call' \in [Call -> Calls] /\ job' \in [Key -> Jobs]
         /\ FreeCall \in Call /\ call[FreeCall].pc = "idle"
         /\ \A c \in Call \ {FreeCall} : call'[c] = call[c]
         /\ call'[FreeCall].pc = "spawn" /\ call'[FreeCall].at = 0
         /\ ~call'[FreeCall].late /\ call'[FreeCall].key = Wrapper
         /\ job'[Wrapper].state = "active" /\ \A j \in Key \ {Wrapper} : job'[j] = job[j]
<1> DEFINE new == [Idle EXCEPT !.pc = "spawn"]
<1>1. new \in Calls /\ new.pc = "spawn" /\ new.at = 0 /\ ~new.late /\ new.key = Wrapper
  BY Facts DEF Idle, Calls
<1>2. call' = [call EXCEPT ![FreeCall] = new] /\ job' = [job EXCEPT ![Wrapper].state = "active"]
      /\ run' = [run EXCEPT !.status = "running"]
  BY DEF StartRun
<1>3. Taken(Wrapper) /\ Wrapper \in Key /\ call \in [Call -> Calls] /\ job \in [Key -> Jobs]
  BY Facts DEF StartRun, TypeOK
<1>4. run' \in Runs /\ run'.status = "running" /\ run'.cursor = run.cursor
  BY <1>2, RunTypes DEF TypeOK, Runs
<1> HIDE DEF new
<1> QED BY <1>1, <1>2, <1>3, <1>4, TakeFacts

\* A tool runs, and the run ends or goes on to the next step without a compare.
LEMMA ToolFacts ==
  ASSUME TypeOK, NEW c \in Call, RunTool(c), call[c].at \in Tools
  PROVE  /\ toolRuns' \in [Tools -> Nat] /\ toolRuns'[call[c].at] = toolRuns[call[c].at] + 1
         /\ \A s \in Tools \ {call[c].at} : toolRuns'[s] = toolRuns[s]
         /\ bounces' = bounces
         /\ \/ call[c].at = LastStep /\ EndRun(c, "done")
            \/ call[c].at < LastStep /\ call[c].at + 1 \in Step /\ Moves(c, call[c].at + 1)
<1>1. toolRuns \in [Tools -> Nat] /\ toolRuns' = [toolRuns EXCEPT ![call[c].at] = @ + 1]
  BY DEF TypeOK, RunTool
<1> QED BY <1>1, RunFacts, Facts DEF RunTool, PastEnd, Moves, Step

\* Every step keeps the types of the run, its handlers and its jobs.
LEMMA RunTypesStep ==
  ASSUME TypeOK, Asks, [Next]_vars
  PROVE  RunTyped'
<1>0. /\ run \in Runs /\ call \in [Call -> Calls] /\ job \in [Key -> Jobs]
      /\ bounces \in Nat /\ toolRuns \in [Tools -> Nat]
      /\ \A k \in Key : GivenUp(job[k]) \in Jobs
  BY GivenUpFacts DEF TypeOK
<1>1. CASE UNCHANGED <<run, job, call, history>>
  BY <1>0, <1>1 DEF RunTyped, history
<1>2. CASE StartRun
  <2>1. CASE enabled /\ run.status = "none"
    BY <1>0, <1>2, <2>1, StartFacts DEF RunTyped, StartRun, history
  <2>2. CASE ~(enabled /\ run.status = "none")
    BY <1>0, <1>2, <2>2, Facts DEF RunTyped, StartRun, history
  <2> QED BY <2>1, <2>2
<1>3. ASSUME NEW t \in Task, Evaluate(t) PROVE RunTyped'
  <2>1. CASE IsAtCursor(t)
    BY <1>0, <1>3, <2>1, EvaluateFacts DEF RunTyped, Evaluate, history
  <2>2. CASE ~IsAtCursor(t)
    BY <1>0, <1>3, <2>2, Facts DEF RunTyped, Evaluate, history
  <2> QED BY <2>1, <2>2
<1>4. ASSUME NEW c \in Call, Deciding(c) PROVE RunTyped'
  <2>1. toolRuns' = toolRuns
    BY <1>4 DEF Deciding, Advance, PassGate, KillAtGate, Rewind, SkipStep, FailStep, history
  <2> QED BY <1>0, <1>4, <2>1, DecidingTypes DEF RunTyped
<1>5. ASSUME NEW c \in Call, RetryStep(c) PROVE RunTyped'
  <2>1. run' = run /\ UNCHANGED history /\ (Return(c) \/ (Goto(c, "giveup") /\ job' = job))
    BY <1>5 DEF RetryStep
  <2>2. "giveup" \in Pcs
    BY DEF Pcs
  <2> QED BY <1>0, <2>1, <2>2, ReturnFacts, GotoFacts DEF RunTyped, history
<1>6. ASSUME NEW c \in Call, GiveUp(c) PROVE RunTyped'
  BY <1>0, <1>6, EndFacts DEF GiveUp, RunTyped, Ended, history
<1>7. ASSUME NEW c \in Call, Spawn(c) \/ Close(c) PROVE RunTyped'
  BY <1>0, <1>7, ReturnFacts DEF Spawn, Close, RunTyped, history
<1>8. ASSUME NEW c \in Call, RunTool(c) PROVE RunTyped'
  <2>1. call[c].at \in Tools
    BY <1>8 DEF Asks, AsksOf, RunTool
  <2> QED BY <1>0, <1>8, <2>1, ToolFacts, EndFacts, MoveFacts DEF RunTyped, Ended
<1>9. ASSUME NEW c \in Call, Throw(c) PROVE RunTyped'
  <2>1. call[c].key \in Key
    BY RunFacts
  <2>2. job' \in [Key -> Jobs]
    BY <1>0, <1>9, <2>1 DEF Throw
  <2> QED BY <1>0, <1>9, <2>2, Facts DEF Throw, RunTyped, history
<1>10. ASSUME NEW c \in Call, Expire(c) PROVE RunTyped'
  <2>1. [call[c] EXCEPT !.late = TRUE] \in Calls
    BY <1>0 DEF Calls
  <2>2. call' = [call EXCEPT ![c] = [call[c] EXCEPT !.late = TRUE]]
    BY <1>10 DEF Expire
  <2>3. job' \in [Key -> Jobs]
    BY <1>0, <1>10 DEF Expire
  <2> QED BY <1>0, <1>10, <2>1, <2>2, <2>3 DEF Expire, RunTyped, history
<1>11. ASSUME NEW again \in BOOLEAN, NEW failed, Poll(again, failed) PROVE RunTyped'
  <2>1. [FreeJob EXCEPT !.state = "queued"] \in Jobs
    BY Facts DEF Jobs
  <2>2. job' \in [Key -> Jobs]
    BY <1>0, <1>11, <2>1 DEF Poll
  <2> QED BY <1>0, <1>11, <2>2 DEF Poll, RunTyped, history
<1>12. CASE Restart
  <2>1. job' \in [Key -> Jobs]
    BY <1>0, <1>12 DEF Restart
  <2>2. call' \in [Call -> Calls]
    BY <1>12, Facts DEF Restart
  <2> QED BY <1>0, <1>12, <2>1, <2>2 DEF Restart, RunTyped, history
<1>13. ASSUME NEW t \in Task, Turn(t) \/ UserDone(t) \/ Sweep(t) \/ LoseSend(t) \/ SilentFinish(t)
       PROVE  RunTyped'
  BY <1>1, <1>13 DEF Turn, StartTurn, Finish, Err, UserDone, Sweep, LoseSend, SilentFinish, Settle
<1>14. CASE Disable \/ UNCHANGED vars
  BY <1>1, <1>14 DEF Disable, vars
<1> QED BY <1>2, <1>3, <1>4, <1>5, <1>6, <1>7, <1>8, <1>9, <1>10, <1>11, <1>12, <1>13, <1>14
        DEF Next, Handle, Deciding

\* Every step keeps the types of the wrapper, the sends, the poller and the bounds.
LEMMA RestTypesStep ==
  ASSUME TypeOK, Asks, InOrder, [Next]_vars
  PROVE  RestTyped'
<1>0. /\ container \in {"in_progress", "done"} /\ sent \subseteq Task
      /\ log \in Seq(Task) /\ seen \in 0..Len(log) /\ enabled \in BOOLEAN /\ Counts
  BY TypesSplit DEF RestTyped
<1>1. ASSUME UNCHANGED bounds \/ Fault \/ Request PROVE Counts'
  BY <1>0, <1>1, CountsStep
<1>2. CASE UNCHANGED <<container, sent, poller, enabled, bounds>>
  BY <1>0, <1>1, <1>2 DEF RestTyped, poller
<1>3. ASSUME NEW c \in Call, Deciding(c) \/ GiveUp(c) \/ RunTool(c) PROVE RestTyped'
  BY <1>2, <1>3 DEF Deciding, Advance, PassGate, KillAtGate, Rewind, SkipStep, FailStep, GiveUp, RunTool
<1>4. ASSUME NEW c \in Call, RetryStep(c) PROVE RestTyped'
  <2>1. call[c].key \in Task
    BY <1>4 DEF Asks, AsksOf, RetryStep, Decides, Created
  <2> QED BY <1>0, <1>1, <1>4, <2>1 DEF RestTyped, RetryStep, poller
<1>5. ASSUME NEW c \in Call, Spawn(c) PROVE RestTyped'
  <2>1. Cardinality(Created) + 1 \in Task
    BY <1>5, NextTask DEF Spawn
  <2> QED BY <1>0, <1>1, <1>5, <2>1 DEF RestTyped, Spawn, poller
<1>6. ASSUME NEW c \in Call, Close(c) PROVE RestTyped'
  BY <1>0, <1>1, <1>6 DEF RestTyped, Close, ClosedContainer, poller
<1>7. ASSUME NEW c \in Call, Throw(c) \/ Expire(c) PROVE RestTyped'
  BY <1>0, <1>1, <1>7 DEF RestTyped, Throw, Expire, poller
<1>8. ASSUME NEW t \in Task, NEW row, Settle(t, row),
             UNCHANGED bounds \/ Fault \/ Request
      PROVE  RestTyped'
  <2>1. log' \in Seq(Task) /\ Len(log') = Len(log) + 1
    BY <1>0, <1>8 DEF Settle
  <2>2. seen' \in 0..Len(log')
    BY <1>0, <1>8, <2>1 DEF Settle
  <2> QED BY <1>0, <1>1, <1>8, <2>1, <2>2 DEF RestTyped, Settle
<1>9. ASSUME NEW t \in Task, Turn(t) \/ UserDone(t) PROVE RestTyped'
  <2>1. CASE StartTurn(t)
    BY <1>0, <1>1, <2>1 DEF RestTyped, StartTurn, poller
  <2>2. ASSUME NEW v \in Verdict, Finish(t, v) PROVE RestTyped'
    BY <1>8, <2>2 DEF Finish
  <2>3. CASE Err(t) \/ UserDone(t)
    BY <1>8, <2>3 DEF Err, UserDone
  <2> QED BY <1>9, <2>1, <2>2, <2>3 DEF Turn
<1>10. ASSUME NEW t \in Task, Evaluate(t) \/ Sweep(t) \/ LoseSend(t) \/ SilentFinish(t)
       PROVE  RestTyped'
  BY <1>0, <1>1, <1>10 DEF RestTyped, Evaluate, Sweep, LoseSend, SilentFinish, poller
<1>11. ASSUME NEW again \in BOOLEAN, NEW failed, Poll(again, failed) PROVE RestTyped'
  <2>1. Len(log) \in Nat
    BY <1>0
  <2>2. UNCHANGED bounds \/ Fault
    BY <1>11 DEF Poll
  <2> QED BY <1>0, <1>1, <1>11, <2>1, <2>2 DEF RestTyped, Poll
<1>12. CASE Restart
  BY <1>0, <1>1, <1>12 DEF RestTyped, Restart, Dead
<1>13. CASE StartRun \/ Disable \/ UNCHANGED vars
  BY <1>0, <1>1, <1>13 DEF RestTyped, StartRun, Disable, vars, poller
<1> QED BY <1>3, <1>4, <1>5, <1>6, <1>7, <1>9, <1>10, <1>11, <1>12, <1>13
        DEF Next, Handle, Deciding

\* What a spawn adds.
LEMMA SpawnFacts ==
  ASSUME Core, NEW c \in Call, Spawn(c)
  PROVE  \E t \in Task \ Created :
           /\ task' \in [Task -> Tasks] /\ Created' = Created \cup {t}
           /\ task'[t].step = call[c].at /\ task'[t].verdict = "none" /\ task'[t].retries = 0
           /\ task'[t].status = "todo" /\ \A u \in Task \ {t} : task'[u] = task[u]
           /\ InOrder'
<1> DEFINE t == Cardinality(Created) + 1
           new == [Unused EXCEPT !.status = "todo", !.step = call[c].at]
<1>0. call[c].at \in Step /\ task \in [Task -> Tasks]
  BY RunFacts DEF Core, TypeOK
<1>1. /\ new \in Tasks /\ new.status = "todo" /\ new.step = call[c].at
      /\ new.verdict = "none" /\ new.retries = 0
  BY <1>0 DEF Unused, Tasks, Verdict
<1>2. PICK n \in 0..MaxTasks : Created = 1..n /\ n = Cardinality(Created) /\ n < MaxTasks
  BY NextTask DEF Core, Spawn
<1>3. t \in Task \ Created
  BY NextTask DEF Core, Spawn
<1>4. task' = [task EXCEPT ![t] = new]
  BY DEF Spawn
<1> HIDE DEF new
<1>5. task' \in [Task -> Tasks] /\ task'[t] = new /\ \A u \in Task \ {t} : task'[u] = task[u]
  BY <1>0, <1>1, <1>3, <1>4
<1>6. Created' = Created \cup {t}
  BY <1>1, <1>3, <1>5 DEF Created
<1>7. InOrder'
  <2>0. t = n + 1 /\ n \in Nat /\ n + 1 \in 0..MaxTasks
    BY <1>2, Facts
  <2>1. n \in Nat /\ n + 1 \in 0..MaxTasks /\ Created' = 1..n \cup {n + 1}
    <3> HIDE DEF t
    <3> QED BY <1>2, <1>6, <2>0
  <2>2. 1..n \cup {n + 1} = 1..(n + 1)
    BY <2>1
  <2> QED BY <2>1, <2>2 DEF InOrder
<1> QED BY <1>1, <1>3, <1>5, <1>6, <1>7

\* Tasks that are kept leave the handlers their tasks.
LEMMA AsksKept ==
  ASSUME Core, task' \in [Task -> Tasks], Rows,
         \A c \in Call : call'[c] = call[c] \/ AsksOf(c)'
  PROVE  InOrder' /\ NoToolTask' /\ Asks'
<1>1. Created' = Created
  BY DEF Created, Rows
<1>2. InOrder' /\ NoToolTask'
  BY <1>1 DEF Core, InOrder, NoToolTask, Rows, Created
<1>3. ASSUME NEW c \in Call, call'[c] = call[c] PROVE AsksOf(c)'
  <2>1. AsksOf(c)
    BY DEF Core, Asks
  <2> QED BY <1>1, <1>3, <2>1 DEF AsksOf, Rows, Created
<1> QED BY <1>2, <1>3 DEF Asks

\* A handler that is idle, closes, or moves to a step asks for what it may.
LEMMA AsksMoved ==
  ASSUME Core, Rows, NEW c \in Call, call'[c].key = call[c].key \/ call'[c].key = Wrapper
  PROVE  /\ call'[c].pc \in {"idle", "close"} => AsksOf(c)'
         /\ call'[c].pc = "spawn" /\ call'[c].at \notin Tools => AsksOf(c)'
         /\ call'[c].pc = "tool" /\ call'[c].at \in Tools => AsksOf(c)'
<1>1. Created' = Created
  BY DEF Created, Rows
<1>2. call'[c].key # Wrapper => call'[c].key \in Created'
  BY <1>1 DEF Core, Asks, AsksOf
<1> QED BY <1>2 DEF AsksOf

\* Where a step leaves each handler.
LEMMA AsksStep ==
  ASSUME Core, [Next]_vars, \A c \in Call : ~Spawn(c), NEW c \in Call
  PROVE  call'[c] = call[c] \/ AsksOf(c)'
<1> USE DEF Core
<1>0. /\ TypeOK /\ Asks /\ call \in [Call -> Calls] /\ job \in [Key -> Jobs]
      /\ \A d \in Call : call[d].key \in Key
      /\ task' \in [Task -> Tasks] /\ Rows /\ Idle.pc = "idle" /\ Idle.key = Wrapper
  BY RowsStep, RunFacts DEF TypeOK, Idle
<1>a. Created' = Created
  BY <1>0 DEF Created, Rows
<1>1. ASSUME NEW d \in Call, EndRun(d, "done") \/ EndRun(d, "killed") \/ EndRun(d, "failed")
      PROVE  call'[c] = call[c] \/ AsksOf(c)'
  <2>1. call'[d].pc = "close" /\ call'[d].key = call[d].key
        /\ \A e \in Call \ {d} : call'[e] = call[e]
    BY <1>0, <1>1, EndFacts DEF Ended
  <2> QED BY <1>0, <2>1, AsksMoved
<1>2. ASSUME NEW d \in Call, NEW n \in Step, Moves(d, n) PROVE call'[c] = call[c] \/ AsksOf(c)'
  <2>1. /\ call'[d].pc = (IF n \in Tools THEN "tool" ELSE "spawn") /\ call'[d].at = n
        /\ call'[d].key = call[d].key /\ \A e \in Call \ {d} : call'[e] = call[e]
    BY <1>0, <1>2, MoveFacts
  <2> QED BY <1>0, <2>1, AsksMoved
<1>3. ASSUME NEW d \in Call, Return(d) PROVE call'[c] = call[c] \/ AsksOf(c)'
  <2>1. call'[d] = Idle /\ \A e \in Call \ {d} : call'[e] = call[e]
    BY <1>0, <1>3, ReturnFacts
  <2> QED BY <1>0, <2>1, AsksMoved
<1>4. CASE UNCHANGED call
  BY <1>4
<1>5. CASE StartRun
  <2>1. CASE enabled /\ run.status = "none"
    <3>1. /\ call'[FreeCall].pc = "spawn" /\ call'[FreeCall].at = 0
          /\ call'[FreeCall].key = Wrapper
          /\ \A d \in Call \ {FreeCall} : call'[d] = call[d]
      BY <1>0, <1>5, <2>1, StartFacts
    <3> QED BY <1>0, <3>1, Facts, AsksMoved
  <2> QED BY <1>4, <1>5, <2>1 DEF StartRun
<1>6. ASSUME NEW t \in Task, Evaluate(t) PROVE call'[c] = call[c] \/ AsksOf(c)'
  <2>1. CASE IsAtCursor(t)
    <3>1. job[t].state # "free"
      BY <1>6 DEF Evaluate, Taken
    <3>2. /\ call'[FreeCall].pc = "decide" /\ call'[FreeCall].key = t
          /\ call'[FreeCall].cursor = run.cursor
          /\ \A d \in Call \ {FreeCall} : call'[d] = call[d]
      BY <1>0, <1>6, <2>1, EvaluateFacts
    <3>3. task' = task /\ task[t].step = run.cursor
      BY <1>6, <2>1 DEF Evaluate, IsAtCursor
    <3>4. t \in Created'
      BY <1>a, <3>1 DEF Heard
    <3> QED BY <3>2, <3>3, <3>4 DEF AsksOf
  <2> QED BY <1>4, <1>6, <2>1 DEF Evaluate
<1>7. ASSUME NEW d \in Call, Forward(d) PROVE call'[c] = call[c] \/ AsksOf(c)'
  BY <1>0, <1>1, <1>2, <1>3, <1>7, ForwardCases
<1>8. ASSUME NEW d \in Call, Rewind(d) PROVE call'[c] = call[c] \/ AsksOf(c)'
  <2>1. CASE Unmoved(d)
    <3>1. GotoAt(d, "spawn", Draft) /\ "spawn" \in Pcs
      BY <1>8, <2>1 DEF Rewind, Pcs
    <3>2. /\ call'[d].pc = "spawn" /\ call'[d].at = Draft /\ call'[d].key = call[d].key
          /\ \A e \in Call \ {d} : call'[e] = call[e]
      BY <1>0, <3>1, Facts, GotoAtFacts
    <3> QED BY <1>0, <3>2, Facts, AsksMoved
  <2> QED BY <1>3, <1>8, <2>1 DEF Rewind
<1>9. ASSUME NEW d \in Call, Deciding(d) PROVE call'[c] = call[c] \/ AsksOf(c)'
  BY <1>1, <1>7, <1>8, <1>9 DEF Deciding, Advance, PassGate, KillAtGate, SkipStep, FailStep
<1>10. ASSUME NEW d \in Call, RetryStep(d) PROVE call'[c] = call[c] \/ AsksOf(c)'
  <2>1. CASE Goto(d, "giveup")
    <3>1. "giveup" \in Pcs
      BY DEF Pcs
    <3>2. /\ call'[d].pc = "giveup" /\ call'[d].key = call[d].key
          /\ \A e \in Call \ {d} : call'[e] = call[e]
      BY <1>0, <2>1, <3>1, GotoFacts
    <3>3. /\ call[d].key \in Created /\ task[call[d].key].step \notin Skippable \cup Fatal
      BY <1>10 DEF RetryStep, Decides, Asks, AsksOf
    <3>4. call[d].key \in Created' /\ task'[call[d].key].step \notin Skippable \cup Fatal
      BY <1>0, <1>a, <3>3 DEF Rows, Created
    <3> QED BY <3>2, <3>4 DEF AsksOf
  <2> QED BY <1>3, <1>10, <2>1 DEF RetryStep
<1>11. ASSUME NEW d \in Call, GiveUp(d) \/ Close(d) PROVE call'[c] = call[c] \/ AsksOf(c)'
  BY <1>1, <1>3, <1>11 DEF GiveUp, Close
<1>12. ASSUME NEW d \in Call, RunTool(d) PROVE call'[c] = call[c] \/ AsksOf(c)'
  <2>1. call[d].at \in Tools
    BY <1>12 DEF Asks, AsksOf, RunTool
  <2> QED BY <1>0, <1>1, <1>2, <1>12, <2>1, ToolFacts
<1>13. ASSUME NEW d \in Call, Throw(d) PROVE call'[c] = call[c] \/ AsksOf(c)'
  <2>1. call'[d] = Idle /\ \A e \in Call \ {d} : call'[e] = call[e]
    BY <1>0, <1>13 DEF Throw
  <2> QED BY <1>0, <2>1, AsksMoved
<1>14. ASSUME NEW d \in Call, Expire(d) PROVE call'[c] = call[c] \/ AsksOf(c)'
  <2>1. /\ call'[d].pc = call[d].pc /\ call'[d].key = call[d].key /\ call'[d].at = call[d].at
        /\ call'[d].cursor = call[d].cursor /\ \A e \in Call \ {d} : call'[e] = call[e]
    BY <1>0, <1>14 DEF Expire, Calls
  <2>2. task' = task /\ AsksOf(d)
    BY <1>14 DEF Expire, Asks
  <2> QED BY <1>a, <2>1, <2>2 DEF AsksOf
<1>15. CASE Restart
  <2>1. call'[c] = Idle
    BY <1>15 DEF Restart
  <2> QED BY <1>0, <2>1, AsksMoved
<1>16. ASSUME NEW t \in Task, Turn(t) \/ UserDone(t) \/ Sweep(t) \/ LoseSend(t) \/ SilentFinish(t)
       PROVE  UNCHANGED call
  BY <1>16 DEF Turn, StartTurn, Finish, Err, UserDone, Sweep, LoseSend, SilentFinish, Settle
<1>17. ASSUME NEW again \in BOOLEAN, NEW failed, Poll(again, failed) PROVE UNCHANGED call
  BY <1>17 DEF Poll
<1>18. CASE Disable \/ UNCHANGED vars
  BY <1>18 DEF Disable, vars
<1> QED BY <1>4, <1>5, <1>6, <1>9, <1>10, <1>11, <1>12, <1>13, <1>14, <1>15, <1>16, <1>17, <1>18
        DEF Next, Handle, Deciding

\* Jobs are queued for tasks of the log, and rows are changed of tasks that exist.
LEMMA HeardStep ==
  ASSUME Core, [Next]_vars
  PROVE  /\ \A t \in Task : job'[t].state # "free" => t \in Created
         /\ \A i \in DOMAIN log' : log'[i] \in Created
<1> USE DEF Core
<1>0. /\ TypeOK /\ job \in [Key -> Jobs] /\ call \in [Call -> Calls] /\ log \in Seq(Task)
      /\ \A d \in Call : call[d].key \in Key /\ (call[d].key # Wrapper => call[d].key \in Created)
      /\ \A t \in Task : job[t].state # "free" => t \in Created
      /\ \A i \in DOMAIN log : log[i] \in Created
      /\ FreeJob.state = "free" /\ Task \subseteq Key /\ Wrapper \notin Task
  BY RunFacts, Facts DEF TypeOK, Heard, Asks, AsksOf, FreeJob
<1> DEFINE Goal == /\ \A t \in Task : job'[t].state # "free" => t \in Created
                   /\ \A i \in DOMAIN log' : log'[i] \in Created
<1>1. CASE UNCHANGED <<job, log>>
  BY <1>0, <1>1
<1>2. ASSUME UNCHANGED log,
             \A t \in Task : job'[t] = job[t] \/ job'[t].state = "free" \/ t \in Created
      PROVE  Goal
  BY <1>0, <1>2
<1>3. ASSUME NEW d \in Call, Return(d), UNCHANGED log PROVE Goal
  BY <1>0, <1>2, <1>3, ReturnFacts
<1>4. CASE StartRun
  BY <1>0, <1>2, <1>4 DEF StartRun, poller
<1>5. ASSUME NEW t \in Task, Evaluate(t) PROVE Goal
  <2>1. t \in Created
    BY <1>0, <1>5 DEF Evaluate, Taken
  <2> QED BY <1>0, <1>2, <1>5, <2>1 DEF Evaluate, poller
<1>6. ASSUME NEW d \in Call, Forward(d), UNCHANGED log PROVE Goal
  <2>1. Return(d) \/ UNCHANGED job
    BY <1>6 DEF Forward, EndRun
  <2> QED BY <1>1, <1>3, <1>6, <2>1
<1>7. ASSUME NEW d \in Call, Deciding(d) PROVE Goal
  BY <1>1, <1>3, <1>6, <1>7
     DEF Deciding, Advance, PassGate, KillAtGate, Rewind, SkipStep, FailStep, EndRun, poller
<1>8. ASSUME NEW d \in Call, RetryStep(d) \/ GiveUp(d) \/ Spawn(d) \/ RunTool(d) \/ Close(d)
      PROVE  Goal
  BY <1>1, <1>3, <1>8 DEF RetryStep, GiveUp, Spawn, RunTool, Close, EndRun, poller
<1>9. ASSUME NEW d \in Call, Throw(d) \/ Expire(d) PROVE Goal
  <2>1. \A t \in Task : job'[t] = job[t] \/ t = call[d].key
    BY <1>0, <1>9 DEF Throw, Expire
  <2> QED BY <1>0, <1>2, <1>9, <2>1 DEF Throw, Expire, poller
<1>10. ASSUME NEW again \in BOOLEAN, NEW failed, Poll(again, failed) PROVE Goal
  <2>1. Batch(again) \subseteq Created
    BY <1>0 DEF Batch, TypeOK
  <2>2. \A t \in Task : job'[t] = job[t] \/ t \in Created
    BY <1>0, <1>10, <2>1 DEF Poll
  <2> QED BY <1>2, <1>10, <2>2 DEF Poll
<1>11. CASE Restart
  <2>1. \A t \in Task : job'[t] = job[t] \/ job[t].state = "active"
    BY <1>0, <1>11 DEF Restart
  <2> QED BY <1>0, <1>2, <1>11, <2>1 DEF Restart
<1>12. ASSUME NEW t \in Created, NEW row, Settle(t, row) PROVE Goal
  <2>1. log' = Append(log, t) /\ job' = job
    BY <1>12 DEF Settle
  <2>2. \A i \in DOMAIN log' : (i \in DOMAIN log /\ log'[i] = log[i]) \/ log'[i] = t
    BY <1>0, <2>1, <1>12 DEF Created
  <2> QED BY <1>0, <2>1, <2>2
<1>13. ASSUME NEW t \in Task, Turn(t) \/ UserDone(t) PROVE Goal
  <2>1. CASE StartTurn(t)
    BY <1>1, <2>1 DEF StartTurn, poller
  <2>2. ASSUME NEW v \in Verdict, Finish(t, v) PROVE Goal
    BY <1>12, <2>2 DEF Finish, Created
  <2>3. CASE Err(t) \/ UserDone(t)
    BY <1>12, <2>3 DEF Err, UserDone, Created
  <2> QED BY <1>13, <2>1, <2>2, <2>3 DEF Turn
<1>14. ASSUME NEW t \in Task, Sweep(t) \/ LoseSend(t) \/ SilentFinish(t) PROVE Goal
  BY <1>1, <1>14 DEF Sweep, LoseSend, SilentFinish, poller
<1>15. CASE Disable \/ UNCHANGED vars
  BY <1>1, <1>15 DEF Disable, vars, poller
<1> QED BY <1>4, <1>5, <1>7, <1>8, <1>9, <1>10, <1>11, <1>13, <1>14, <1>15
        DEF Next, Handle, Deciding

\* A spawn keeps what the handlers ask for, its task being for no tool.
LEMMA SpawnStep ==
  ASSUME Core, NEW c \in Call, Spawn(c)
  PROVE  task' \in [Task -> Tasks] /\ InOrder' /\ NoToolTask' /\ Asks'
         /\ Created \subseteq Created'
<1>1. PICK t \in Task \ Created :
        /\ task' \in [Task -> Tasks] /\ Created' = Created \cup {t}
        /\ task'[t].step = call[c].at
        /\ \A u \in Task \ {t} : task'[u] = task[u]
        /\ InOrder'
  BY SpawnFacts
<1>2. call[c].at \notin Tools /\ Return(c) /\ call \in [Call -> Calls] /\ job \in [Key -> Jobs]
  BY DEF Core, Asks, AsksOf, Spawn, TypeOK
<1>3. NoToolTask'
  BY <1>1, <1>2 DEF Core, NoToolTask, Created
<1>4. ASSUME NEW d \in Call PROVE AsksOf(d)'
  <2>1. AsksOf(d)
    BY DEF Core, Asks
  <2>2. call'[d] = call[d] \/ call'[d] = Idle
    BY <1>2, ReturnFacts
  <2> QED BY <1>1, <2>1, <2>2 DEF AsksOf, Idle, Created
<1> QED BY <1>1, <1>3, <1>4 DEF Asks

LEMMA CoreStep ==
  ASSUME Core, [Next]_vars
  PROVE  Core'
<1>1. RunTyped' /\ RestTyped'
  BY RunTypesStep, RestTypesStep DEF Core
<1>2. task' \in [Task -> Tasks] /\ InOrder' /\ NoToolTask' /\ Asks' /\ Created \subseteq Created'
  <2>1. CASE \E c \in Call : Spawn(c)
    BY <2>1, SpawnStep
  <2>2. CASE \A c \in Call : ~Spawn(c)
    <3>1. task' \in [Task -> Tasks] /\ Rows
      BY <2>2, RowsStep DEF Core
    <3>2. \A c \in Call : call'[c] = call[c] \/ AsksOf(c)'
      BY <2>2, AsksStep
    <3> QED BY <3>1, <3>2, AsksKept DEF Rows, Created
  <2> QED BY <2>1, <2>2
<1>3. TypeOK'
  BY <1>1, <1>2 DEF TypeOK, RunTyped, RestTyped, Counts
<1>4. Heard'
  BY <1>2, HeardStep DEF Heard
<1> QED BY <1>2, <1>3, <1>4 DEF Core

LEMMA CoreInit ==
  ASSUME Init
  PROVE  Core
<1>1. TypeOK
  BY Facts, WorkflowAssumption DEF Init, TypeOK, Runs, Jobs, FreeJob, Tasks
<1>2. InOrder
  <2>1. Created = 1..0 /\ 0 \in 0..MaxTasks
    BY Facts DEF Init, Created, Unused
  <2> QED BY <2>1 DEF InOrder
<1>3. NoToolTask /\ Asks /\ Heard
  BY Facts DEF Init, NoToolTask, Asks, AsksOf, Heard, Created, Unused, Idle, FreeJob, Task, Wrapper
<1> QED BY <1>1, <1>2, <1>3 DEF Core

LEMMA CoreAlways == Spec => []Core
<1>1. Core /\ [Next]_vars => Core'
  BY CoreStep
<1>2. Init => Core
  BY CoreInit
<1> QED BY <1>1, <1>2, PTL DEF Spec

\* The rows, the handlers, the jobs and the log keep their types.
THEOREM TypeCorrect == Spec => []TypeOK
<1>1. Core => TypeOK
  BY DEF Core
<1> QED BY <1>1, CoreAlways, PTL

-----------------------------------------------------------------------------
(* A tool runs once per pass: no compare guards the cursor behind a tool, so *)
(* it matters that one handler at most runs tools, and at the cursor.        *)

\* Nothing of the cursor, the counts or the handlers in a tool is changed for the worse.
LEMMA ToolKept ==
  ASSUME Core, ToolInv, run'.cursor = run.cursor, UNCHANGED <<bounces, toolRuns>>,
         \A c \in Call : InTool(c)' => InTool(c) /\ call'[c].at = call[c].at
  PROVE  ToolInv'
<1>1. OneTool'
  BY DEF ToolInv, OneTool
<1>2. \A s \in Tools : Ahead(s)' => Ahead(s)
  BY DEF Ahead
<1>3. Counted'
  BY <1>2 DEF ToolInv, Counted
<1> QED BY <1>1, <1>3 DEF ToolInv

\* Beside a step at the cursor that is no tool, no handler runs tools.
LEMMA NoTool ==
  ASSUME Core, ToolInv, run.cursor \notin Tools, NEW d \in Call
  PROVE  ~InTool(d)
BY DEF Core, Asks, AsksOf, ToolInv, OneTool, InTool

\* A handler that has decided is at a step that is no tool.
LEMMA DecidedStep ==
  ASSUME Core, NEW c \in Call, call[c].pc = "decide"
  PROVE  call[c].cursor \notin Tools
BY DEF Core, Asks, AsksOf, NoToolTask

\* Every step keeps the invariant.
LEMMA ToolStep ==
  ASSUME Core, ToolInv, [Next]_vars
  PROVE  ToolInv'
<1>0. /\ TypeOK /\ run \in Runs /\ run.cursor \in Step /\ Step \subseteq Nat /\ Tools \subseteq Step
      /\ call \in [Call -> Calls] /\ job \in [Key -> Jobs] /\ Idle.pc = "idle"
      /\ bounces \in Nat /\ toolRuns \in [Tools -> Nat]
  BY RunFacts, Facts DEF Core, TypeOK, Idle
<1>1. ASSUME NEW d \in Call, run'.cursor = run.cursor, UNCHANGED history,
             \A c \in Call \ {d} : call'[c] = call[c], ~InTool(d)'
      PROVE  ToolInv'
  <2>1. \A c \in Call : InTool(c)' => InTool(c) /\ call'[c].at = call[c].at
    BY <1>1 DEF InTool
  <2> QED BY <1>1, <2>1, ToolKept DEF history
<1>2. ASSUME NEW d \in Call, NEW s \in Ended, EndRun(d, s), UNCHANGED history PROVE ToolInv'
  <2>1. run'.cursor = run.cursor /\ ~InTool(d)' /\ \A c \in Call \ {d} : call'[c] = call[c]
    BY <1>0, <1>2, EndFacts DEF InTool
  <2> QED BY <1>1, <1>2, <2>1
<1>3. ASSUME NEW d \in Call, Return(d), UNCHANGED <<run, history>> PROVE ToolInv'
  <2>1. ~InTool(d)' /\ \A c \in Call \ {d} : call'[c] = call[c]
    BY <1>0, <1>3, ReturnFacts DEF InTool
  <2> QED BY <1>1, <1>3, <2>1
<1>4. CASE UNCHANGED <<run, call, history>>
  BY <1>4, ToolKept DEF InTool, history
<1>5. ASSUME NEW d \in Call, Forward(d), call[d].pc = "decide", UNCHANGED history PROVE ToolInv'
  <2>1. CASE EndRun(d, "done")
    BY <1>2, <1>5, <2>1 DEF Ended
  <2>2. CASE Return(d) /\ UNCHANGED run
    BY <1>3, <1>5, <2>2
  <2>3. CASE /\ call[d].cursor + 1 \in Step /\ run.cursor = call[d].cursor
             /\ Moves(d, call[d].cursor + 1)
    <3> DEFINE n == run.cursor + 1
    <3>1. /\ n \in Step /\ run'.cursor = n /\ call'[d].at = n
          /\ \A c \in Call \ {d} : call'[c] = call[c]
      BY <1>0, <2>3, MoveFacts
    <3>2. \A c \in Call : ~InTool(c)
      BY <1>5, <2>3, DecidedStep, NoTool
    <3>3. \A c \in Call : InTool(c)' => c = d
      BY <3>1, <3>2 DEF InTool
    <3>4. OneTool'
      BY <3>1, <3>3 DEF OneTool
    <3>5. ASSUME NEW s \in Tools, Ahead(s)' PROVE run.cursor < s
      <4>1. s \in Nat /\ run.cursor \in Nat
        BY <1>0
      <4>2. n < s \/ n = s
        BY <3>1, <3>3, <3>5 DEF Ahead
      <4> QED BY <4>1, <4>2
    <3>6. Counted'
      BY <1>5, <3>5 DEF ToolInv, Counted, Ahead, history
    <3> QED BY <3>4, <3>6 DEF ToolInv
  <2> QED BY <1>0, <1>5, <2>1, <2>2, <2>3, ForwardCases
<1>6. ASSUME NEW d \in Call, Rewind(d) PROVE ToolInv'
  <2>1. CASE Unmoved(d)
    <3>1. /\ GotoAt(d, "spawn", Draft) /\ "spawn" \in Pcs /\ bounces' = bounces + 1
          /\ toolRuns' = toolRuns /\ run.cursor \notin Tools
      BY <1>6, <2>1, DecidedStep DEF Rewind, Pcs, Unmoved, GateSays, Decides
    <3>2. \A c \in Call : ~InTool(c)'
      BY <1>0, <3>1, Facts, GotoAtFacts, NoTool DEF InTool
    <3>3. OneTool'
      BY <3>2 DEF OneTool
    <3>4. Counted'
      BY <1>0, <3>1 DEF ToolInv, Counted
    <3> QED BY <3>3, <3>4 DEF ToolInv
  <2>2. CASE ~Unmoved(d)
    BY <1>3, <1>6, <2>2 DEF Rewind, history
  <2> QED BY <2>1, <2>2
<1>7. ASSUME NEW d \in Call, Deciding(d) PROVE ToolInv'
  BY <1>2, <1>5, <1>6, <1>7
     DEF Deciding, Advance, PassGate, KillAtGate, SkipStep, FailStep, GateSays, Decides, Ended
<1>8. ASSUME NEW d \in Call, RetryStep(d) PROVE ToolInv'
  <2>1. CASE Goto(d, "giveup")
    <3>1. "giveup" \in Pcs
      BY DEF Pcs
    <3>2. ~InTool(d)' /\ \A c \in Call \ {d} : call'[c] = call[c]
      BY <1>0, <2>1, <3>1, GotoFacts DEF InTool
    <3> QED BY <1>1, <1>8, <3>2 DEF RetryStep
  <2> QED BY <1>3, <1>8, <2>1 DEF RetryStep
<1>9. ASSUME NEW d \in Call, GiveUp(d) \/ Spawn(d) \/ Close(d) PROVE ToolInv'
  BY <1>2, <1>3, <1>9 DEF GiveUp, Spawn, Close, Ended
<1>10. ASSUME NEW d \in Call, RunTool(d) PROVE ToolInv'
  <2>1. PICK s \in Tools : /\ s = call[d].at /\ s = run.cursor
                           /\ InTool(d) /\ \A c \in Call : InTool(c) => c = d
    BY <1>10 DEF RunTool, InTool, Core, Asks, AsksOf, ToolInv, OneTool
  <2>2. /\ toolRuns'[s] = toolRuns[s] + 1 /\ \A r \in Tools \ {s} : toolRuns'[r] = toolRuns[r]
        /\ bounces' = bounces
    BY <1>0, <1>10, <2>1, ToolFacts
  <2>3. toolRuns[s] <= bounces
    BY <2>1 DEF ToolInv, Counted, Ahead
  <2>4. CASE EndRun(d, "done")
    <3>1. run'.cursor = run.cursor /\ \A c \in Call : ~InTool(c)'
      BY <1>0, <2>1, <2>4, EndFacts DEF Ended, InTool
    <3>2. OneTool'
      BY <3>1 DEF OneTool
    <3>3. \A r \in Tools : Ahead(r)' => run.cursor < r
      BY <3>1 DEF Ahead, InTool
    <3>4. \A r \in Tools : r # s => toolRuns'[r] <= 1 + bounces'
                                    /\ (Ahead(r)' => toolRuns'[r] <= bounces')
      BY <2>2, <3>3 DEF ToolInv, Counted, Ahead
    <3>5. toolRuns'[s] <= 1 + bounces' /\ ~Ahead(s)'
      <4>1. s \in Nat /\ toolRuns[s] \in Nat /\ ~(s < s)
        BY <1>0
      <4>2. ~Ahead(s)'
        BY <2>1, <3>3, <4>1
      <4> QED BY <1>0, <2>2, <2>3, <4>1, <4>2
    <3>6. Counted'
      BY <3>4, <3>5 DEF Counted
    <3> QED BY <3>2, <3>6 DEF ToolInv
  <2>5. CASE s + 1 \in Step /\ Moves(d, s + 1)
    <3>1. /\ run'.cursor = s + 1 /\ call'[d].at = s + 1
          /\ \A c \in Call \ {d} : call'[c] = call[c]
      BY <1>0, <2>5, MoveFacts
    <3>2. \A c \in Call : InTool(c)' => c = d
      BY <2>1, <3>1 DEF InTool
    <3>3. OneTool'
      BY <3>1, <3>2 DEF OneTool
    <3>4. ASSUME NEW r \in Tools, Ahead(r)' PROVE s < r
      <4>1. s \in Nat /\ r \in Nat
        BY <1>0
      <4>2. s + 1 < r \/ s + 1 = r
        BY <3>1, <3>2, <3>4 DEF Ahead
      <4> QED BY <4>1, <4>2
    <3>5. \A r \in Tools : r # s => toolRuns'[r] <= 1 + bounces'
                                    /\ (Ahead(r)' => toolRuns'[r] <= bounces')
      BY <2>1, <2>2, <3>4 DEF ToolInv, Counted, Ahead
    <3>6. toolRuns'[s] <= 1 + bounces' /\ ~Ahead(s)'
      <4>1. s \in Nat /\ toolRuns[s] \in Nat /\ ~(s < s)
        BY <1>0
      <4>2. ~Ahead(s)'
        BY <2>1, <3>4, <4>1
      <4> QED BY <1>0, <2>2, <2>3, <4>1, <4>2
    <3>7. Counted'
      BY <3>5, <3>6 DEF Counted
    <3> QED BY <3>3, <3>7 DEF ToolInv
  <2> QED BY <1>0, <1>10, <2>1, <2>4, <2>5, ToolFacts
<1>11. ASSUME NEW d \in Call, Throw(d) \/ Expire(d) PROVE ToolInv'
  <2>1. \A c \in Call : InTool(c)' => InTool(c) /\ call'[c].at = call[c].at
    BY <1>0, <1>11 DEF Throw, Expire, InTool, Calls
  <2> QED BY <1>11, <2>1, ToolKept DEF Throw, Expire, history
<1>12. CASE StartRun
  <2>1. CASE enabled /\ run.status = "none"
    <3>1. PICK d \in Call : /\ call'[d].pc = "spawn" /\ run'.cursor = run.cursor
                            /\ \A c \in Call \ {d} : call'[c] = call[c]
      BY <1>0, <1>12, <2>1, StartFacts
    <3>2. ~InTool(d)'
      BY <3>1 DEF InTool
    <3> QED BY <1>1, <1>12, <3>1, <3>2 DEF StartRun
  <2> QED BY <1>4, <1>12, <2>1 DEF StartRun
<1>13. ASSUME NEW t \in Task, Evaluate(t) PROVE ToolInv'
  <2>1. CASE IsAtCursor(t)
    <3>1. PICK d \in Call : /\ call'[d].pc = "decide"
                            /\ \A c \in Call \ {d} : call'[c] = call[c]
      BY <1>0, <1>13, <2>1, EvaluateFacts
    <3>2. ~InTool(d)'
      BY <3>1 DEF InTool
    <3> QED BY <1>1, <1>13, <3>1, <3>2 DEF Evaluate
  <2> QED BY <1>4, <1>13, <2>1 DEF Evaluate
<1>14. CASE Restart
  <2>1. \A c \in Call : ~InTool(c)'
    BY <1>0, <1>14 DEF Restart, InTool
  <2> QED BY <1>14, <2>1, ToolKept DEF Restart, history
<1>15. ASSUME NEW t \in Task, Turn(t) \/ UserDone(t) \/ Sweep(t) \/ LoseSend(t) \/ SilentFinish(t)
       PROVE  ToolInv'
  BY <1>4, <1>15
     DEF Turn, StartTurn, Finish, Err, UserDone, Sweep, LoseSend, SilentFinish, Settle
<1>16. ASSUME NEW again \in BOOLEAN, NEW failed, Poll(again, failed) PROVE ToolInv'
  BY <1>4, <1>16 DEF Poll
<1>17. CASE Disable \/ UNCHANGED vars
  BY <1>4, <1>17 DEF Disable, vars
<1> QED BY <1>7, <1>8, <1>9, <1>10, <1>11, <1>12, <1>13, <1>14, <1>15, <1>16, <1>17
        DEF Next, Handle, Deciding

\* Neither a retried job nor a handler past its expiry runs a tool a second time.
THEOREM ToolOnceAlways == Spec => []ToolOncePerPass
<1>1. Init => ToolInv
  BY Facts DEF Init, ToolInv, OneTool, Counted, InTool, Idle
<1>2. ToolInv /\ Core /\ [Next]_vars => ToolInv'
  BY ToolStep
<1>3. ToolInv => ToolOncePerPass
  BY DEF ToolInv, Counted, ToolOncePerPass
<1> QED BY <1>1, <1>2, <1>3, CoreAlways, PTL DEF Spec

-----------------------------------------------------------------------------
(* A gate is passed on its go.  A gate's verdict would be overwritten if its *)
(* step were retried, so the definition must let its errors skip or fail.    *)

NoGateRetried == Gates \subseteq Skippable \cup Fatal

\* The go of a gate's task is never taken back.
GoKept == \A t \in Task :
  task[t].verdict = "go" => task'[t].verdict = "go" /\ task'[t].step = task[t].step

LEMMA VerdictsStep ==
  ASSUME NoGateRetried, Core, Verdicts, [Next]_vars
  PROVE  Verdicts' /\ GoKept
<1> USE DEF Core
<1>0. TypeOK /\ Asks /\ task \in [Task -> Tasks]
  BY DEF TypeOK
<1>1. CASE UNCHANGED task
  BY <1>1 DEF Verdicts, GoKept
<1>2. ASSUME NEW t \in Task, NEW s, NEW v, NEW n, Rewritten(t, s, v, n), task[t].verdict = "none",
             v # "none" => s = "done" /\ task[t].step \in Gates
      PROVE  Verdicts' /\ GoKept
  <2>1. /\ \A u \in Task \ {t} : task'[u] = task[u]
        /\ task'[t].status = s /\ task'[t].verdict = v /\ task'[t].step = task[t].step
    BY <1>2 DEF Rewritten
  <2> QED BY <1>2, <2>1 DEF Verdicts, GoKept
<1>3. ASSUME NEW t \in Task, StartTurn(t) PROVE Verdicts' /\ GoKept
  <2>1. CASE task[t].status = "todo" /\ Rewritten(t, "in_progress", task[t].verdict, task[t].retries)
    <3>1. task[t].verdict = "none"
      BY <2>1 DEF Verdicts
    <3> QED BY <1>2, <2>1, <3>1
  <2> QED BY <1>0, <1>1, <1>3, <2>1, Rewrites
<1>4. ASSUME NEW t \in Task, NEW v \in Verdict, Finish(t, v) PROVE Verdicts' /\ GoKept
  <2>1. /\ task[t].status = "in_progress" /\ (v # "none" => task[t].step \in Gates)
        /\ Rewritten(t, "done", v, task[t].retries)
    BY <1>0, <1>4, Rewrites
  <2>2. task[t].verdict = "none"
    BY <2>1 DEF Verdicts
  <2> QED BY <1>2, <2>1, <2>2
<1>5. ASSUME NEW t \in Task, Err(t) \/ SilentFinish(t) \/ UserDone(t) PROVE Verdicts' /\ GoKept
  <2>1. /\ task[t].status # "done"
        /\ \E s \in {"done", "error"} : Rewritten(t, s, task[t].verdict, task[t].retries)
    BY <1>0, <1>5, Rewrites
  <2>2. task[t].verdict = "none"
    BY <2>1 DEF Verdicts
  <2> QED BY <1>2, <2>1, <2>2
<1>6. ASSUME NEW d \in Call, RetryStep(d) PROVE Verdicts' /\ GoKept
  <2>1. PICK t \in Task : t = call[d].key
    BY <1>6 DEF RetryStep, Decides, Asks, AsksOf, Created
  <2>2. CASE task[t].status = "error" /\ Rewritten(t, "todo", task[t].verdict, task[t].retries + 1)
    <3>1. task[t].verdict = "none"
      BY <2>2 DEF Verdicts
    <3> QED BY <1>2, <2>2, <3>1
  <2> QED BY <1>0, <1>1, <1>6, <2>1, <2>2, Rewrites
<1>7. ASSUME NEW d \in Call, GiveUp(d) PROVE Verdicts' /\ GoKept
  <2>1. PICK t \in Task : /\ t = call[d].key /\ t \in Created
                          /\ task[t].step \notin Skippable \cup Fatal
    BY <1>7 DEF GiveUp, Asks, AsksOf, Created
  <2>2. task[t].verdict = "none"
    BY <2>1 DEF NoGateRetried, Verdicts
  <2>3. Rewritten(t, "error", task[t].verdict, task[t].retries)
    BY <1>0, <1>7, <2>1, Rewrites
  <2> QED BY <1>2, <2>2, <2>3
<1>8. ASSUME NEW d \in Call, Spawn(d) PROVE Verdicts' /\ GoKept
  <2>1. PICK t \in Task \ Created :
          task'[t].verdict = "none" /\ \A u \in Task \ {t} : task'[u] = task[u]
    BY <1>8, SpawnFacts
  <2>2. task[t].verdict = "none"
    BY <2>1 DEF Verdicts, Created
  <2> QED BY <2>1, <2>2 DEF Verdicts, GoKept
<1>9. ASSUME NEW d \in Call, Deciding(d) \/ RunTool(d) \/ Close(d) \/ Throw(d) \/ Expire(d)
      PROVE  Verdicts' /\ GoKept
  BY <1>1, <1>9
     DEF Deciding, Advance, PassGate, KillAtGate, Rewind, SkipStep, FailStep, RunTool, Close,
         Throw, Expire
<1>10. CASE Restart
  <2>1. \A t \in Task : /\ task'[t].verdict = task[t].verdict /\ task'[t].step = task[t].step
                        /\ (~Dead(t) => task'[t] = task[t])
    BY <1>0, <1>10, RestartRows DEF Rows
  <2> QED BY <2>1 DEF Verdicts, GoKept, Dead
<1>11. ASSUME NEW t \in Task, Evaluate(t) \/ Sweep(t) \/ LoseSend(t) PROVE Verdicts' /\ GoKept
  BY <1>1, <1>11 DEF Evaluate, Sweep, LoseSend
<1>12. ASSUME NEW again \in BOOLEAN, NEW failed, Poll(again, failed) PROVE Verdicts' /\ GoKept
  BY <1>1, <1>12 DEF Poll
<1>13. CASE StartRun \/ Disable \/ UNCHANGED vars
  BY <1>1, <1>13 DEF StartRun, Disable, vars
<1> QED BY <1>3, <1>4, <1>5, <1>6, <1>7, <1>8, <1>9, <1>10, <1>11, <1>12, <1>13
        DEF Next, Handle, Deciding, Turn

\* Past a step that is no gate, may be skipped, or has said go.
LEMMA PassedOn ==
  ASSUME NEW n \in Step, Passed(n),
         n \in Gates \ Skippable => \E t \in Task : task[t].step = n /\ task[t].verdict = "go"
  PROVE  Passed(n + 1)
<1>1. ASSUME NEW g \in Gates \ Skippable, n + 1 > g PROVE n > g \/ n = g
  BY <1>1, Facts
<1> QED BY <1>1 DEF Passed

\* What lies behind an earlier step was passed, and stays passed.
LEMMA PassedBelow ==
  ASSUME NEW n \in Nat, NEW m \in Nat, m <= n, Passed(n)
  PROVE  Passed(m)
BY Facts DEF Passed

LEMMA PassedKept ==
  ASSUME GoKept, NEW n, Passed(n)
  PROVE  Passed(n)'
BY DEF GoKept, Passed

\* What the gates need of a step for the row and one handler.
LEMMA GateMoved ==
  ASSUME Core, GateInv, Verdicts', GoKept, NEW n \in Step, Passed(n), run'.cursor = n,
         run'.status = "done" => Passed(LastStep + 1), NEW d \in Call, call'[d].pc # "decide",
         \A c \in Call \ {d} : call'[c] = call[c]
  PROVE  GateInv'
<1>1. Passed(n)' /\ (run'.status = "done" => Passed(LastStep + 1)')
  BY PassedKept
<1>2. Passed(run.cursor)'
  BY <1>1
<1>3. ASSUME NEW c \in Call, call'[c].pc = "decide" PROVE Passed(call[c].cursor)'
  <2>1. call'[c] = call[c] /\ Passed(call[c].cursor)
    BY <1>3 DEF GateInv
  <2>2. PICK m \in Step : m = call[c].cursor
    BY RunFacts DEF Core
  <2>3. Passed(m)'
    BY <2>1, <2>2, PassedKept
  <2> QED BY <2>1, <2>2, <2>3
<1> QED BY <1>1, <1>2, <1>3 DEF GateInv

\* Every step keeps the invariant.
LEMMA GateStep ==
  ASSUME NoGateRetried, Core, ToolInv, GateInv, [Next]_vars
  PROVE  GateInv'
<1>0. /\ TypeOK /\ run.cursor \in Step /\ call \in [Call -> Calls] /\ job \in [Key -> Jobs]
      /\ Idle.pc = "idle" /\ Passed(run.cursor) /\ (run.status = "done" => Passed(LastStep + 1))
      /\ Verdicts' /\ GoKept
  BY VerdictsStep, RunFacts DEF Core, TypeOK, Idle, GateInv
<1>1. ASSUME NEW d \in Call, run' = run, call'[d].pc # "decide",
             \A c \in Call \ {d} : call'[c] = call[c]
      PROVE  GateInv'
  BY <1>0, <1>1, GateMoved
<1>2. ASSUME NEW d \in Call, Return(d), UNCHANGED run PROVE GateInv'
  BY <1>0, <1>1, <1>2, ReturnFacts
<1>3. ASSUME UNCHANGED run, \A c \in Call : /\ call'[c].pc = "decide" => call[c].pc = "decide"
                                            /\ call'[c].cursor = call[c].cursor
      PROVE  GateInv'
  <2>1. ASSUME NEW c \in Call, call'[c].pc = "decide" PROVE Passed(call[c].cursor)'
    <3>1. call'[c].cursor = call[c].cursor /\ Passed(call[c].cursor)
      BY <1>3, <2>1 DEF GateInv
    <3>2. PICK m \in Step : m = call[c].cursor
      BY RunFacts DEF Core
    <3>3. Passed(m)'
      BY <1>0, <3>1, <3>2, PassedKept
    <3> QED BY <3>1, <3>2, <3>3
  <2>2. PICK m \in Step : m = run.cursor
    BY <1>0
  <2>3. Passed(m)' /\ (run.status = "done" => Passed(LastStep + 1)')
    BY <1>0, <2>2, PassedKept
  <2>4. Passed(run.cursor)' /\ (run'.status = "done" => Passed(LastStep + 1)')
    BY <1>3, <2>2, <2>3
  <2> QED BY <1>0, <2>1, <2>4 DEF GateInv
<1>4. CASE UNCHANGED <<run, call>>
  BY <1>3, <1>4
<1>5. ASSUME NEW d \in Call, EndRun(d, "killed") \/ EndRun(d, "failed") PROVE GateInv'
  <2>1. /\ run'.cursor = run.cursor /\ run'.status # "done" /\ call'[d].pc = "close"
        /\ \A c \in Call \ {d} : call'[c] = call[c]
    BY <1>0, <1>5, EndFacts DEF Ended
  <2> QED BY <1>0, <2>1, GateMoved
<1>6. ASSUME NEW d \in Call, EndRun(d, "done"), Passed(LastStep + 1) PROVE GateInv'
  <2>1. /\ run'.cursor = run.cursor /\ call'[d].pc = "close"
        /\ \A c \in Call \ {d} : call'[c] = call[c]
    BY <1>0, <1>6, EndFacts DEF Ended
  <2> QED BY <1>0, <1>6, <2>1, GateMoved
<1>7. ASSUME NEW d \in Call, NEW n \in Step, Moves(d, n), Passed(n) PROVE GateInv'
  <2>1. /\ run'.cursor = n /\ run'.status = run.status /\ call'[d].pc # "decide"
        /\ \A c \in Call \ {d} : call'[c] = call[c]
    BY <1>0, <1>7, MoveFacts
  <2> QED BY <1>0, <1>7, <2>1, GateMoved
<1>8. ASSUME NEW d \in Call, Forward(d), call[d].pc = "decide",
             call[d].cursor \in Gates \ Skippable => task[call[d].key].verdict = "go"
      PROVE  GateInv'
  <2>1. PICK n \in Step : n = call[d].cursor
    BY RunFacts DEF Core
  <2>2. n \in Gates \ Skippable => \E t \in Task : task[t].step = n /\ task[t].verdict = "go"
    BY <1>8, <2>1 DEF Core, Asks, AsksOf, Created
  <2>3. Passed(n + 1)
    BY <1>8, <2>1, <2>2, PassedOn DEF GateInv
  <2>4. CASE n = LastStep /\ EndRun(d, "done")
    BY <1>6, <2>3, <2>4
  <2>5. CASE n + 1 \in Step /\ Moves(d, n + 1)
    BY <1>7, <2>3, <2>5
  <2>6. CASE Return(d) /\ UNCHANGED run
    BY <1>2, <2>6
  <2> QED BY <1>0, <1>8, <2>1, <2>4, <2>5, <2>6, ForwardCases
<1>9. ASSUME NEW d \in Call, Rewind(d) PROVE GateInv'
  <2>1. CASE Unmoved(d)
    <3>1. /\ GotoAt(d, "spawn", Draft) /\ "spawn" \in Pcs /\ run.cursor \in Gates
          /\ run' = [run EXCEPT !.cursor = Draft, !.revisions = call[d].revisions + 1]
      BY <1>9, <2>1 DEF Rewind, Pcs, Unmoved, GateSays
    <3>2. call'[d].pc = "spawn" /\ \A c \in Call \ {d} : call'[c] = call[c]
      BY <1>0, <3>1, Facts, GotoAtFacts
    <3>3. run'.cursor = Draft /\ run'.status = run.status
      BY <1>0, <3>1 DEF TypeOK, Runs
    <3>4. Draft <= run.cursor /\ Draft \in Nat /\ run.cursor \in Nat
      BY <1>0, <3>1, Facts, WorkflowAssumption
    <3>5. Passed(Draft)
      BY <1>0, <3>4, PassedBelow
    <3> QED BY <1>0, <3>2, <3>3, <3>5, Facts, GateMoved
  <2>2. CASE ~Unmoved(d)
    BY <1>2, <1>9, <2>2 DEF Rewind
  <2> QED BY <2>1, <2>2
<1>10. ASSUME NEW d \in Call, Deciding(d) PROVE GateInv'
  <2>1. CASE Advance(d)
    BY <1>8, <2>1 DEF Advance, Decides
  <2>2. CASE PassGate(d)
    <3>1. task[call[d].key].verdict = "go"
      BY <2>2 DEF PassGate, GateSays, GateVerdict
    <3> QED BY <1>8, <2>2, <3>1 DEF PassGate, GateSays, Decides
  <2>3. CASE SkipStep(d)
    BY <1>8, <2>3 DEF SkipStep, Decides
  <2>4. CASE KillAtGate(d) \/ FailStep(d)
    BY <1>5, <2>4 DEF KillAtGate, FailStep
  <2> QED BY <1>9, <1>10, <2>1, <2>2, <2>3, <2>4 DEF Deciding
<1>11. ASSUME NEW d \in Call, RetryStep(d) PROVE GateInv'
  <2>1. CASE Goto(d, "giveup")
    <3>1. "giveup" \in Pcs
      BY DEF Pcs
    <3>2. call'[d].pc = "giveup" /\ \A c \in Call \ {d} : call'[c] = call[c]
      BY <1>0, <2>1, <3>1, GotoFacts
    <3> QED BY <1>1, <1>11, <3>2 DEF RetryStep
  <2> QED BY <1>2, <1>11, <2>1 DEF RetryStep
<1>12. ASSUME NEW d \in Call, GiveUp(d) \/ Spawn(d) \/ Close(d) PROVE GateInv'
  BY <1>2, <1>5, <1>12 DEF GiveUp, Spawn, Close
<1>13. ASSUME NEW d \in Call, RunTool(d) PROVE GateInv'
  <2>1. PICK n \in Tools : n = call[d].at /\ n = run.cursor
    BY <1>13 DEF RunTool, Core, Asks, AsksOf, ToolInv, OneTool, InTool
  <2>2. n \in Step /\ n \notin Gates /\ Passed(n)
    BY <1>0, <2>1, Facts
  <2>3. Passed(n + 1)
    BY <2>2, PassedOn
  <2>4. CASE n = LastStep /\ EndRun(d, "done")
    BY <1>6, <2>3, <2>4
  <2>5. CASE n + 1 \in Step /\ Moves(d, n + 1)
    BY <1>7, <2>3, <2>5
  <2> QED BY <1>0, <1>13, <2>1, <2>4, <2>5, ToolFacts
<1>14. ASSUME NEW d \in Call, Throw(d) PROVE GateInv'
  <2>1. call'[d] = Idle /\ run' = run /\ \A c \in Call \ {d} : call'[c] = call[c]
    BY <1>0, <1>14 DEF Throw
  <2> QED BY <1>0, <1>1, <2>1
<1>15. ASSUME NEW d \in Call, Expire(d) PROVE GateInv'
  <2>1. \A c \in Call : call'[c].pc = call[c].pc /\ call'[c].cursor = call[c].cursor
    BY <1>0, <1>15 DEF Expire, Calls
  <2> QED BY <1>3, <1>15, <2>1 DEF Expire
<1>16. CASE StartRun
  <2>1. CASE enabled /\ run.status = "none"
    <3>1. PICK d \in Call : /\ call'[d].pc = "spawn" /\ run'.cursor = run.cursor
                            /\ run'.status = "running" /\ \A c \in Call \ {d} : call'[c] = call[c]
      BY <1>0, <1>16, <2>1, StartFacts
    <3> QED BY <1>0, <3>1, GateMoved
  <2> QED BY <1>4, <1>16, <2>1 DEF StartRun
<1>17. ASSUME NEW t \in Task, Evaluate(t) PROVE GateInv'
  <2>1. CASE IsAtCursor(t)
    <3>1. PICK d \in Call : /\ call'[d].cursor = run.cursor
                            /\ \A c \in Call \ {d} : call'[c] = call[c]
      BY <1>0, <1>17, <2>1, EvaluateFacts
    <3>2. ASSUME NEW c \in Call, call'[c].pc = "decide" PROVE Passed(call[c].cursor)'
      <4>1. PICK m \in Step : m = call'[c].cursor /\ Passed(m)
        BY <1>0, <3>1, <3>2, RunFacts DEF GateInv
      <4>2. Passed(m)'
        BY <1>0, <4>1, PassedKept
      <4> QED BY <4>1, <4>2
    <3>3. run' = run
      BY <1>17 DEF Evaluate
    <3>4. PICK m \in Step : m = run.cursor
      BY <1>0
    <3>5. Passed(m)' /\ (run.status = "done" => Passed(LastStep + 1)')
      BY <1>0, <3>4, PassedKept
    <3>6. Passed(run.cursor)' /\ (run'.status = "done" => Passed(LastStep + 1)')
      BY <3>3, <3>4, <3>5
    <3> QED BY <1>0, <3>2, <3>6 DEF GateInv
  <2> QED BY <1>4, <1>17, <2>1 DEF Evaluate
<1>18. CASE Restart
  <2>1. /\ run' = run /\ \A c \in Call : call'[c].pc = "idle"
    BY <1>0, <1>18 DEF Restart
  <2>2. PICK m \in Step : m = run.cursor
    BY <1>0
  <2>3. Passed(m)' /\ (run.status = "done" => Passed(LastStep + 1)')
    BY <1>0, <2>2, PassedKept
  <2>4. Passed(run.cursor)' /\ (run'.status = "done" => Passed(LastStep + 1)')
    BY <2>1, <2>2, <2>3
  <2> QED BY <1>0, <2>1, <2>4 DEF GateInv
<1>19. ASSUME NEW t \in Task, Turn(t) \/ UserDone(t) \/ Sweep(t) \/ LoseSend(t) \/ SilentFinish(t)
       PROVE  GateInv'
  BY <1>4, <1>19
     DEF Turn, StartTurn, Finish, Err, UserDone, Sweep, LoseSend, SilentFinish, Settle
<1>20. ASSUME NEW again \in BOOLEAN, NEW failed, Poll(again, failed) PROVE GateInv'
  BY <1>4, <1>20 DEF Poll
<1>21. CASE Disable \/ UNCHANGED vars
  BY <1>4, <1>21 DEF Disable, vars
<1> QED BY <1>10, <1>11, <1>12, <1>13, <1>14, <1>15, <1>16, <1>17, <1>18, <1>19, <1>20, <1>21
        DEF Next, Handle, Deciding

\* "An unreviewed piece never advances toward publish", whatever fails, expires or restarts,
\* in a workflow that retries no gate.
THEOREM GateAlways ==
  ASSUME NoGateRetried
  PROVE  Spec => []GatePassedOnGo
<1>1. Init => GateInv
  BY Facts DEF Init, GateInv, Verdicts, Passed, Unused, Idle, Ended
<1>2. GateInv /\ ToolInv /\ Core /\ [Next]_vars => GateInv'
  BY GateStep
<1>3. GateInv => GatePassedOnGo
  <2>1. \A g \in Gates : LastStep + 1 > g
    BY Facts DEF Step
  <2> QED BY <2>1 DEF GateInv, Passed, GatePassedOnGo
<1>4. Init => ToolInv
  BY Facts DEF Init, ToolInv, OneTool, Counted, InTool, Idle
<1>5. ToolInv /\ Core /\ [Next]_vars => ToolInv'
  BY ToolStep
<1> QED BY <1>1, <1>2, <1>3, <1>4, <1>5, CoreAlways, PTL DEF Spec

-----------------------------------------------------------------------------
(* A run that goes straight.  A step that leads to such a state came from    *)
(* one: faults, rewinds and retries are counted and never forgotten.         *)

\* No step takes a retry back.
LEMMA RetriesStep ==
  ASSUME Core, [Next]_vars
  PROVE  \A t \in Task : task'[t].retries >= task[t].retries
<1> USE DEF Core
<1> DEFINE Goal == \A t \in Task : task'[t].retries >= task[t].retries
<1>0. TypeOK /\ Asks /\ task \in [Task -> Tasks] /\ \A t \in Task : task[t].retries \in Nat
  BY RowFacts DEF TypeOK
<1>1. CASE UNCHANGED task
  BY <1>0, <1>1
<1>2. ASSUME NEW t \in Task, NEW s, NEW v, Rewritten(t, s, v, task[t].retries) PROVE Goal
  BY <1>0, <1>2 DEF Rewritten
<1>3. ASSUME NEW t \in Task, Turn(t) \/ SilentFinish(t) \/ UserDone(t) PROVE Goal
  BY <1>0, <1>1, <1>2, <1>3, Rewrites DEF Turn
<1>4. ASSUME NEW d \in Call, RetryStep(d) PROVE Goal
  <2>1. PICK t \in Task : t = call[d].key
    BY <1>4 DEF RetryStep, Decides, Asks, AsksOf, Created
  <2>2. CASE Rewritten(t, "todo", task[t].verdict, task[t].retries + 1)
    BY <1>0, <2>2 DEF Rewritten
  <2> QED BY <1>0, <1>1, <1>4, <2>1, <2>2, Rewrites
<1>5. ASSUME NEW d \in Call, GiveUp(d) PROVE Goal
  <2>1. PICK t \in Task : t = call[d].key /\ t \in Created
    BY <1>5 DEF GiveUp, Asks, AsksOf, Created
  <2> QED BY <1>0, <1>2, <1>5, <2>1, Rewrites
<1>6. ASSUME NEW d \in Call, Spawn(d) PROVE Goal
  <2>1. PICK t \in Task \ Created :
          task'[t].retries = 0 /\ \A u \in Task \ {t} : task'[u] = task[u]
    BY <1>6, SpawnFacts
  <2>2. task[t].retries = 0
    BY <1>0, <2>1, RowFacts DEF Created, Unused
  <2> QED BY <1>0, <2>1, <2>2
<1>7. ASSUME NEW d \in Call, Deciding(d) \/ RunTool(d) \/ Close(d) \/ Throw(d) \/ Expire(d)
      PROVE  Goal
  BY <1>1, <1>7
     DEF Deciding, Advance, PassGate, KillAtGate, Rewind, SkipStep, FailStep, RunTool, Close,
         Throw, Expire
<1>8. CASE Restart
  BY <1>0, <1>8, RestartRows
<1>9. ASSUME NEW t \in Task, Evaluate(t) \/ Sweep(t) \/ LoseSend(t) PROVE Goal
  BY <1>1, <1>9 DEF Evaluate, Sweep, LoseSend
<1>10. ASSUME NEW again \in BOOLEAN, NEW failed, Poll(again, failed) PROVE Goal
  BY <1>1, <1>10 DEF Poll
<1>11. CASE StartRun \/ Disable \/ UNCHANGED vars
  BY <1>1, <1>11 DEF StartRun, Disable, vars
<1> QED BY <1>3, <1>4, <1>5, <1>6, <1>7, <1>8, <1>9, <1>10, <1>11 DEF Next, Handle, Deciding

\* Rewinds and faults are counted.
LEMMA HistoryStep ==
  ASSUME [Next]_vars
  PROVE  /\ bounces' = bounces \/ bounces' = bounces + 1
         /\ UNCHANGED bounds \/ Fault \/ Request
<1>1. CASE UNCHANGED <<history, bounds>>
  BY <1>1 DEF history
<1>2. ASSUME NEW d \in Call, Handle(d)
      PROVE  (bounces' = bounces \/ bounces' = bounces + 1) /\ UNCHANGED bounds
  BY <1>2
     DEF Handle, Advance, PassGate, KillAtGate, Rewind, SkipStep, FailStep, RetryStep, GiveUp,
         Spawn, RunTool, Close, history
<1>3. ASSUME NEW d \in Call, Throw(d) \/ Expire(d) PROVE UNCHANGED history /\ Fault
  BY <1>3 DEF Throw, Expire
<1>4. ASSUME NEW t \in Task, Turn(t) \/ UserDone(t) \/ SilentFinish(t) \/ LoseSend(t)
      PROVE  UNCHANGED history /\ (UNCHANGED bounds \/ Fault \/ Request)
  BY <1>4 DEF Turn, StartTurn, Finish, Err, UserDone, SilentFinish, LoseSend, Settle
<1>5. ASSUME NEW t \in Task, Evaluate(t) \/ Sweep(t) PROVE UNCHANGED <<history, bounds>>
  BY <1>5 DEF Evaluate, Sweep
<1>6. ASSUME NEW again \in BOOLEAN, NEW failed, Poll(again, failed)
      PROVE  UNCHANGED history /\ (UNCHANGED bounds \/ Fault)
  BY <1>6 DEF Poll
<1>7. CASE Disable \/ Restart
  BY <1>7 DEF Disable, Restart, history
<1>8. CASE StartRun \/ UNCHANGED vars
  BY <1>8 DEF StartRun, vars, history
<1> QED BY <1>2, <1>3, <1>4, <1>5, <1>6, <1>7, <1>8 DEF Next, history

\* Going straight, a step is no fault, no rewind and no retry.
LEMMA StraightBack ==
  ASSUME Core, [Next]_vars, Straight'
  PROVE  /\ Straight /\ ~Fault /\ bounces' = bounces
         /\ \A t \in Task : task'[t].retries = task[t].retries
<1>1. /\ faults \in Nat /\ bounces \in Nat /\ \A t \in Task : task[t].retries \in Nat
  BY RowFacts, WorkflowAssumption DEF Core, TypeOK
<1>2. faults' = 0 /\ bounces' = 0 /\ \A t \in Task : task'[t].retries = 0
  BY DEF Straight
<1>3. ~Fault /\ faults = 0
  BY <1>1, <1>2, HistoryStep DEF bounds, Fault, Request
<1>4. bounces = 0
  BY <1>1, <1>2, HistoryStep
<1>5. \A t \in Task : task[t].retries = 0
  BY <1>1, <1>2, RetriesStep
<1> QED BY <1>2, <1>3, <1>4, <1>5 DEF Straight

\* A complete step stays so while settled tasks are kept.
LEMMA CompleteKept ==
  ASSUME \A u \in Created : Settled(u) => u \in Created' /\ task'[u] = task[u],
         NEW s, s \in Tools => toolRuns'[s] = toolRuns[s], Complete(s)
  PROVE  Complete(s)'
<1>1. CASE s \in Tools
  BY <1>1 DEF Complete
<1>2. CASE s \notin Tools
  <2>1. PICK u \in Created : /\ task[u].step = s
                             /\ task[u].status \in {"done"} \cup (IF s \in Skippable THEN {"error"} ELSE {})
    BY <1>2 DEF Complete
  <2>2. Settled(u)
    BY <2>1 DEF Settled
  <2>3. u \in Created' /\ task'[u] = task[u]
    BY <2>2
  <2> QED BY <1>2, <2>1, <2>3 DEF Complete
<1> QED BY <1>1, <1>2

\* Beside a busy handler there is no other.
LEMMA Alone ==
  ASSUME OneHandler, NEW d \in Call, Busy(d)
  PROVE  \A c \in Call \ {d} : call[c].pc = "idle"
BY DEF OneHandler, Busy

\* The task a handler works on is settled: its job is not free.
LEMMA KeySettled ==
  ASSUME Core, Orderly, NEW d \in Call, call[d].pc = "decide"
  PROVE  /\ call[d].key \in Created /\ Settled(call[d].key)
         /\ task[call[d].key].step = run.cursor /\ call[d].cursor = run.cursor
         /\ (call[d].errored <=> task[call[d].key].status = "error")
<1>1. call[d].key \in Created /\ task[call[d].key].step = call[d].cursor
  BY DEF Core, Asks, AsksOf
<1>2. job[call[d].key].state = "active"
  BY DEF Orderly, OneHandler, Busy
<1>3. Settled(call[d].key)
  BY <1>1, <1>2 DEF Orderly, OneTaskPerStep, Created
<1>4. call[d].cursor = run.cursor /\ (call[d].errored <=> task[call[d].key].status = "error")
  BY DEF Orderly, AtCursor
<1> QED BY <1>1, <1>3, <1>4

\* The row of a task that is alive is written, with or without its event.
LEMMA TurnOrderly ==
  ASSUME Core, Orderly, NEW t \in Task, ~Settled(t), NEW s \in {"in_progress", "done", "error"}, NEW v,
         Rewritten(t, s, v, task[t].retries), UNCHANGED <<run, call, job, toolRuns>>,
         log' = log \/ (log' = Append(log, t) /\ s \in {"done", "error"})
  PROVE  Orderly'
<1>1. /\ Created' = Created /\ \A u \in Task : task'[u].step = task[u].step
      /\ \A u \in Task \ {t} : task'[u] = task[u]
      /\ task'[t].status = s /\ Created \subseteq Task
  BY DEF Rewritten, Rows, Created
<1>2. \A u \in Task : Settled(u) => task'[u] = task[u] /\ Settled(u)'
  BY <1>1 DEF Settled
<1>3. OneHandler'
  BY DEF Orderly, OneHandler, Busy
<1>4. AtCursor'
  <2>1. ASSUME NEW c \in Call, call[c].pc = "decide" PROVE task'[call[c].key] = task[call[c].key]
    BY <1>1, <1>2, <2>1, KeySettled
  <2> QED BY <1>1, <2>1 DEF Orderly, AtCursor
<1>5. OneTaskPerStep'
  <2>1. log \in Seq(Task) /\ \A i \in DOMAIN log : log[i] \in Task
    BY DEF Core, TypeOK
  <2>2. \A i \in DOMAIN log : task'[log[i]].status \in {"done", "error"}
    BY <1>2, <2>1 DEF Orderly, OneTaskPerStep, Settled
  <2>3. ASSUME NEW i \in DOMAIN log' PROVE task'[log'[i]].status \in {"done", "error"}
    <3>1. CASE log' = log
      BY <2>2, <2>3, <3>1
    <3>2. CASE log' = Append(log, t) /\ s \in {"done", "error"}
      <4>1. (i \in DOMAIN log /\ log'[i] = log[i]) \/ log'[i] = t
        BY <2>1, <2>3, <3>2
      <4>2. task'[t].status = s /\ s \in {"done", "error"}
        BY <1>1, <3>2
      <4>3. CASE i \in DOMAIN log /\ log'[i] = log[i]
        <5>1. task'[log[i]].status \in {"done", "error"}
          BY <2>2, <4>3
        <5> QED BY <4>3, <5>1
      <4> QED BY <4>1, <4>2, <4>3
    <3> QED BY <3>1, <3>2
  <2>4. \A u \in Created : task[u].step < run.cursor => Settled(u)'
    BY <1>1, <1>2 DEF Orderly, OneTaskPerStep
  <2>5. \A u \in Task : job[u].state # "free" => Settled(u)'
    BY <1>2 DEF Orderly, OneTaskPerStep
  <2>6. /\ run.status = "none" => Created = {} /\ run.cursor = 0
        /\ \A u \in Created : task[u].step <= run.cursor
        /\ \A u, w \in Created : task[u].step = task[w].step => u = w
    BY DEF Orderly, OneTaskPerStep
  <2> QED BY <1>1, <2>3, <2>4, <2>5, <2>6 DEF OneTaskPerStep, Settled
<1>6. Behind'
  <2>1. \A r : Complete(r) => Complete(r)'
    BY <1>1, <1>2, CompleteKept
  <2>2. run' = run /\ toolRuns' = toolRuns
    OBVIOUS
  <2>3. Complete(run.cursor) => Complete(run.cursor)'
    <3>1. PICK n : n = run.cursor
      OBVIOUS
    <3>2. Complete(n) => Complete(n)'
      BY <2>1
    <3> QED BY <2>2, <3>1, <3>2
  <2> QED BY <2>1, <2>2, <2>3 DEF Orderly, Behind
<1> QED BY <1>3, <1>4, <1>5, <1>6 DEF Orderly

\* Jobs that nobody works on are queued for settled tasks, or are done with.
LEMMA JobOrderly ==
  ASSUME Core, Orderly, UNCHANGED <<run, call, task, log, toolRuns>>,
         \A k \in Key : \/ job'[k] = job[k]
                        \/ /\ job[k].state # "active"
                           /\ k \in Task => job'[k].state = "free" \/ Settled(k)
  PROVE  Orderly'
<1>1. OneHandler'
  <2>1. \A c \in Call : call[c].key \in Key
    BY RunFacts DEF Core
  <2> QED BY <2>1 DEF Orderly, OneHandler, Busy
<1>2. AtCursor' /\ Behind'
  BY DEF Orderly, AtCursor, Behind, Complete, Created
<1>3. OneTaskPerStep'
  <2>1. Task \subseteq Key
    BY Facts
  <2> QED BY <2>1 DEF Orderly, OneTaskPerStep, Created, Settled
<1> QED BY <1>1, <1>2, <1>3 DEF Orderly

\* The one handler returns.
LEMMA ReturnOrderly ==
  ASSUME Core, Orderly, NEW d \in Call, Busy(d), Return(d), UNCHANGED <<run, task, log, toolRuns>>
  PROVE  Orderly'
<1>1. call \in [Call -> Calls] /\ job \in [Key -> Jobs] /\ FreeJob.state = "free"
      /\ Task \subseteq Key /\ Idle.pc = "idle"
  BY Facts DEF Core, TypeOK, FreeJob, Idle
<1>2. \A c \in Call : call'[c].pc = "idle"
  BY <1>1, Alone, ReturnFacts DEF Orderly
<1>3. OneHandler' /\ AtCursor'
  BY <1>2 DEF OneHandler, AtCursor, Busy
<1>4. \A t \in Task : job'[t].state # "free" => job[t].state # "free"
  BY <1>1, ReturnFacts
<1>5. OneTaskPerStep' /\ Behind'
  BY <1>4 DEF Orderly, OneTaskPerStep, Behind, Complete, Created, Settled
<1> QED BY <1>3, <1>5 DEF Orderly

\* The one handler ends the run.
LEMMA EndOrderly ==
  ASSUME Core, Orderly, NEW d \in Call, Busy(d), NEW s \in Ended, EndRun(d, s),
         UNCHANGED <<task, log>>, \A r \in Tools \ {run.cursor} : toolRuns'[r] = toolRuns[r],
         s = "done" => run.cursor = LastStep /\ Complete(run.cursor)',
         s # "done" => UNCHANGED toolRuns, run.status = "running"
  PROVE  Orderly'
<1>1. /\ TypeOK /\ run.cursor \in Step /\ Step \subseteq Nat /\ Tools \subseteq Step
  BY RunFacts, Facts DEF Core
<1>2. /\ run'.status = s /\ run'.cursor = run.cursor /\ job' = job /\ s # "none"
      /\ \A c \in Call \ {d} : call'[c] = call[c]
      /\ call'[d].pc = "close" /\ call'[d].key = call[d].key /\ call'[d].late = call[d].late
  BY <1>1, EndFacts DEF Ended
<1>3. \A c \in Call \ {d} : call'[c].pc = "idle"
  BY <1>2, Alone DEF Orderly
<1>4. OneHandler'
  BY <1>2, <1>3 DEF Orderly, OneHandler, Busy
<1>5. AtCursor'
  BY <1>2, <1>3 DEF AtCursor
<1>6. OneTaskPerStep'
  BY <1>2 DEF Orderly, OneTaskPerStep, Created, Settled
<1>7. Behind'
  <2>1. ASSUME NEW r \in Step, r < run.cursor PROVE Complete(r)'
    <3>1. r # run.cursor /\ Complete(r)
      BY <1>1, <2>1 DEF Orderly, Behind
    <3>2. r \in Tools => toolRuns'[r] = toolRuns[r]
      BY <3>1
    <3>3. \A u \in Created : u \in Created' /\ task'[u] = task[u]
      BY DEF Created
    <3> QED BY <3>1, <3>2, <3>3, CompleteKept
  <2>2. s = "done" => Complete(run.cursor)' /\ run'.cursor = LastStep
    BY <1>2
  <2>3. s # "done" => \A r \in Tools : run.cursor <= r => toolRuns'[r] = 0
    BY DEF Orderly, Behind
  <2> QED BY <1>2, <2>1, <2>2, <2>3 DEF Behind
<1> QED BY <1>4, <1>5, <1>6, <1>7 DEF Orderly

\* The one handler moves the run past a step that is complete.
LEMMA MoveOrderly ==
  ASSUME Core, Orderly, NEW d \in Call, Busy(d), NEW n \in Step, n = run.cursor, n + 1 \in Step,
         Moves(d, n + 1), UNCHANGED <<task, log>>,
         \A r \in Tools \ {n} : toolRuns'[r] = toolRuns[r],
         Complete(n)', \A t \in Created : task[t].step = n => Settled(t), run.status = "running"
  PROVE  Orderly'
<1>1. /\ TypeOK /\ Step \subseteq Nat /\ Tools \subseteq Step /\ n \in Nat
      /\ \A t \in Created : task[t].step \in Nat
  BY RunFacts, RowFacts, Facts DEF Core, TypeOK, Created
<1>2. /\ run'.status = "running" /\ run'.cursor = n + 1 /\ job' = job
      /\ \A c \in Call \ {d} : call'[c] = call[c]
      /\ call'[d].pc \in {"tool", "spawn"} /\ call'[d].at = n + 1
      /\ call'[d].key = call[d].key /\ call'[d].late = call[d].late
  BY <1>1, MoveFacts
<1>3. \A c \in Call \ {d} : call'[c].pc = "idle"
  BY <1>2, Alone DEF Orderly
<1>4. OneHandler'
  BY <1>2, <1>3 DEF Orderly, OneHandler, Busy
<1>5. \A t \in Created : task[t].step <= n /\ Settled(t)
  BY <1>1 DEF Orderly, OneTaskPerStep
<1>6. \A t \in Created : task[t].step < n + 1 /\ task[t].step <= n + 1 /\ task[t].step # n + 1
  BY <1>1, <1>5
<1>7. AtCursor'
  BY <1>2, <1>3, <1>6 DEF AtCursor, Created
<1>8. OneTaskPerStep'
  BY <1>2, <1>5, <1>6 DEF Orderly, OneTaskPerStep, Created, Settled
<1>9. Behind'
  <2>1. ASSUME NEW r \in Step, r < n + 1 PROVE Complete(r)'
    <3>1. r = n \/ r < n
      BY <1>1, <2>1
    <3>2. CASE r < n
      <4>1. Complete(r) /\ (r \in Tools => toolRuns'[r] = toolRuns[r])
        BY <1>1, <3>2 DEF Orderly, Behind
      <4>2. \A u \in Created : u \in Created' /\ task'[u] = task[u]
        BY DEF Created
      <4> QED BY <4>1, <4>2, CompleteKept
    <3> QED BY <3>1, <3>2
  <2>2. ASSUME NEW r \in Tools, n + 1 <= r PROVE toolRuns'[r] = 0
    <3>1. r # n /\ n <= r
      BY <1>1, <2>2
    <3> QED BY <3>1 DEF Orderly, Behind
  <2> QED BY <1>2, <2>1, <2>2 DEF Behind
<1> QED BY <1>4, <1>7, <1>8, <1>9 DEF Orderly

\* A handler at work in a running run, and what it finds at the cursor, is complete.
LEMMA ForwardOrderly ==
  ASSUME Core, Orderly, NEW d \in Call, call[d].pc = "decide", Forward(d),
         call[d].errored => call[d].cursor \in Skippable, UNCHANGED <<task, log, toolRuns>>
  PROVE  Orderly'
<1>1. /\ TypeOK /\ Busy(d) /\ run.status = "running"
  BY DEF Core, Busy, Orderly, OneHandler
<1>2. PICK n \in Step : n = run.cursor
  BY <1>1, RunFacts
<1>3. PICK t \in Created : t = call[d].key
  BY KeySettled
<1>4. /\ call[d].cursor = n /\ Settled(t) /\ task[t].step = n
      /\ (call[d].errored <=> task[t].status = "error")
  BY <1>2, <1>3, KeySettled
<1>5. n \notin Tools
  BY <1>4, DecidedStep
<1>6. Complete(n) /\ Complete(n)'
  BY <1>4, <1>5 DEF Complete, Created, Settled
<1>7. \A u \in Created : task[u].step = n => Settled(u)
  BY <1>3, <1>4 DEF Orderly, OneTaskPerStep
<1>8. CASE n = LastStep /\ EndRun(d, "done")
  <2>1. "done" \in Ended /\ run.cursor = LastStep /\ run' = [run EXCEPT !.status = "done"]
    BY <1>2, <1>8 DEF Ended, EndRun
  <2>2. run'.cursor = n
    BY <1>1, <1>2, <2>1, EndFacts, <1>8
  <2>3. Complete(run.cursor)'
    BY <1>6, <2>2
  <2> QED BY <1>1, <1>8, <2>1, <2>3, EndOrderly
<1>9. CASE n + 1 \in Step /\ Moves(d, n + 1)
  BY <1>1, <1>2, <1>6, <1>7, <1>9, MoveOrderly
<1> QED BY <1>1, <1>2, <1>4, <1>8, <1>9, ForwardCases

\* The one handler runs a tool, for the first time.
LEMMA ToolOrderly ==
  ASSUME Core, ToolInv, Orderly, NEW d \in Call, RunTool(d)
  PROVE  Orderly'
<1>1. PICK n \in Tools : n = run.cursor /\ n = call[d].at
  BY DEF RunTool, Core, Asks, AsksOf, ToolInv, OneTool, InTool
<1>2. /\ TypeOK /\ Busy(d) /\ run.status = "running" /\ n \in Step /\ toolRuns[n] = 0
      /\ Step \subseteq Nat
  BY <1>1, Facts DEF RunTool, Core, Busy, Orderly, OneHandler, Behind
<1>3. toolRuns'[n] = 1 /\ \A r \in Tools \ {n} : toolRuns'[r] = toolRuns[r]
  BY <1>1, <1>2, ToolFacts
<1>4. Complete(n)'
  BY <1>1, <1>3 DEF Complete
<1>5. UNCHANGED <<task, log>>
  BY DEF RunTool, poller
<1>6. CASE n = LastStep /\ EndRun(d, "done")
  <2>1. "done" \in Ended /\ run'.cursor = n
    BY <1>1, <1>2, <1>6, EndFacts DEF Ended
  <2>2. Complete(run.cursor)'
    BY <1>4, <2>1
  <2> QED BY <1>1, <1>2, <1>3, <1>5, <1>6, <2>1, <2>2, EndOrderly
<1>7. CASE n + 1 \in Step /\ Moves(d, n + 1)
  <2>1. \A t \in Created : task[t].step # n
    BY <1>1 DEF Core, NoToolTask
  <2> QED BY <1>1, <1>2, <1>3, <1>4, <1>5, <1>7, <2>1, MoveOrderly
<1> QED BY <1>1, <1>2, <1>6, <1>7, ToolFacts

\* The one handler creates the task of the step at the cursor, which has none.
LEMMA SpawnOrderly ==
  ASSUME Core, Orderly, NEW d \in Call, Spawn(d)
  PROVE  Orderly'
<1>0. /\ TypeOK /\ call \in [Call -> Calls] /\ job \in [Key -> Jobs] /\ Task \subseteq Key
      /\ FreeJob.state = "free" /\ Idle.pc = "idle" /\ log \in Seq(Task)
      /\ run.cursor \in Nat
  BY RunFacts, Facts DEF Core, TypeOK, FreeJob, Idle
<1>1. /\ call[d].pc = "spawn" /\ Busy(d) /\ Return(d) /\ run' = run /\ log' = log
      /\ toolRuns' = toolRuns
  BY DEF Spawn, Busy, history, poller
<1>2. /\ run.status = "running" /\ call[d].at = run.cursor
      /\ \A t \in Created : task[t].step # run.cursor
  BY <1>1 DEF Orderly, OneHandler, AtCursor, Busy
<1>3. PICK t \in Task \ Created :
        /\ Created' = Created \cup {t} /\ task'[t].step = run.cursor
        /\ \A u \in Task \ {t} : task'[u] = task[u]
  BY <1>2, SpawnFacts
<1>4. Created \subseteq Task /\ \A u \in Created : task'[u] = task[u]
  BY <1>3 DEF Created
<1>5. \A c \in Call : call'[c].pc = "idle"
  BY <1>0, <1>1, Alone, ReturnFacts DEF Orderly
<1>6. OneHandler' /\ AtCursor'
  BY <1>5 DEF OneHandler, AtCursor, Busy
<1>7. OneTaskPerStep'
  <2>1. \A u \in Task : job'[u].state # "free" => u \in Created /\ Settled(u)
    BY <1>0, <1>1, ReturnFacts DEF Core, Heard, Orderly, OneTaskPerStep
  <2>2. \A u \in Task : job'[u].state # "free" => Settled(u)'
    BY <1>4, <2>1 DEF Settled
  <2>3. ASSUME NEW i \in DOMAIN log PROVE task'[log[i]].status \in {"done", "error"}
    <3>1. log[i] \in Created /\ Settled(log[i])
      BY <2>3 DEF Core, Heard, Orderly, OneTaskPerStep
    <3> QED BY <1>4, <3>1 DEF Settled
  <2>4. \A u \in Created' : task'[u].step <= run.cursor
                            /\ (task'[u].step < run.cursor => Settled(u)')
    BY <1>0, <1>3, <1>4 DEF Orderly, OneTaskPerStep, Settled
  <2>5. \A u, w \in Created' : task'[u].step = task'[w].step => u = w
    BY <1>2, <1>3, <1>4 DEF Orderly, OneTaskPerStep
  <2> QED BY <1>1, <1>2, <2>2, <2>3, <2>4, <2>5 DEF OneTaskPerStep, Settled
<1>8. Behind'
  <2>1. \A r \in Step : Complete(r) => Complete(r)'
    <3>1. \A u \in Created : u \in Created' /\ task'[u] = task[u]
      BY <1>3, <1>4
    <3> QED BY <1>1, <3>1, CompleteKept
  <2> QED BY <1>1, <1>2, <2>1 DEF Orderly, Behind
<1> QED BY <1>6, <1>7, <1>8 DEF Orderly

\* An evaluation that matches the cursor finds no handler at work.
LEMMA EvaluateOrderly ==
  ASSUME Core, ToolInv, Orderly, NEW t \in Task, Evaluate(t), IsAtCursor(t)
  PROVE  Orderly'
<1>1. /\ TypeOK /\ job[t].state \in {"queued", "retry"} /\ run.status = "running"
      /\ task[t].step = run.cursor /\ UNCHANGED <<run, task, log, toolRuns>>
  BY DEF Core, Evaluate, Taken, IsAtCursor, poller, history
<1>2. t \in Created /\ Settled(t)
  BY <1>1 DEF Core, Heard, Orderly, OneTaskPerStep
<1>3. ASSUME NEW c \in Call, Busy(c) PROVE FALSE
  <2>1. job[call[c].key].state = "active" /\ call[c].pc # "close"
    BY <1>1, <1>3 DEF Orderly, OneHandler, Ended
  <2>2. call[c].pc # "decide"
    <3>1. ASSUME call[c].pc = "decide" PROVE FALSE
      <4>1. call[c].key \in Created /\ task[call[c].key].step = run.cursor
        BY <3>1, KeySettled
      <4>2. call[c].key = t
        BY <1>1, <1>2, <4>1 DEF Orderly, OneTaskPerStep
      <4> QED BY <1>1, <2>1, <4>2
    <3> QED BY <3>1
  <2>3. call[c].pc # "spawn" /\ call[c].pc # "giveup"
    BY <1>1, <1>2 DEF Orderly, AtCursor
  <2>4. call[c].pc # "tool"
    BY <1>1, <1>2 DEF ToolInv, OneTool, InTool, Core, Asks, AsksOf, NoToolTask
  <2> QED BY <1>1, <1>3, <2>1, <2>2, <2>3, <2>4, RunFacts DEF Busy, Pcs
<1>4. PICK d \in Call :
        /\ call'[d].pc = "decide" /\ call'[d].key = t /\ ~call'[d].late
        /\ call'[d].cursor = run.cursor /\ (call'[d].errored <=> task[t].status = "error")
        /\ \A c \in Call \ {d} : call'[c] = call[c]
        /\ job'[t].state = "active" /\ \A j \in Key \ {t} : job'[j] = job[j]
  BY <1>1, EvaluateFacts
<1>5. \A c \in Call \ {d} : call'[c].pc = "idle"
  BY <1>3, <1>4 DEF Busy
<1>6. OneHandler'
  BY <1>1, <1>4, <1>5 DEF OneHandler, Busy
<1>7. AtCursor'
  BY <1>1, <1>4, <1>5 DEF AtCursor
<1>8. OneTaskPerStep' /\ Behind'
  <2>1. Task \subseteq Key
    BY Facts
  <2>2. \A u \in Task : job'[u].state # "free" => Settled(u)
    BY <1>2, <1>4, <2>1 DEF Orderly, OneTaskPerStep
  <2> QED BY <1>1, <2>2 DEF Orderly, OneTaskPerStep, Behind, Complete, Created, Settled
<1> QED BY <1>6, <1>7, <1>8 DEF Orderly

\* The start job starts the run, before anything was created.
LEMMA StartOrderly ==
  ASSUME Core, Orderly, StartRun, enabled, run.status = "none"
  PROVE  Orderly'
<1>1. /\ TypeOK /\ UNCHANGED <<task, log, toolRuns>> /\ Created = {} /\ run.cursor = 0
  BY DEF Core, StartRun, poller, history, Orderly, OneTaskPerStep
<1>2. \A c \in Call : call[c].pc = "idle"
  BY DEF Orderly, OneHandler, Busy
<1>3. PICK d \in Call :
        /\ run'.status = "running" /\ run'.cursor = run.cursor
        /\ call'[d].pc = "spawn" /\ call'[d].at = 0 /\ ~call'[d].late /\ call'[d].key = Wrapper
        /\ \A c \in Call \ {d} : call'[c] = call[c]
        /\ job'[Wrapper].state = "active" /\ \A j \in Key \ {Wrapper} : job'[j] = job[j]
  BY <1>1, StartFacts
<1>4. \A c \in Call \ {d} : call'[c].pc = "idle"
  BY <1>2, <1>3
<1>5. OneHandler'
  BY <1>3, <1>4 DEF OneHandler, Busy
<1>6. AtCursor'
  BY <1>1, <1>3, <1>4 DEF AtCursor, Created
<1>7. OneTaskPerStep' /\ Behind'
  <2>1. \A u \in Task : job'[u] = job[u]
    BY <1>3, Facts
  <2> QED BY <1>1, <1>3, <2>1 DEF Orderly, OneTaskPerStep, Behind, Complete, Created, Settled
<1> QED BY <1>5, <1>6, <1>7 DEF Orderly

\* Every step that goes straight keeps order.
LEMMA StraightStep ==
  ASSUME Core, ToolInv, StraightInv, [Next]_vars, Straight'
  PROVE  Orderly'
<1>0. /\ TypeOK /\ Asks /\ task \in [Task -> Tasks] /\ bounces \in Nat
      /\ Orderly /\ ~Fault /\ bounces' = bounces
      /\ \A t \in Task : task[t].retries \in Nat /\ task'[t].retries = task[t].retries
  BY StraightBack, RowFacts DEF Core, TypeOK, StraightInv
<1>1. CASE UNCHANGED <<run, call, job, task, log, toolRuns>>
  BY <1>0, <1>1, JobOrderly
<1>2. CASE StartRun
  <2>1. CASE enabled /\ run.status = "none"
    BY <1>0, <1>2, <2>1, StartOrderly
  <2>2. CASE ~(enabled /\ run.status = "none")
    <3>1. UNCHANGED <<run, call, task, log, toolRuns>>
      BY <1>2, <2>2 DEF StartRun, poller, history
    <3>2. job[Wrapper].state # "active" /\ \A k \in Key \ {Wrapper} : job'[k] = job[k]
      BY <1>0, <1>2, <2>2 DEF StartRun, Taken, TypeOK
    <3> QED BY <1>0, <3>1, <3>2, Facts, JobOrderly
  <2> QED BY <2>1, <2>2
<1>3. ASSUME NEW t \in Task, Evaluate(t) PROVE Orderly'
  <2>1. CASE IsAtCursor(t)
    BY <1>0, <1>3, <2>1, EvaluateOrderly
  <2>2. CASE ~IsAtCursor(t)
    <3>1. UNCHANGED <<run, call, task, log, toolRuns>>
      BY <1>3, <2>2 DEF Evaluate, poller, history
    <3>2. job[t].state # "active" /\ job' = [job EXCEPT ![t] = FreeJob] /\ FreeJob.state = "free"
      BY <1>3, <2>2 DEF Evaluate, Taken, FreeJob
    <3>3. \A k \in Key : job'[k] = job[k] \/ (job[k].state # "active" /\ job'[k].state = "free")
      BY <1>0, <3>2, Facts DEF TypeOK
    <3> QED BY <1>0, <3>1, <3>3, JobOrderly
  <2> QED BY <2>1, <2>2
<1>4. ASSUME NEW d \in Call, Deciding(d) PROVE Orderly'
  <2>1. call[d].pc = "decide" /\ Busy(d) /\ UNCHANGED <<task, log, toolRuns>>
    BY <1>4
       DEF Deciding, Advance, PassGate, KillAtGate, Rewind, SkipStep, FailStep, GateSays, Decides,
           Busy, history, poller
  <2>2. run.status = "running" /\ call[d].cursor = run.cursor
    BY <1>0, <2>1 DEF Orderly, OneHandler, AtCursor
  <2>3. CASE Advance(d) \/ PassGate(d) \/ SkipStep(d)
    <3>1. Forward(d) /\ (call[d].errored => call[d].cursor \in Skippable)
      BY <2>3 DEF Advance, PassGate, SkipStep, GateSays, Decides
    <3> QED BY <1>0, <2>1, <3>1, ForwardOrderly
  <2>4. CASE KillAtGate(d) \/ FailStep(d)
    <3>1. PICK s \in Ended : s # "done" /\ EndRun(d, s)
      BY <2>4 DEF KillAtGate, FailStep, Ended
    <3> QED BY <1>0, <2>1, <2>2, <3>1, EndOrderly
  <2>5. CASE Rewind(d)
    <3>1. bounces' = bounces + 1
      BY <2>2, <2>5 DEF Rewind, Unmoved
    <3> QED BY <1>0, <3>1
  <2> QED BY <1>4, <2>3, <2>4, <2>5 DEF Deciding
<1>5. ASSUME NEW d \in Call, RetryStep(d) PROVE FALSE
  <2>1. PICK t \in Task : t = call[d].key
    BY <1>0, <1>5 DEF RetryStep, Decides, Asks, AsksOf, Created
  <2>2. task[t].status = "error"
    BY <1>0, <1>5, <2>1 DEF RetryStep, Decides, Orderly, AtCursor
  <2>3. task' = [task EXCEPT ![t].status = "todo", ![t].retries = task[t].retries + 1]
    BY <1>5, <2>1, <2>2 DEF RetryStep
  <2>4. task[t].status # "unused" /\ "none" \in Verdict /\ task[t].retries + 1 \in Nat
    BY <1>0, <2>2 DEF Verdict
  <2>5. Rewritten(t, "todo", task[t].verdict, task[t].retries + 1)
    BY <1>0, <2>3, <2>4, ExceptRow
  <2> QED BY <1>0, <2>5 DEF Rewritten
<1>6. ASSUME NEW d \in Call, GiveUp(d) PROVE FALSE
  BY <1>0, <1>6 DEF GiveUp, Orderly, AtCursor
<1>7. ASSUME NEW d \in Call, Spawn(d) PROVE Orderly'
  BY <1>0, <1>7, SpawnOrderly
<1>8. ASSUME NEW d \in Call, RunTool(d) PROVE Orderly'
  BY <1>0, <1>8, ToolOrderly
<1>9. ASSUME NEW d \in Call, Close(d) PROVE Orderly'
  BY <1>0, <1>9, ReturnOrderly DEF Close, Busy, poller, history
<1>10. ASSUME NEW d \in Call, Throw(d) \/ Expire(d) PROVE FALSE
  BY <1>0, <1>10 DEF Throw, Expire
<1>11. ASSUME NEW t \in Task, NEW s \in {"in_progress", "done", "error"}, NEW v,
              Rewritten(t, s, v, task[t].retries), task[t].status \in {"todo", "in_progress"},
              UNCHANGED <<run, call, job, toolRuns>>,
              log' = log \/ (log' = Append(log, t) /\ s \in {"done", "error"})
       PROVE  Orderly'
  BY <1>0, <1>11, TurnOrderly DEF Settled
<1>12. ASSUME NEW t \in Task, StartTurn(t) PROVE Orderly'
  <2>1. UNCHANGED <<run, call, job, toolRuns, log>>
    BY <1>12 DEF StartTurn, poller, history
  <2> QED BY <1>0, <1>1, <1>11, <1>12, <2>1, Rewrites
<1>13. ASSUME NEW t \in Task, NEW v \in Verdict, Finish(t, v) PROVE Orderly'
  <2>1. UNCHANGED <<run, call, job, toolRuns>> /\ log' = Append(log, t)
    BY <1>13 DEF Finish, Settle, history
  <2> QED BY <1>0, <1>11, <1>13, <2>1, Rewrites
<1>14. ASSUME NEW t \in Task, Err(t) \/ UserDone(t) PROVE Orderly'
  <2>1. UNCHANGED <<run, call, job, toolRuns>> /\ log' = Append(log, t)
    BY <1>14 DEF Err, UserDone, Settle, history
  <2> QED BY <1>0, <1>11, <1>14, <2>1, Rewrites
<1>15. ASSUME NEW t \in Task, SilentFinish(t) \/ LoseSend(t) PROVE FALSE
  BY <1>0, <1>15 DEF SilentFinish, LoseSend
<1>16. ASSUME NEW t \in Task, Sweep(t) PROVE Orderly'
  BY <1>1, <1>16 DEF Sweep, poller, history
<1>17. ASSUME NEW again \in BOOLEAN, NEW failed, Poll(again, failed) PROVE Orderly'
  <2>1. \A t \in Batch(again) : Settled(t)
    BY <1>0 DEF Batch, Orderly, OneTaskPerStep, TypeOK
  <2>2. \A k \in Key : job'[k] = job[k] \/ (job[k].state # "active" /\ k \in Batch(again))
    BY <1>17 DEF Poll
  <2> QED BY <1>0, <1>17, <2>1, <2>2, JobOrderly DEF Poll, history
<1>18. CASE Restart
  BY <1>0, <1>18 DEF Restart
<1>19. CASE Disable \/ UNCHANGED vars
  BY <1>1, <1>19 DEF Disable, vars, poller, history
<1> QED BY <1>2, <1>3, <1>4, <1>5, <1>6, <1>7, <1>8, <1>9, <1>10, <1>12, <1>13, <1>14, <1>15,
           <1>16, <1>17, <1>18, <1>19 DEF Next, Handle, Deciding, Turn

LEMMA StraightAlways == Spec => [](Core /\ StraightInv)
<1>1. Init => StraightInv
  <2>1. ASSUME Init PROVE OneHandler /\ AtCursor
    BY <2>1 DEF Init, OneHandler, AtCursor, Busy, Idle
  <2>2. ASSUME Init PROVE OneTaskPerStep /\ Behind
    BY <2>2, Facts DEF Init, OneTaskPerStep, Behind, Complete, Created, Unused, FreeJob, Task, Wrapper, Step
  <2> QED BY <2>1, <2>2 DEF StraightInv, Orderly
<1>2. StraightInv /\ ToolInv /\ Core /\ [Next]_vars => StraightInv'
  BY StraightStep DEF StraightInv
<1>3. Init => ToolInv
  BY Facts DEF Init, ToolInv, OneTool, Counted, InTool, Idle
<1>4. ToolInv /\ Core /\ [Next]_vars => ToolInv'
  BY ToolStep
<1> QED BY <1>1, <1>2, <1>3, <1>4, CoreAlways, PTL DEF Spec

\* Of a run that goes straight one step at most is alive, and it is the one at the cursor.
THEOREM OneLiveAlways == Spec => []OneLiveStep
<1>1. ASSUME Core, StraightInv PROVE OneLiveStep
  <2>1. SUFFICES ASSUME Straight, run.status = "running"
                 PROVE  Cardinality(Live) <= 1 /\ \A t \in Live : task[t].step = run.cursor
    BY DEF OneLiveStep
  <2>2. Live \subseteq Created /\ \A t \in Live : ~Settled(t)
    BY DEF Live, Created, Settled
  <2>3. /\ run.cursor \in Nat /\ \A t \in Created : task[t].step \in Nat
        /\ \A t \in Created : /\ task[t].step <= run.cursor
                              /\ task[t].step < run.cursor => Settled(t)
        /\ \A t, u \in Created : task[t].step = task[u].step => t = u
    BY <1>1, <2>1, RunFacts, RowFacts, Facts
       DEF StraightInv, Orderly, OneTaskPerStep, Core, TypeOK, Created
  <2>4. \A t \in Live : task[t].step = run.cursor
    BY <2>2, <2>3
  <2>5. \A t, u \in Live : t = u
    BY <2>2, <2>3, <2>4
  <2>6. Cardinality(Live) <= 1
    <3>1. CASE Live = {}
      BY <3>1, FS_EmptySet
    <3>2. ASSUME NEW t \in Live PROVE Cardinality(Live) <= 1
      <4>1. Live = {t}
        BY <2>5, <3>2
      <4>2. Cardinality({t}) = 1
        BY FS_Singleton
      <4> QED BY <4>1, <4>2
    <3> QED BY <3>1, <3>2
  <2> QED BY <2>4, <2>6
<1> QED BY <1>1, StraightAlways, PTL

\* A run that went straight to done has every step behind it.
THEOREM DoneCompleteAlways == Spec => []DoneIsComplete
<1>1. ASSUME Core, StraightInv PROVE DoneIsComplete
  <2>1. SUFFICES ASSUME Straight, run.status = "done"
                 PROVE  /\ \A s \in Tools : toolRuns[s] = 1
                        /\ \A s \in Step \ Tools : \E t \in Created :
                             /\ task[t].step = s
                             /\ task[t].status \in {"done"} \cup (IF s \in Skippable THEN {"error"} ELSE {})
    BY DEF DoneIsComplete
  <2>2. ASSUME NEW s \in Step PROVE Complete(s)
    <3>1. s < run.cursor \/ s = run.cursor
      BY <1>1, <2>1, Facts DEF Step, StraightInv, Orderly, Behind
    <3> QED BY <1>1, <2>1, <3>1 DEF StraightInv, Orderly, Behind
  <2> QED BY <2>2, Facts DEF Complete
<1> QED BY <1>1, StraightAlways, PTL

-----------------------------------------------------------------------------
(* The run implements the pipeline of its definition.  Verdicts may be       *)
(* overwritten here, gates may be retried: what counts is a gate's go at the *)
(* moment the cursor passes it.                                              *)

\* Before the run starts no handler is at work; one that decides about the last step finds the
\* cursor there, unless a gate may have sent the run back; verdicts are given by gates.
Begun == run.status = "none" => \A c \in Call : call[c].pc = "idle"

LastRead == \A c \in Call : call[c].pc = "decide" /\ call[c].cursor = LastStep =>
  LastStep \in Gates \/ run.cursor = LastStep

GoOfGate == \A t \in Task : task[t].verdict # "none" => task[t].step \in Gates

PipeInv == Begun /\ LastRead /\ GoOfGate

\* No verdict is given or taken back.
VerdictsKept == \A t \in Task :
  /\ task'[t].verdict = task[t].verdict
  /\ task[t].verdict # "none" => task'[t].step = task[t].step

\* A verdict is given by the end of a gate's turn and by nothing else.
LEMMA VerdictGiven ==
  ASSUME Core, [Next]_vars
  PROVE  \/ VerdictsKept
         \/ \E t \in Task, v \in Verdict :
              /\ Rewritten(t, "done", v, task[t].retries) /\ (v # "none" => task[t].step \in Gates)
              /\ UNCHANGED <<run, call, history>>
<1> USE DEF Core
<1>0. TypeOK /\ Asks /\ task \in [Task -> Tasks]
  BY DEF TypeOK
<1>1. ASSUME UNCHANGED task PROVE VerdictsKept
  BY <1>1 DEF VerdictsKept
<1>2. ASSUME NEW t \in Task, NEW s, NEW n, Rewritten(t, s, task[t].verdict, n) PROVE VerdictsKept
  BY <1>2 DEF Rewritten, VerdictsKept
<1>3. ASSUME NEW t \in Task, StartTurn(t) \/ Err(t) \/ SilentFinish(t) \/ UserDone(t)
      PROVE  VerdictsKept
  BY <1>0, <1>1, <1>2, <1>3, Rewrites
<1>4. ASSUME NEW t \in Task, NEW v \in Verdict, Finish(t, v)
      PROVE  /\ Rewritten(t, "done", v, task[t].retries) /\ (v # "none" => task[t].step \in Gates)
             /\ UNCHANGED <<run, call, history>>
  BY <1>0, <1>4, Rewrites DEF Finish, Settle
<1>5. ASSUME NEW d \in Call, RetryStep(d) \/ GiveUp(d) PROVE VerdictsKept
  <2>1. call[d].key \in Created /\ call[d].key \in Task
    BY <1>5 DEF RetryStep, GiveUp, Decides, Asks, AsksOf, Created
  <2> QED BY <1>0, <1>1, <1>2, <1>5, <2>1, Rewrites
<1>6. ASSUME NEW d \in Call, Spawn(d) PROVE VerdictsKept
  <2>1. PICK t \in Task \ Created :
          task'[t].verdict = "none" /\ \A u \in Task \ {t} : task'[u] = task[u]
    BY <1>6, SpawnFacts
  <2>2. task[t].verdict = "none"
    BY <1>0, <2>1, RowFacts DEF Created, Unused
  <2> QED BY <2>1, <2>2 DEF VerdictsKept
<1>7. ASSUME NEW d \in Call, Deciding(d) \/ RunTool(d) \/ Close(d) \/ Throw(d) \/ Expire(d)
      PROVE  VerdictsKept
  BY <1>1, <1>7
     DEF Deciding, Advance, PassGate, KillAtGate, Rewind, SkipStep, FailStep, RunTool, Close,
         Throw, Expire
<1>8. CASE Restart
  BY <1>0, <1>8, RestartRows DEF VerdictsKept, Rows
<1>9. ASSUME NEW t \in Task, Evaluate(t) \/ Sweep(t) \/ LoseSend(t) PROVE VerdictsKept
  BY <1>1, <1>9 DEF Evaluate, Sweep, LoseSend
<1>10. ASSUME NEW again \in BOOLEAN, NEW failed, Poll(again, failed) PROVE VerdictsKept
  BY <1>1, <1>10 DEF Poll
<1>11. CASE StartRun \/ Disable \/ UNCHANGED vars
  BY <1>1, <1>11 DEF StartRun, Disable, vars
<1> QED BY <1>3, <1>4, <1>5, <1>6, <1>7, <1>8, <1>9, <1>10, <1>11
        DEF Next, Handle, Deciding, Turn

\* The steps with a go are gates; a verdict that is given adds its step to them or takes it
\* from them.
LEMMA SaidGoKept ==
  ASSUME VerdictsKept
  PROVE  SaidGo' = SaidGo
<1>1. \A t \in Task : /\ task'[t].verdict = "go" <=> task[t].verdict = "go"
                      /\ task[t].verdict = "go" => task'[t].step = task[t].step
  BY DEF VerdictsKept
<1> QED BY <1>1 DEF SaidGo

LEMMA SaidGoJudged ==
  ASSUME GoOfGate, NEW t \in Task, NEW v \in Verdict, NEW n, Rewritten(t, "done", v, n),
         v # "none" => task[t].step \in Gates
  PROVE  \/ SaidGo' = SaidGo
         \/ task[t].step \in Gates /\ SaidGo' \in {SaidGo \cup {task[t].step}, SaidGo \ {task[t].step}}
<1>1. /\ task'[t].verdict = v /\ task'[t].step = task[t].step
      /\ \A u \in Task \ {t} : task'[u] = task[u]
  BY DEF Rewritten
<1>2. CASE v = "go"
  <2>1. SaidGo' = SaidGo \cup {task[t].step}
    BY <1>1, <1>2 DEF SaidGo
  <2> QED BY <1>2, <2>1
<1>3. CASE v # "go" /\ task[t].verdict = "go"
  <2>1. \A s : s # task[t].step => (s \in SaidGo' <=> s \in SaidGo)
    BY <1>1, <1>3 DEF SaidGo
  <2>2. task[t].step \in SaidGo /\ task[t].step \in Gates
    BY <1>3 DEF SaidGo, GoOfGate
  <2>3. SaidGo' = SaidGo \/ SaidGo' = SaidGo \ {task[t].step}
    BY <2>1, <2>2
  <2> QED BY <2>2, <2>3
<1>4. CASE v # "go" /\ task[t].verdict # "go"
  BY <1>1, <1>4 DEF SaidGo
<1> QED BY <1>2, <1>3, <1>4

\* Before the run starts nothing is evaluated, and a run that has started stays so.
LEMMA BegunStep ==
  ASSUME Core, Begun, [Next]_vars
  PROVE  Begun'
<1> USE DEF Core
<1>0. TypeOK /\ Asks /\ run \in Runs /\ call \in [Call -> Calls] /\ Ended \cap {"none"} = {}
  BY DEF TypeOK, Ended
<1>1. ASSUME UNCHANGED <<run, call>> PROVE Begun'
  BY <1>1 DEF Begun
<1>2. ASSUME run'.status # "none" PROVE Begun'
  BY <1>2 DEF Begun
<1>3. ASSUME NEW d \in Call, Handle(d) \/ Throw(d) \/ Expire(d) PROVE Begun'
  <2>1. call[d].pc # "idle"
    BY <1>3
       DEF Handle, Advance, PassGate, KillAtGate, Rewind, SkipStep, FailStep, RetryStep, GiveUp,
           Spawn, RunTool, Close, Throw, Expire, GateSays, Decides
  <2>2. run.status # "none"
    BY <2>1 DEF Begun
  <2>3. run' = run \/ run'.status \in Ended \/ run'.status = run.status
    <3>1. ASSUME NEW s \in Ended, EndRun(d, s) PROVE run'.status \in Ended
      BY <1>0, <3>1, EndFacts
    <3>2. ASSUME Forward(d) PROVE run' = run \/ run'.status \in Ended \/ run'.status = run.status
      BY <1>0, <3>1, <3>2, ForwardCases, MoveFacts DEF Ended
    <3>3. ASSUME RunTool(d) PROVE run'.status \in Ended \/ run'.status = run.status
      <4>1. call[d].at \in Tools
        BY <3>3 DEF Asks, AsksOf, RunTool
      <4> QED BY <1>0, <3>1, <3>3, <4>1, ToolFacts, MoveFacts DEF Ended
    <3>4. ASSUME Rewind(d) PROVE run' = run \/ run'.status = run.status
      BY <1>0, <3>4 DEF Rewind, Runs
    <3> QED BY <1>3, <3>1, <3>2, <3>3, <3>4
            DEF Handle, Advance, PassGate, KillAtGate, SkipStep, FailStep, RetryStep, GiveUp,
                Spawn, Close, Throw, Expire, Ended
  <2> QED BY <1>0, <1>2, <2>2, <2>3
<1>4. CASE StartRun
  <2>1. CASE enabled /\ run.status = "none"
    BY <1>0, <1>2, <1>4, <2>1, StartFacts
  <2> QED BY <1>1, <1>4, <2>1 DEF StartRun
<1>5. ASSUME NEW t \in Task, Evaluate(t) PROVE Begun'
  <2>1. CASE IsAtCursor(t)
    BY <1>2, <1>5, <2>1 DEF Evaluate, IsAtCursor
  <2> QED BY <1>1, <1>5, <2>1 DEF Evaluate
<1>6. ASSUME NEW t \in Task, Turn(t) \/ UserDone(t) \/ Sweep(t) \/ LoseSend(t) \/ SilentFinish(t)
      PROVE  Begun'
  BY <1>1, <1>6 DEF Turn, StartTurn, Finish, Err, UserDone, Sweep, LoseSend, SilentFinish, Settle
<1>7. ASSUME NEW again \in BOOLEAN, NEW failed, Poll(again, failed) PROVE Begun'
  BY <1>1, <1>7 DEF Poll
<1>8. CASE Restart
  BY <1>2, <1>8 DEF Restart
<1>9. CASE Disable \/ UNCHANGED vars
  BY <1>1, <1>9 DEF Disable, vars
<1> QED BY <1>3, <1>4, <1>5, <1>6, <1>7, <1>8, <1>9 DEF Next

\* The cursor does not leave a last step that is no gate, and a handler that decides has read it
\* there now or before.
LEMMA LastReadStep ==
  ASSUME Core, ToolInv, LastRead, [Next]_vars
  PROVE  LastRead'
<1> USE DEF Core
<1> SUFFICES ASSUME LastStep \notin Gates PROVE LastRead'
  BY DEF LastRead
<1>0. /\ TypeOK /\ Asks /\ run \in Runs /\ call \in [Call -> Calls] /\ job \in [Key -> Jobs]
      /\ Idle.pc = "idle" /\ LastStep + 1 \notin Step /\ LastStep \in Nat
  BY Facts DEF TypeOK, Idle, Step
<1>1. ASSUME run.cursor = LastStep => run'.cursor = LastStep,
             \A c \in Call : call'[c].pc = "decide" =>
               \/ call[c].pc = "decide" /\ call'[c].cursor = call[c].cursor
               \/ call'[c].cursor = run'.cursor
      PROVE  LastRead'
  BY <1>1 DEF LastRead
<1>2. ASSUME NEW d \in Call, run.cursor = LastStep => run'.cursor = LastStep,
             call'[d].pc # "decide", \A c \in Call \ {d} : call'[c] = call[c]
      PROVE  LastRead'
  BY <1>1, <1>2
<1>3. CASE UNCHANGED <<run, call>>
  BY <1>1, <1>3
<1>4. ASSUME NEW d \in Call, EndRun(d, "done") \/ EndRun(d, "killed") \/ EndRun(d, "failed")
      PROVE  LastRead'
  BY <1>0, <1>2, <1>4, EndFacts DEF Ended
<1>5. ASSUME NEW d \in Call, run.cursor + 1 \in Step, Moves(d, run.cursor + 1) PROVE LastRead'
  BY <1>0, <1>2, <1>5, MoveFacts
<1>6. ASSUME NEW d \in Call, Return(d), UNCHANGED run PROVE LastRead'
  BY <1>0, <1>2, <1>6, ReturnFacts
<1>7. ASSUME NEW d \in Call, Forward(d) PROVE LastRead'
  BY <1>0, <1>4, <1>5, <1>6, <1>7, ForwardCases
<1>8. ASSUME NEW d \in Call, Rewind(d) PROVE LastRead'
  <2>1. CASE Unmoved(d)
    <3>1. GotoAt(d, "spawn", Draft) /\ "spawn" \in Pcs /\ run.cursor # LastStep
      BY <1>8, <2>1 DEF Rewind, Pcs, Unmoved, GateSays
    <3> QED BY <1>0, <1>2, <3>1, Facts, GotoAtFacts
  <2> QED BY <1>6, <1>8, <2>1 DEF Rewind
<1>9. ASSUME NEW d \in Call, Deciding(d) PROVE LastRead'
  BY <1>4, <1>7, <1>8, <1>9 DEF Deciding, Advance, PassGate, KillAtGate, SkipStep, FailStep
<1>10. ASSUME NEW d \in Call, RetryStep(d) PROVE LastRead'
  <2>1. CASE Goto(d, "giveup")
    <3>1. "giveup" \in Pcs
      BY DEF Pcs
    <3> QED BY <1>0, <1>2, <1>10, <2>1, <3>1, GotoFacts DEF RetryStep
  <2> QED BY <1>6, <1>10, <2>1 DEF RetryStep
<1>11. ASSUME NEW d \in Call, GiveUp(d) \/ Spawn(d) \/ Close(d) PROVE LastRead'
  BY <1>4, <1>6, <1>11 DEF GiveUp, Spawn, Close
<1>12. ASSUME NEW d \in Call, RunTool(d) PROVE LastRead'
  <2>1. call[d].at \in Tools /\ call[d].at = run.cursor
    BY <1>12 DEF RunTool, InTool, Asks, AsksOf, ToolInv, OneTool
  <2> QED BY <1>0, <1>4, <1>5, <1>12, <2>1, ToolFacts
<1>13. ASSUME NEW d \in Call, Throw(d) \/ Expire(d) PROVE LastRead'
  <2>1. run' = run /\ \A c \in Call : call'[c].pc = "decide" =>
                         call[c].pc = "decide" /\ call'[c].cursor = call[c].cursor
    BY <1>0, <1>13 DEF Throw, Expire, Calls
  <2> QED BY <1>1, <2>1
<1>14. CASE StartRun
  <2>1. CASE enabled /\ run.status = "none"
    BY <1>0, <1>2, <1>14, <2>1, StartFacts
  <2> QED BY <1>3, <1>14, <2>1 DEF StartRun
<1>15. ASSUME NEW t \in Task, Evaluate(t) PROVE LastRead'
  <2>1. CASE IsAtCursor(t)
    <3>1. run' = run /\ \A c \in Call : call'[c] = call[c] \/ call'[c].cursor = run.cursor
      BY <1>0, <1>15, <2>1, EvaluateFacts DEF Evaluate
    <3> QED BY <1>1, <3>1
  <2> QED BY <1>3, <1>15, <2>1 DEF Evaluate
<1>16. ASSUME NEW t \in Task, Turn(t) \/ UserDone(t) \/ Sweep(t) \/ LoseSend(t) \/ SilentFinish(t)
       PROVE  LastRead'
  BY <1>3, <1>16 DEF Turn, StartTurn, Finish, Err, UserDone, Sweep, LoseSend, SilentFinish, Settle
<1>17. ASSUME NEW again \in BOOLEAN, NEW failed, Poll(again, failed) PROVE LastRead'
  BY <1>3, <1>17 DEF Poll
<1>18. CASE Restart
  BY <1>0, <1>1, <1>18 DEF Restart
<1>19. CASE Disable \/ UNCHANGED vars
  BY <1>3, <1>19 DEF Disable, vars
<1> QED BY <1>9, <1>10, <1>11, <1>12, <1>13, <1>14, <1>15, <1>16, <1>17, <1>18, <1>19
        DEF Next, Handle, Deciding

\* Every step keeps what the refinement needs.
LEMMA PipeInvStep ==
  ASSUME Core, ToolInv, PipeInv, [Next]_vars
  PROVE  PipeInv'
<1>1. Begun' /\ LastRead'
  BY BegunStep, LastReadStep DEF PipeInv
<1>2. ASSUME VerdictsKept PROVE GoOfGate'
  BY <1>2 DEF VerdictsKept, PipeInv, GoOfGate
<1>3. ASSUME NEW t \in Task, NEW v \in Verdict, Rewritten(t, "done", v, task[t].retries),
             v # "none" => task[t].step \in Gates
      PROVE  GoOfGate'
  BY <1>3 DEF Rewritten, PipeInv, GoOfGate
<1>4. GoOfGate'
  BY <1>2, <1>3, VerdictGiven
<1> QED BY <1>1, <1>4 DEF PipeInv

LEMMA PipeInit == Init => PipeInv /\ Pipe!Init
<1> SUFFICES ASSUME Init PROVE PipeInv /\ Pipe!Init
  OBVIOUS
<1>1. PipeInv
  BY DEF Init, PipeInv, Begun, LastRead, GoOfGate, Idle, Unused
<1>2. SaidGo = {}
  BY DEF Init, SaidGo, Unused
<1>3. Pipe!Init
  BY <1>2 DEF Init, Pipe!Init
<1> QED BY <1>1, <1>3

\* A gate's turn is the pipeline's verdict; what changes neither row nor histories, nothing of it.
LEMMA PipeJudges ==
  ASSUME Core, PipeInv, [Next]_vars, UNCHANGED <<run, bounces, toolRuns>>
  PROVE  [Pipe!Next]_(Pipe!pipeline)
<1>1. CASE VerdictsKept
  BY <1>1, SaidGoKept DEF Pipe!pipeline
<1>2. ASSUME NEW t \in Task, NEW v \in Verdict, Rewritten(t, "done", v, task[t].retries),
             v # "none" => task[t].step \in Gates
      PROVE  [Pipe!Next]_(Pipe!pipeline)
  <2>1. CASE SaidGo' = SaidGo
    BY <2>1 DEF Pipe!pipeline
  <2>2. CASE /\ task[t].step \in Gates
             /\ SaidGo' \in {SaidGo \cup {task[t].step}, SaidGo \ {task[t].step}}
    <3>1. Pipe!Judge(task[t].step)
      BY <2>2 DEF Pipe!Judge
    <3> QED BY <2>2, <3>1 DEF Pipe!Next
  <2> QED BY <1>2, <2>1, <2>2, SaidGoJudged DEF PipeInv
<1> QED BY <1>1, <1>2, VerdictGiven

\* The end of a run that is killed or fails.
LEMMA PipeAborts ==
  ASSUME Core, NEW c \in Call, EndRun(c, "killed") \/ EndRun(c, "failed"), SaidGo' = SaidGo,
         run.status # "none", UNCHANGED <<bounces, toolRuns>>
  PROVE  Pipe!Next
<1>1. run'.cursor = run.cursor /\ run'.status \in {"killed", "failed"}
  BY EndFacts DEF Core, Ended
<1>2. Pipe!Abort
  BY <1>1 DEF Pipe!Abort
<1> QED BY <1>2 DEF Pipe!Next

\* A handler that goes forward from a step with its go or without a gate.
LEMMA PipeForward ==
  ASSUME Core, PipeInv, [Next]_vars, NEW c \in Call, Forward(c), call[c].pc = "decide",
         call[c].cursor \in Gates \ Skippable => call[c].cursor \in SaidGo,
         SaidGo' = SaidGo, UNCHANGED <<bounces, toolRuns>>
  PROVE  [Pipe!Next]_(Pipe!pipeline)
<1>0. TypeOK /\ run.status # "none" /\ call[c].cursor \notin Tools /\ call[c].cursor \in Step
  BY DecidedStep, RunFacts DEF Core, PipeInv, Begun
<1>1. CASE call[c].cursor = LastStep /\ EndRun(c, "done")
  <2>1. run'.cursor = run.cursor /\ run'.status = "done"
    BY <1>0, <1>1, EndFacts DEF Ended
  <2>2. LastStep \in Gates \/ run.cursor = LastStep
    BY <1>1 DEF PipeInv, LastRead
  <2>3. Pipe!Complete
    BY <1>0, <1>1, <2>1, <2>2 DEF Pipe!Complete, Pipe!Leave
  <2> QED BY <2>3 DEF Pipe!Next
<1>2. CASE /\ call[c].cursor < LastStep /\ call[c].cursor + 1 \in Step
           /\ run.cursor = call[c].cursor /\ Moves(c, call[c].cursor + 1)
  <2>1. run'.cursor = run.cursor + 1 /\ run'.status = run.status
    BY <1>0, <1>2, MoveFacts
  <2>2. Pipe!Advance
    BY <1>0, <1>2, <2>1 DEF Pipe!Advance, Pipe!Leave
  <2> QED BY <2>2 DEF Pipe!Next
<1>3. CASE Return(c) /\ UNCHANGED run
  BY <1>3, PipeJudges
<1> QED BY <1>0, <1>1, <1>2, <1>3, ForwardCases

\* Behind a tool the cursor moves without a compare: it is where the handler has left it.
LEMMA PipeTool ==
  ASSUME Core, ToolInv, PipeInv, NEW c \in Call, RunTool(c), SaidGo' = SaidGo
  PROVE  Pipe!Next
<1>1. /\ TypeOK /\ run.status # "none" /\ call[c].at \in Tools /\ call[c].at = run.cursor
      /\ run.cursor \notin Gates
  BY Facts DEF Core, PipeInv, Begun, RunTool, InTool, Asks, AsksOf, ToolInv, OneTool
<1>2. toolRuns' = [toolRuns EXCEPT ![run.cursor] = @ + 1] /\ bounces' = bounces
  BY <1>1 DEF RunTool
<1>3. Pipe!Leave
  BY <1>1, <1>2 DEF Pipe!Leave
<1>4. CASE call[c].at = LastStep /\ EndRun(c, "done")
  <2>1. run'.cursor = run.cursor /\ run'.status = "done"
    BY <1>1, <1>4, EndFacts DEF Ended
  <2>2. Pipe!Complete
    BY <1>1, <1>2, <1>3, <1>4, <2>1 DEF Pipe!Complete
  <2> QED BY <2>2 DEF Pipe!Next
<1>5. CASE call[c].at < LastStep /\ call[c].at + 1 \in Step /\ Moves(c, call[c].at + 1)
  <2>1. run'.cursor = run.cursor + 1 /\ run'.status = run.status
    BY <1>1, <1>5, MoveFacts
  <2>2. Pipe!Advance
    BY <1>1, <1>2, <1>3, <1>5, <2>1 DEF Pipe!Advance
  <2> QED BY <2>2 DEF Pipe!Next
<1> QED BY <1>1, <1>4, <1>5, ToolFacts

\* Every step is a step of the pipeline or leaves it alone.
LEMMA PipeStep ==
  ASSUME Core, ToolInv, PipeInv, [Next]_vars
  PROVE  [Pipe!Next]_(Pipe!pipeline)
<1> USE DEF Core
<1>0. TypeOK /\ Asks /\ run \in Runs /\ call \in [Call -> Calls] /\ task \in [Task -> Tasks]
  BY DEF TypeOK
<1>1. ASSUME UNCHANGED <<run, history>> PROVE [Pipe!Next]_(Pipe!pipeline)
  BY <1>1, PipeJudges DEF history
<1>2. ASSUME NEW c \in Call, call[c].pc # "idle" PROVE run.status # "none"
  BY <1>2 DEF PipeInv, Begun
<1>3. ASSUME UNCHANGED task PROVE SaidGo' = SaidGo
  BY <1>3 DEF SaidGo
<1>4. ASSUME NEW c \in Call, Deciding(c) PROVE [Pipe!Next]_(Pipe!pipeline)
  <2>1. /\ call[c].pc = "decide" /\ run.status # "none" /\ SaidGo' = SaidGo /\ toolRuns' = toolRuns
        /\ call[c].key \in Task /\ task[call[c].key].step = call[c].cursor
    BY <1>2, <1>3, <1>4
       DEF Deciding, Advance, PassGate, KillAtGate, Rewind, SkipStep, FailStep, GateSays, Decides,
           Asks, AsksOf, Created, history
  <2>2. CASE Advance(c) \/ SkipStep(c)
    <3>1. Forward(c) /\ bounces' = bounces /\ call[c].cursor \notin Gates \ Skippable
      BY <2>2 DEF Advance, SkipStep, history
    <3> QED BY <2>1, <3>1, PipeForward
  <2>3. CASE PassGate(c)
    <3>1. Forward(c) /\ bounces' = bounces /\ task[call[c].key].verdict = "go"
      BY <2>3 DEF PassGate, GateSays, GateVerdict, history
    <3>2. call[c].cursor \in SaidGo
      BY <2>1, <3>1 DEF SaidGo
    <3> QED BY <2>1, <3>1, <3>2, PipeForward
  <2>4. CASE KillAtGate(c) \/ FailStep(c)
    <3>1. (EndRun(c, "killed") \/ EndRun(c, "failed")) /\ bounces' = bounces
      BY <2>4 DEF KillAtGate, FailStep, history
    <3> QED BY <2>1, <3>1, PipeAborts
  <2>5. CASE Rewind(c) /\ Unmoved(c)
    <3>1. /\ run' = [run EXCEPT !.cursor = Draft, !.revisions = call[c].revisions + 1]
          /\ bounces' = bounces + 1 /\ run.cursor \in Gates
      BY <2>5 DEF Rewind, Unmoved, GateSays
    <3>2. run'.cursor = Draft /\ run'.status = run.status
      BY <1>0, <3>1 DEF Runs
    <3>3. Pipe!Rewind
      BY <2>1, <3>1, <3>2 DEF Pipe!Rewind
    <3> QED BY <3>3 DEF Pipe!Next
  <2>6. CASE Rewind(c) /\ ~Unmoved(c)
    BY <1>1, <2>1, <2>6 DEF Rewind, history
  <2> QED BY <1>4, <2>2, <2>3, <2>4, <2>5, <2>6 DEF Deciding
<1>5. ASSUME NEW c \in Call, GiveUp(c) PROVE [Pipe!Next]_(Pipe!pipeline)
  <2>1. call[c].key \in Created /\ call[c].key \in Task /\ run.status # "none"
    BY <1>2, <1>5 DEF GiveUp, Asks, AsksOf, Created
  <2>2. Rewritten(call[c].key, "error", task[call[c].key].verdict, task[call[c].key].retries)
    BY <1>0, <1>5, <2>1, Rewrites
  <2>3. SaidGo' = SaidGo
    BY <2>1, <2>2, SaidGoKept DEF Rewritten, VerdictsKept
  <2> QED BY <1>5, <2>1, <2>3, PipeAborts DEF GiveUp, history
<1>6. ASSUME NEW c \in Call, RunTool(c) PROVE [Pipe!Next]_(Pipe!pipeline)
  BY <1>3, <1>6, PipeTool DEF RunTool
<1>7. CASE StartRun
  <2>1. CASE enabled /\ run.status = "none"
    <3>1. run'.status = "running" /\ run'.cursor = run.cursor
      BY <1>0, <1>7, <2>1, StartFacts
    <3>2. Pipe!Start
      BY <1>3, <1>7, <2>1, <3>1 DEF StartRun, history, Pipe!Start
    <3> QED BY <3>2 DEF Pipe!Next
  <2> QED BY <1>1, <1>7, <2>1 DEF StartRun
<1>8. ASSUME NEW c \in Call, RetryStep(c) \/ Spawn(c) \/ Close(c) \/ Throw(c) \/ Expire(c)
      PROVE  [Pipe!Next]_(Pipe!pipeline)
  BY <1>1, <1>8 DEF RetryStep, Spawn, Close, Throw, Expire
<1>9. ASSUME NEW t \in Task, Evaluate(t) \/ Turn(t) \/ UserDone(t) \/ Sweep(t) \/ LoseSend(t)
                             \/ SilentFinish(t)
      PROVE  [Pipe!Next]_(Pipe!pipeline)
  BY <1>1, <1>9
     DEF Evaluate, Turn, StartTurn, Finish, Err, UserDone, Sweep, LoseSend, SilentFinish, Settle
<1>10. ASSUME NEW again \in BOOLEAN, NEW failed, Poll(again, failed)
       PROVE  [Pipe!Next]_(Pipe!pipeline)
  BY <1>1, <1>10 DEF Poll
<1>11. CASE Disable \/ Restart \/ UNCHANGED vars
  BY <1>1, <1>11 DEF Disable, Restart, vars
<1> QED BY <1>4, <1>5, <1>6, <1>7, <1>8, <1>9, <1>10, <1>11 DEF Next, Handle, Deciding

\* Whatever order handlers, late ones included, write the row in, the run moves as its
\* definition says, in any workflow.
THEOREM PipelineRefinement == Spec => RefinesPipeline
<1>1. Init => ToolInv
  BY Facts DEF Init, ToolInv, OneTool, Counted, InTool, Idle
<1>2. Core /\ ToolInv /\ PipeInv /\ [Next]_vars => ToolInv' /\ PipeInv'
  BY ToolStep, PipeInvStep
<1>3. Core /\ ToolInv /\ PipeInv /\ [Next]_vars => [Pipe!Next]_(Pipe!pipeline)
  BY PipeStep
<1> QED BY <1>1, <1>2, <1>3, PipeInit, CoreAlways, PTL DEF Spec, RefinesPipeline, Pipe!Spec

-----------------------------------------------------------------------------
(* The exclusive queues. *)

Holds(c) == call[c].pc # "idle" /\ ~call[c].late

\* A handler that has not been overtaken by an expiry has its job to itself.
Held ==
  /\ \A c \in Call : Holds(c) => job[call[c].key].state = "active"
  /\ \A c, d \in Call : Holds(c) /\ Holds(d) /\ call[c].key = call[d].key => c = d

\* Nobody holds a job that is not active, and one who holds it is alone.
LEMMA HeldFacts ==
  ASSUME Held, NEW k \in Key
  PROVE  /\ job[k].state # "active" => Holders(k) = {}
         /\ \A c \in Call : Holds(c) /\ call[c].key = k => Holders(k) = {c}
BY DEF Held, Holds, Holders

\* A job that is left alone.
LEMMA RowIdles ==
  ASSUME NEW k \in Key, job'[k] = job[k], Holders(k)' \in {Holders(k), {}}
  PROVE  Boss!RowStep(k)
BY DEF Boss!RowStep, Boss!Idles, Boss!Orphaned, QueueRow

\* The job of a task is sent; nothing else is under the task's key.
LEMMA RowSent ==
  ASSUME NEW k \in Key, job[k].state = "free", job'[k] = [FreeJob EXCEPT !.state = "queued"],
         Holders(k)' = {}
  PROVE  Boss!RowStep(k)
<1>1. QueueRow(k) = Boss!Free /\ QueueRow(k)' = Boss!Waiting(k, 0)
  BY DEF QueueRow, FreeJob, Boss!Free, Boss!Waiting
<1>2. \A i \in Key : i # k => QueueRow(i).key # k /\ QueueRow(i)'.key # k
  <2>1. k # NoKey
    BY Facts DEF Key, Wrapper, NoKey
  <2> QED BY <2>1 DEF QueueRow
<1>3. Boss!Sent(k)
  BY <1>1, <1>2 DEF Boss!Sent
<1> QED BY <1>3 DEF Boss!RowStep

\* A job is passed over, or completed by the one who holds it.
LEMMA RowFreed ==
  ASSUME NEW k \in Key, job'[k] = FreeJob, Holders(k)' = {},
         job[k].state \in {"queued", "retry"} \/ (job[k].state = "active" /\ Holders(k) # {})
  PROVE  Boss!RowStep(k)
<1>1. QueueRow(k)' = Boss!Free
  BY DEF QueueRow, FreeJob, Boss!Free
<1>2. Boss!Passed(k) \/ Boss!Completed(k)
  BY <1>1 DEF Boss!Passed, Boss!Completed, QueueRow
<1> QED BY <1>2 DEF Boss!RowStep

\* An active job is given up.
LEMMA RowGivenUp ==
  ASSUME NEW k \in Key, job[k].state = "active", job'[k] = GivenUp(job[k]), Holders(k)' = {}
  PROVE  Boss!RowStep(k)
<1>1. QueueRow(k)' = IF job[k].tries < RetryLimit THEN Boss!Waiting(k, job[k].tries + 1)
                                                  ELSE Boss!Free
  <2>1. CASE job[k].tries < RetryLimit
    BY <2>1 DEF GivenUp, QueueRow, Boss!Waiting
  <2>2. CASE ~(job[k].tries < RetryLimit)
    BY <2>2 DEF GivenUp, FreeJob, QueueRow, Boss!Free
  <2> QED BY <2>1, <2>2
<1>2. QueueRow(k).state = "active" /\ QueueRow(k).key = k /\ QueueRow(k).tries = job[k].tries
  BY DEF QueueRow
<1>3. Boss!GivenUp(k)
  BY <1>1, <1>2 DEF Boss!GivenUp
<1> QED BY <1>3 DEF Boss!RowStep

\* A waiting job is fetched by a handler that was idle.
LEMMA RowFetched ==
  ASSUME TypeOK, Held, NEW k \in Key, NEW c \in Call,
         job[k].state \in {"queued", "retry"}, call[c].pc = "idle", Holds(c)', call'[c].key = k,
         \A d \in Call \ {c} : call'[d] = call[d],
         job'[k] = [job[k] EXCEPT !.state = "active"]
  PROVE  Boss!RowStep(k)
<1>1. Holders(k) = {} /\ Holders(k)' = {c}
  <2>1. Holders(k) = {}
    BY HeldFacts
  <2> QED BY <2>1 DEF Holders, Holds
<1>2. /\ \A i \in Key : c \notin Holders(i)
      /\ \A i \in Key \ {k} : c \notin Holders(i)'
  BY DEF Holders
<1>3. QueueRow(k)' = Boss!Active(QueueRow(k).key, QueueRow(k).tries)
  <2>1. job'[k].state = "active" /\ job'[k].tries = job[k].tries
    BY DEF TypeOK, Jobs
  <2> QED BY <2>1 DEF QueueRow, Boss!Active
<1>4. QueueRow(k).state = "waiting"
  BY DEF QueueRow
<1>5. Boss!Fetched(k, c)
  BY <1>1, <1>2, <1>3, <1>4 DEF Boss!Fetched
<1> QED BY <1>5 DEF Boss!RowStep

\* What a step does to jobs and handlers: one of these.
Stays == \A c \in Call : Holds(c)' = Holds(c) /\ call'[c].key = call[c].key

Leaves(c) ==      \* the handler c lets go of its job, if it holds it still
  /\ ~Holds(c)'
  /\ \A d \in Call \ {c} : call'[d] = call[d]

Takes(k, c) ==
  /\ job[k].state \in {"queued", "retry"} /\ call[c].pc = "idle"
  /\ Holds(c)' /\ call'[c].key = k
  /\ \A d \in Call \ {c} : call'[d] = call[d]
  /\ job' = [job EXCEPT ![k].state = "active"]

Serves(c, row) ==   \* what becomes of the job of the handler c, whose key is k
  job' = IF call[c].late THEN job ELSE [job EXCEPT ![call[c].key] = row]

Sends == \A k \in Key :
  \/ job'[k] = job[k]
  \/ job[k].state = "free" /\ job'[k] = [FreeJob EXCEPT !.state = "queued"]

QueueSteps ==
  \/ Stays /\ job' = job
  \/ Stays /\ Sends
  \/ Stays /\ \E k \in Key : job[k].state \in {"queued", "retry"} /\ job' = [job EXCEPT ![k] = FreeJob]
  \/ \E k \in Key, c \in Call : Takes(k, c)
  \/ \E c \in Call : /\ call[c].pc # "idle" /\ Leaves(c)
                     /\ Serves(c, FreeJob) \/ Serves(c, GivenUp(job[call[c].key]))
  \/ /\ \A c \in Call : ~Holds(c)'
     /\ job' = [k \in Key |-> IF job[k].state = "active" THEN GivenUp(job[k]) ELSE job[k]]

\* Each of them is a step of the queues, and keeps a handler's job its own.
LEMMA QueueStepsServe ==
  ASSUME TypeOK, Held, QueueSteps
  PROVE  Held' /\ \A k \in Key : Boss!RowStep(k)
<1>0. /\ job \in [Key -> Jobs] /\ \A c \in Call : call[c].key \in Key /\ call[c].late \in BOOLEAN
      /\ FreeJob.state = "free"
  BY RunFacts DEF TypeOK, FreeJob
<1>1. ASSUME Stays PROVE \A k \in Key : Holders(k)' = Holders(k)
  <2>1. \A c \in Call : Holds(c)' <=> Holds(c)
    BY <1>1 DEF Stays
  <2> QED BY <1>1, <2>1 DEF Stays, Holders, Holds
<1>2. ASSUME Stays, \A k \in Key : job[k].state = "active" => job'[k] = job[k] PROVE Held'
  <2>1. \A c \in Call : Holds(c)' => Holds(c)
    BY <1>2 DEF Stays
  <2> QED BY <1>0, <1>2, <2>1 DEF Held, Stays
<1>3. CASE Stays /\ job' = job
  BY <1>1, <1>2, <1>3, RowIdles
<1>4. CASE Stays /\ Sends
  <2>1. Held'
    BY <1>2, <1>4 DEF Sends
  <2>2. ASSUME NEW k \in Key PROVE Boss!RowStep(k)
    <3>1. Holders(k)' = Holders(k)
      BY <1>1, <1>4
    <3>2. CASE job'[k] = job[k]
      BY <3>1, <3>2, RowIdles
    <3>3. CASE job[k].state = "free" /\ job'[k] = [FreeJob EXCEPT !.state = "queued"]
      BY <3>1, <3>3, HeldFacts, RowSent
    <3> QED BY <1>4, <3>2, <3>3 DEF Sends
  <2> QED BY <2>1, <2>2
<1>5. ASSUME Stays, NEW j \in Key, job[j].state \in {"queued", "retry"},
             job' = [job EXCEPT ![j] = FreeJob]
      PROVE  Held' /\ \A k \in Key : Boss!RowStep(k)
  <2>1. job'[j] = FreeJob /\ \A k \in Key \ {j} : job'[k] = job[k]
    BY <1>0, <1>5
  <2>2. Held'
    BY <1>2, <1>5, <2>1
  <2>3. ASSUME NEW k \in Key PROVE Boss!RowStep(k)
    <3>1. Holders(k)' = Holders(k)
      BY <1>1, <1>5
    <3>2. CASE k = j
      BY <1>5, <2>1, <3>1, <3>2, HeldFacts, RowFreed
    <3>3. CASE k # j
      BY <2>1, <3>1, <3>3, RowIdles
    <3> QED BY <3>2, <3>3
  <2> QED BY <2>2, <2>3
<1>6. ASSUME NEW j \in Key, NEW c \in Call, Takes(j, c)
      PROVE  Held' /\ \A k \in Key : Boss!RowStep(k)
  <2>1. /\ job'[j] = [job[j] EXCEPT !.state = "active"] /\ job'[j].state = "active"
        /\ \A k \in Key \ {j} : job'[k] = job[k]
    BY <1>0, <1>6 DEF Takes, Jobs
  <2>2. \A d \in Call \ {c} : (Holds(d)' <=> Holds(d)) /\ call'[d] = call[d]
    BY <1>6 DEF Takes, Holds
  <2>3. \A d \in Call : Holds(d) => call[d].key # j
    BY <1>6 DEF Takes, Held
  <2>4. Held'
    <3>1. \A d \in Call : Holds(d)' => job'[call'[d].key].state = "active"
      BY <1>0, <1>6, <2>1, <2>2 DEF Held, Takes
    <3>2. ASSUME NEW d \in Call, NEW e \in Call, Holds(d)', Holds(e)', call'[d].key = call'[e].key
          PROVE  d = e
      BY <1>6, <2>2, <2>3, <3>2 DEF Held, Takes
    <3> QED BY <3>1, <3>2 DEF Held
  <2>5. ASSUME NEW k \in Key, k # j PROVE Boss!RowStep(k)
    <3>1. ~Holds(c) /\ call'[c].key = j
      BY <1>6 DEF Takes, Holds
    <3>2. Holders(k)' = Holders(k)
      BY <2>2, <2>5, <3>1 DEF Holders, Holds
    <3> QED BY <2>1, <2>5, <3>2, RowIdles
  <2>6. Boss!RowStep(j)
    BY <1>6, <2>1, RowFetched DEF Takes
  <2> QED BY <2>4, <2>5, <2>6
<1>7. ASSUME NEW c \in Call, call[c].pc # "idle", Leaves(c), NEW row,
             row \in {FreeJob, GivenUp(job[call[c].key])}, Serves(c, row)
      PROVE  Held' /\ \A k \in Key : Boss!RowStep(k)
  <2>0. PICK own \in Key : own = call[c].key
    BY <1>0
  <2>1. /\ own \in Key /\ own = call[c].key
        /\ \A d \in Call : Holds(d)' => d # c /\ Holds(d) /\ call'[d] = call[d]
    BY <1>0, <1>7, <2>0 DEF Leaves, Holds
  <2>2. Holds(c) <=> ~call[c].late
    BY <1>7 DEF Holds
  <2>3. /\ ~Holds(c) => job' = job
        /\ Holds(c) => job'[own] = row /\ \A k \in Key \ {own} : job'[k] = job[k]
    BY <1>0, <1>7, <2>1, <2>2 DEF Serves
  <2>4. Held'
    <3>1. ASSUME NEW d \in Call, Holds(d)' PROVE job'[call'[d].key].state = "active"
      <4>1. Holds(d) /\ d # c /\ call'[d] = call[d] /\ call[d].key \in Key
        BY <1>0, <2>1, <3>1
      <4>2. Holds(c) => call[d].key # own
        BY <2>1, <4>1 DEF Held
      <4> QED BY <2>3, <4>1, <4>2 DEF Held
    <3>2. ASSUME NEW d \in Call, NEW e \in Call, Holds(d)', Holds(e)', call'[d].key = call'[e].key
          PROVE  d = e
      BY <2>1, <3>2 DEF Held
    <3> QED BY <3>1, <3>2 DEF Held
  <2>5. ASSUME NEW k \in Key, ~Holds(c) \/ k # own PROVE Boss!RowStep(k)
    <3>1. Holders(k)' = Holders(k)
      <4>1. \A d \in Call \ {c} : call'[d] = call[d]
        BY <1>7 DEF Leaves
      <4>2. c \notin Holders(k) /\ c \notin Holders(k)'
        BY <1>7, <2>1, <2>5 DEF Leaves, Holders, Holds
      <4> QED BY <4>1, <4>2 DEF Holders
    <3>2. job'[k] = job[k]
      BY <2>3, <2>5
    <3> QED BY <3>1, <3>2, RowIdles
  <2>6. ASSUME Holds(c) PROVE Boss!RowStep(own)
    <3>1. job[own].state = "active" /\ Holders(own) = {c}
      BY <2>1, <2>6, HeldFacts DEF Held
    <3>2. Holders(own)' = {}
      <4>1. \A d \in Call : Holds(d)' => call'[d].key # own
        BY <2>1, <2>6 DEF Held
      <4> QED BY <4>1 DEF Holders, Holds
    <3>3. job'[own] = row
      BY <2>3, <2>6
    <3>4. CASE row = FreeJob
      BY <2>1, <3>1, <3>2, <3>3, <3>4, RowFreed
    <3>5. CASE row = GivenUp(job[own])
      BY <2>1, <3>1, <3>2, <3>3, <3>5, RowGivenUp
    <3> QED BY <1>7, <2>1, <3>4, <3>5
  <2> QED BY <2>1, <2>4, <2>5, <2>6
<1>8. CASE /\ \A c \in Call : ~Holds(c)'
           /\ job' = [k \in Key |-> IF job[k].state = "active" THEN GivenUp(job[k]) ELSE job[k]]
  <2>1. Held'
    BY <1>8 DEF Held
  <2>2. ASSUME NEW k \in Key PROVE Boss!RowStep(k)
    <3>1. Holders(k)' = {}
      BY <1>8 DEF Holders, Holds
    <3>2. CASE job[k].state = "active"
      BY <1>8, <3>1, <3>2, RowGivenUp
    <3>3. CASE job[k].state # "active"
      BY <1>8, <3>1, <3>3, RowIdles
    <3> QED BY <3>2, <3>3
  <2> QED BY <2>1, <2>2
<1> QED
  <2>1. ASSUME NEW c \in Call, call[c].pc # "idle", Leaves(c),
               Serves(c, FreeJob) \/ Serves(c, GivenUp(job[call[c].key]))
        PROVE  Held' /\ \A k \in Key : Boss!RowStep(k)
    BY <1>7, <2>1
  <2> QED BY <1>3, <1>4, <1>5, <1>6, <1>8, <2>1 DEF QueueSteps

\* The steps that leave handlers and jobs alone.
LEMMA Apart ==
  ASSUME UNCHANGED <<call, job>>
  PROVE  QueueSteps
BY DEF QueueSteps, Stays, Holds

\* A handler that goes on keeps its job.
LEMMA GoesOn ==
  ASSUME TypeOK, NEW c \in Call, NEW pc \in Pcs \ {"idle"}, call[c].pc # "idle",
         Goto(c, pc) \/ \E at \in Step : GotoAt(c, pc, at), UNCHANGED job
  PROVE  QueueSteps
<1>1. call \in [Call -> Calls]
  BY DEF TypeOK
<1>2. /\ \A d \in Call \ {c} : call'[d] = call[d]
      /\ call'[c].pc = pc /\ call'[c].key = call[c].key /\ call'[c].late = call[c].late
  BY <1>1, GotoFacts, GotoAtFacts
<1>3. Stays
  BY <1>2 DEF Stays, Holds
<1> QED BY <1>3 DEF QueueSteps

\* A handler that returns completes its job.
LEMMA ReturnServes ==
  ASSUME TypeOK, NEW c \in Call, call[c].pc # "idle", Return(c)
  PROVE  QueueSteps
<1>1. call'[c] = Idle /\ \A d \in Call \ {c} : call'[d] = call[d]
  BY ReturnFacts DEF TypeOK
<1>2. Leaves(c)
  BY <1>1 DEF Leaves, Holds, Idle
<1>3. Serves(c, FreeJob)
  BY DEF Return, Serves
<1> QED BY <1>2, <1>3 DEF QueueSteps

\* Every step does to handlers and jobs one of the things said above.
LEMMA StepsServe ==
  ASSUME Core, [Next]_vars
  PROVE  QueueSteps
<1>0. TypeOK /\ Asks /\ call \in [Call -> Calls] /\ job \in [Key -> Jobs]
  BY DEF Core, TypeOK
<1>1. ASSUME NEW c \in Call, Handle(c) PROVE QueueSteps
  <2>1. call[c].pc # "idle"
    BY <1>1
    DEF Handle, Advance, PassGate, KillAtGate, Rewind, SkipStep, FailStep, GateSays, Decides,
        RetryStep, GiveUp, Spawn, RunTool, Close
  <2>2. ASSUME NEW s, EndRun(c, s) PROVE QueueSteps
    BY <1>0, <2>1, <2>2, GoesOn DEF EndRun, Pcs
  <2>3. ASSUME Return(c) PROVE QueueSteps
    BY <1>0, <2>1, <2>3, ReturnServes
  <2>4. ASSUME NEW pc \in {"spawn", "tool"}, NEW at \in Step, GotoAt(c, pc, at), UNCHANGED job
        PROVE  QueueSteps
    BY <1>0, <2>1, <2>4, GoesOn DEF Pcs
  <2>5. ASSUME NEW n \in Nat, n \notin Step, ~PastEnd(n) PROVE FALSE
    BY <2>5, Facts DEF PastEnd, Step
  <2>6. CASE Forward(c)
    <3>1. call[c].cursor + 1 \in Nat
      <4>1. \A n \in Nat : n + 1 \in Nat
        OBVIOUS
      <4>2. call[c].cursor \in Nat
        BY <1>0, RunFacts, Facts
      <4> QED BY <4>1, <4>2
    <3> QED BY <2>2, <2>3, <2>4, <2>5, <2>6, <3>1 DEF Forward
  <2>7. CASE Rewind(c)
    BY <2>3, <2>4, <2>7, Facts DEF Rewind
  <2>8. CASE RetryStep(c)
    <3>1. CASE Return(c)
      BY <2>3, <3>1
    <3>2. CASE Goto(c, "giveup") /\ UNCHANGED job
      BY <1>0, <2>1, <3>2, GoesOn DEF Pcs
    <3> QED BY <2>8, <3>1, <3>2 DEF RetryStep
  <2>9. CASE Spawn(c) \/ Close(c)
    BY <2>3, <2>9 DEF Spawn, Close
  <2>10. CASE RunTool(c)
    <3>1. call[c].at + 1 \in Nat
      <4>1. \A n \in Nat : n + 1 \in Nat
        OBVIOUS
      <4>2. call[c].at \in Nat
        BY <1>0, RunFacts, Facts
      <4> QED BY <4>1, <4>2
    <3> QED BY <2>2, <2>4, <2>5, <2>10, <3>1 DEF RunTool
  <2> QED
    BY <1>1, <2>2, <2>6, <2>7, <2>8, <2>9, <2>10
    DEF Handle, Advance, PassGate, KillAtGate, SkipStep, FailStep, GiveUp
<1>2. ASSUME NEW c \in Call, Throw(c) \/ Expire(c) PROVE QueueSteps
  <2>1. call[c].pc # "idle" /\ call[c] \in Calls
    BY <1>0, <1>2 DEF Throw, Expire
  <2>2. Serves(c, GivenUp(job[call[c].key]))
    BY <1>2 DEF Throw, Expire, Serves
  <2>3. Leaves(c)
    <3>1. CASE Throw(c)
      BY <1>0, <3>1 DEF Throw, Leaves, Holds, Idle
    <3>2. CASE Expire(c)
      BY <1>0, <2>1, <3>2 DEF Expire, Leaves, Holds, Calls
    <3> QED BY <1>2, <3>1, <3>2
  <2> QED BY <2>1, <2>2, <2>3 DEF QueueSteps
<1>3. CASE StartRun
  <2>1. CASE enabled /\ run.status = "none"
    <3>1. PICK c \in Call : c = FreeCall
      BY <1>0, <1>3, <2>1, StartFacts
    <3>2. /\ call[c].pc = "idle" /\ \A d \in Call \ {c} : call'[d] = call[d]
          /\ call'[c].pc = "spawn" /\ ~call'[c].late /\ call'[c].key = Wrapper
      BY <1>0, <1>3, <2>1, <3>1, StartFacts
    <3>3. job' = [job EXCEPT ![Wrapper].state = "active"] /\ job[Wrapper].state \in {"queued", "retry"}
      BY <1>3, <2>1 DEF StartRun, Taken
    <3>4. Takes(Wrapper, c)
      BY <3>2, <3>3 DEF Takes, Holds
    <3> QED BY <3>4, Facts DEF QueueSteps
  <2>2. CASE ~(enabled /\ run.status = "none")
    <3>1. /\ call' = call /\ job' = [job EXCEPT ![Wrapper] = FreeJob]
          /\ job[Wrapper].state \in {"queued", "retry"}
      BY <1>3, <2>2 DEF StartRun, Taken
    <3> QED BY <3>1, Facts DEF QueueSteps, Stays, Holds
  <2> QED BY <2>1, <2>2
<1>4. ASSUME NEW t \in Task, Evaluate(t) PROVE QueueSteps
  <2>1. CASE IsAtCursor(t)
    <3>1. PICK c \in Call : c = FreeCall
      BY <1>0, <1>4, <2>1, EvaluateFacts
    <3>2. /\ call[c].pc = "idle" /\ \A d \in Call \ {c} : call'[d] = call[d]
          /\ call'[c].pc = "decide" /\ ~call'[c].late /\ call'[c].key = t
      BY <1>0, <1>4, <2>1, <3>1, EvaluateFacts
    <3>3. job' = [job EXCEPT ![t].state = "active"] /\ job[t].state \in {"queued", "retry"}
      BY <1>4, <2>1 DEF Evaluate, Taken
    <3>4. Takes(t, c)
      BY <3>2, <3>3 DEF Takes, Holds
    <3> QED BY <3>4, Facts DEF QueueSteps
  <2>2. CASE ~IsAtCursor(t)
    <3>1. /\ call' = call /\ job' = [job EXCEPT ![t] = FreeJob]
          /\ job[t].state \in {"queued", "retry"}
      BY <1>4, <2>2 DEF Evaluate, Taken
    <3> QED BY <3>1, Facts DEF QueueSteps, Stays, Holds
  <2> QED BY <2>1, <2>2
<1>5. ASSUME NEW again \in BOOLEAN, NEW failed, Poll(again, failed) PROVE QueueSteps
  <2>1. Sends
    BY <1>0, <1>5 DEF Poll, Sends
  <2>2. Stays
    BY <1>5 DEF Poll, Stays, Holds
  <2> QED BY <2>1, <2>2 DEF QueueSteps
<1>6. ASSUME NEW t \in Task, Turn(t) \/ UserDone(t) \/ Sweep(t) \/ LoseSend(t) \/ SilentFinish(t)
      PROVE  QueueSteps
  BY <1>6, Apart
     DEF Turn, StartTurn, Finish, Err, UserDone, Sweep, LoseSend, SilentFinish, Settle
<1>7. CASE Restart
  <2>1. \A c \in Call : ~Holds(c)'
    BY <1>7 DEF Restart, Holds, Idle
  <2> QED BY <1>7, <2>1 DEF Restart, QueueSteps
<1>8. CASE Disable \/ UNCHANGED vars
  BY <1>8, Apart DEF Disable, vars
<1> QED BY <1>1, <1>2, <1>3, <1>4, <1>5, <1>6, <1>7, <1>8 DEF Next

\* The two workers and the poller use their queues as exclusive queues may be used.
THEOREM QueueRefinement == Spec => RefinesQueue
<1>1. Init => Held /\ Boss!Init
  <2> SUFFICES ASSUME Init PROVE Held /\ Boss!Init
    OBVIOUS
  <2>1. \A k \in Key : /\ Holders(k) = {} /\ Boss!Free = [state |-> "free", key |-> NoKey, tries |-> 0]
                       /\ QueueRow(k) = IF k = Wrapper THEN Boss!Waiting(k, 0) ELSE Boss!Free
    BY DEF Init, Holders, Idle, QueueRow, FreeJob, Boss!Free, Boss!Waiting
  <2>2. /\ \A k \in Key : QueueRow(k) \in {Boss!Free} \cup {Boss!Waiting(i, 0) : i \in Key}
        /\ \A i, j \in Key : QueueRow(i) # Boss!Free /\ QueueRow(i) = QueueRow(j) => i = j
    BY <2>1
  <2>3. Held
    BY DEF Init, Held, Holds, Idle
  <2> QED BY <2>1, <2>2, <2>3 DEF Boss!Init
<1>2. Core /\ Held /\ [Next]_vars => Held' /\ [Boss!Next]_(Boss!queue)
  BY StepsServe, QueueStepsServe DEF Core, Boss!Next
<1> QED BY <1>1, <1>2, CoreAlways, PTL DEF Spec, RefinesQueue, Boss!Spec
=============================================================================
