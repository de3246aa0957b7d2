----------------------------- MODULE WorkflowRun -----------------------------
(***************************************************************************)
(* One run of a sequential workflow: the run row with its cursor, the      *)
(* step tasks, the `workflow.start` and `workflow.evaluate` jobs, and the  *)
(* poller that turns done and error events of tasks into evaluations.      *)
(*                                                                         *)
(* Every evaluation is a call that remembers the run row it has read;      *)
(* between two of its statements anything else may happen.  The dispatch   *)
(* of a step task is reduced to a turn; TaskDispatch has the rest.         *)
(***************************************************************************)
EXTENDS Integers, Sequences, FiniteSets

CONSTANTS
  LastStep,             \* the definition's steps are 0..LastStep
  Gates, Tools,         \* the steps of kind gate and tool; the others spawn work
  Skippable, Fatal,     \* on_error skip and fail_run; the others retry
  Draft,                \* the step a gate's FAIL rewinds to
  MaxRevisions,         \* caps.max_revisions
  MaxStepRetries,       \* MAX_STEP_RETRIES
  RetryLimit,           \* retryLimit of the two queues
  MaxTasks,             \* bound: step tasks ever created
  Call,                 \* bound: evaluations in flight, forgotten ones included
  MaxFaults,            \* bound: handlers that throw or expire, restarts, lost sends and events
  MaxRequests           \* bound: turns that fail, and what users do

Step == 0..LastStep
Task == 1..MaxTasks
Wrapper == 0           \* the routine's task the run hangs under
Key == {Wrapper} \cup Task

ASSUME WorkflowAssumption ==
  /\ {LastStep, MaxRevisions, MaxStepRetries, RetryLimit, MaxTasks,
      MaxFaults, MaxRequests} \subseteq Nat
  /\ Gates \cup Tools \cup Skippable \cup Fatal \subseteq Step
  /\ Gates \cap Tools = {} /\ Skippable \cap Fatal = {}
  /\ 0 \notin Tools
  /\ Draft \in Step \ Tools
  /\ \A g \in Gates : Draft <= g

VARIABLES
  run,        \* the row: status, currentStepIndex, reviseCount
  container,  \* status of the wrapper task
  task,       \* the step tasks, in the order of their creation
  sent,       \* step tasks with a dispatch queued
  job,        \* the wrapper's start job and each step task's evaluation
  call,       \* handlers at work
  log,        \* task_status_changed events to done or error
  seen,       \* how many of them the poller has passed
  enabled,    \* the workflow is enabled
  bounces,    \* gate failures that rewound the run (history)
  toolRuns,   \* executions of each tool step (history)
  faults, requests

poller == <<log, seen>>
history == <<bounces, toolRuns>>
bounds == <<faults, requests>>
vars == <<run, container, task, sent, job, call, poller, enabled, history, bounds>>

-----------------------------------------------------------------------------
(* Vocabulary. *)

Ended == {"done", "killed", "failed"}
Verdict == {"none", "go", "kill"}      \* fail reads as no verdict does

Runs == [status : {"none", "running"} \cup Ended, cursor : Step, revisions : Nat]

Unused == [status |-> "unused", step |-> 0, verdict |-> "none", retries |-> 0, linked |-> FALSE]
Tasks == {Unused} \cup
  [status : {"todo", "in_progress", "done", "error"}, step : Step, verdict : Verdict,
   retries : Nat, linked : BOOLEAN]

Jobs == [state : {"free", "queued", "active", "retry"}, tries : Nat]
FreeJob == [state |-> "free", tries |-> 0]

\* at is the step to spawn or to run; cursor and revisions are the row as it was read.
Idle == [pc |-> "idle", key |-> Wrapper, late |-> FALSE, errored |-> FALSE,
         cursor |-> 0, revisions |-> 0, at |-> 0]
Calls == [pc : {"idle", "decide", "giveup", "spawn", "tool", "close"}, key : Key,
          late : BOOLEAN, errored : BOOLEAN, cursor : Step, revisions : Nat, at : Step]

Live == {t \in Task : task[t].status \in {"todo", "in_progress"}}
Created == {t \in Task : task[t].status # "unused"}

Fault == faults < MaxFaults /\ faults' = faults + 1 /\ UNCHANGED requests
Request == requests < MaxRequests /\ requests' = requests + 1 /\ UNCHANGED faults

Goto(c, pc) == call' = [call EXCEPT ![c].pc = pc]
GotoAt(c, pc, at) == call' = [call EXCEPT ![c].pc = pc, ![c].at = at]

\* The handler returns; its job is complete unless it has expired meanwhile.
Return(c) ==
  /\ call' = [call EXCEPT ![c] = Idle]
  /\ job' = IF call[c].late THEN job ELSE [job EXCEPT ![call[c].key] = FreeJob]

\* A job given up by its worker.
GivenUp(j) == IF j.tries < RetryLimit
              THEN [state |-> "retry", tries |-> j.tries + 1] ELSE FreeJob

-----------------------------------------------------------------------------
(* A routine has fired: the wrapper exists and the start job is queued. *)

Init ==
  /\ run = [status |-> "none", cursor |-> 0, revisions |-> 0]
  /\ container = "in_progress"
  /\ task = [t \in Task |-> Unused]
  /\ sent = {}
  /\ job = [k \in Key |-> IF k = Wrapper THEN [FreeJob EXCEPT !.state = "queued"] ELSE FreeJob]
  /\ call = [c \in Call |-> Idle]
  /\ log = <<>> /\ seen = 0
  /\ enabled = TRUE
  /\ bounces = 0 /\ toolRuns = [s \in Tools |-> 0]
  /\ faults = 0 /\ requests = 0

-----------------------------------------------------------------------------
(* Handlers: the start of the run, and the evaluation of a step task. *)

FreeCall == CHOOSE c \in Call : call[c].pc = "idle"

Taken(k) ==
  /\ job[k].state \in {"queued", "retry"}
  /\ \E c \in Call : call[c].pc = "idle"

IsAtCursorUnchecked(t) == enabled /\ run.status = "running"   \* slip: any step's event

\* Only the completion whose step index matches the cursor goes on.
IsAtCursor(t) == enabled /\ run.status = "running" /\ task[t].step = run.cursor

\* startWorkflowRun: a wrapper whose run exists is left alone.
StartRun ==
  /\ Taken(Wrapper)
  /\ IF enabled /\ run.status = "none"
     THEN /\ run' = [run EXCEPT !.status = "running"]
          /\ job' = [job EXCEPT ![Wrapper].state = "active"]
          /\ call' = [call EXCEPT ![FreeCall] = [Idle EXCEPT !.pc = "spawn"]]
     ELSE job' = [job EXCEPT ![Wrapper] = FreeJob] /\ UNCHANGED <<run, call>>
  /\ UNCHANGED <<container, task, sent, poller, enabled, history, bounds>>

\* An evaluation reads the task's row and then the run's: taken as one step.
Evaluate(t) ==
  /\ Taken(t)
  /\ IF IsAtCursor(t)
     THEN /\ job' = [job EXCEPT ![t].state = "active"]
          /\ call' = [call EXCEPT ![FreeCall] =
               [Idle EXCEPT !.pc = "decide", !.key = t, !.errored = task[t].status = "error",
                            !.cursor = run.cursor, !.revisions = run.revisions]]
     ELSE job' = [job EXCEPT ![t] = FreeJob] /\ UNCHANGED call
  /\ UNCHANGED <<run, container, task, sent, poller, enabled, history, bounds>>

UnmovedOrNot(c) == TRUE              \* slip: the cursor written without the compare

\* The compare of every compare-and-set on the cursor.
Unmoved(c) == run.cursor = call[c].cursor

\* finishRun, killRun, failRun: the status is written whatever it was.
EndRun(c, status) == run' = [run EXCEPT !.status = status] /\ Goto(c, "close") /\ UNCHANGED job

PastEndLate(s) == s > LastStep + 1   \* slip: off by one

PastEndEarly(s) == s >= LastStep       \* slip: the last step is taken for the end

PastEnd(s) == s > LastStep

\* The run goes past the step at the cursor it was read with.
Forward(c) ==
  LET next == call[c].cursor + 1 IN
  \/ PastEnd(next) /\ EndRun(c, "done")
  \/ /\ ~PastEnd(next) /\ Unmoved(c)
     /\ run' = [run EXCEPT !.cursor = next]
     /\ GotoAt(c, IF next \in Tools THEN "tool" ELSE "spawn", next)
     /\ UNCHANGED job
  \/ ~PastEnd(next) /\ ~Unmoved(c) /\ Return(c) /\ UNCHANGED run

Decides(c, errored) == call[c].pc = "decide" /\ call[c].errored = errored

Advance(c) ==
  /\ Decides(c, FALSE) /\ call[c].cursor \notin Gates
  /\ Forward(c)
  /\ UNCHANGED <<container, task, sent, poller, enabled, history, bounds>>

VerdictDefaultsToGo(t) ==            \* slip: a gate without a verdict passes
  IF task[t].verdict = "none" THEN "go" ELSE task[t].verdict

\* loadGateVerdict: a gate that has given no verdict fails.
GateVerdict(t) == IF task[t].verdict = "none" THEN "fail" ELSE task[t].verdict

GateSays(c, verdict) ==
  /\ Decides(c, FALSE) /\ call[c].cursor \in Gates
  /\ GateVerdict(call[c].key) = verdict

PassGate(c) ==
  /\ GateSays(c, "go")
  /\ Forward(c)
  /\ UNCHANGED <<container, task, sent, poller, enabled, history, bounds>>

AtCap(c) == call[c].revisions >= MaxRevisions

KillAtGate(c) ==
  /\ GateSays(c, "kill") \/ (GateSays(c, "fail") /\ AtCap(c))
  /\ EndRun(c, "killed")
  /\ UNCHANGED <<container, task, sent, poller, enabled, history, bounds>>

Rewind(c) ==
  /\ GateSays(c, "fail") /\ ~AtCap(c)
  /\ IF Unmoved(c)
     THEN /\ run' = [run EXCEPT !.cursor = Draft, !.revisions = call[c].revisions + 1]
          /\ GotoAt(c, "spawn", Draft)
          /\ bounces' = bounces + 1
          /\ UNCHANGED job
     ELSE Return(c) /\ UNCHANGED <<run, bounces>>
  /\ UNCHANGED <<container, task, sent, poller, enabled, toolRuns, bounds>>

SkipStep(c) ==
  /\ Decides(c, TRUE) /\ call[c].cursor \in Skippable
  /\ Forward(c)
  /\ UNCHANGED <<container, task, sent, poller, enabled, history, bounds>>

FailStep(c) ==
  /\ Decides(c, TRUE) /\ call[c].cursor \in Fatal
  /\ EndRun(c, "failed")
  /\ UNCHANGED <<container, task, sent, poller, enabled, history, bounds>>

\* The claim: the same task goes back to todo with its link, unless it is no longer in
\* error; past the cap the call gives up.
RetryStep(c) ==
  LET t == call[c].key IN
  /\ Decides(c, TRUE) /\ call[c].cursor \notin Skippable \cup Fatal
  /\ IF task[t].status # "error" THEN Return(c) /\ UNCHANGED <<task, sent>>
     ELSE /\ task' = [task EXCEPT ![t].status = "todo", ![t].retries = @ + 1]
          /\ IF task[t].retries + 1 > MaxStepRetries
             THEN Goto(c, "giveup") /\ UNCHANGED <<job, sent>>
             ELSE Return(c) /\ sent' = sent \cup {t}
  /\ UNCHANGED <<run, container, poller, enabled, history, bounds>>

GiveUp(c) ==
  /\ call[c].pc = "giveup"
  /\ task' = [task EXCEPT ![call[c].key].status = "error"]
  /\ EndRun(c, "failed")
  /\ UNCHANGED <<container, sent, poller, enabled, history, bounds>>

\* spawnSequentialStep, with the detached send of the new task's dispatch.
Spawn(c) ==
  /\ call[c].pc = "spawn" /\ Cardinality(Created) < MaxTasks
  /\ LET t == Cardinality(Created) + 1 IN
     /\ task' = [task EXCEPT ![t] = [Unused EXCEPT !.status = "todo", !.step = call[c].at]]
     /\ sent' = sent \cup {t}
  /\ Return(c)
  /\ UNCHANGED <<run, container, poller, enabled, history, bounds>>

\* runToolStepsFrom: the tool is invoked, the cursor then moves without a compare.
RunTool(c) ==
  LET next == call[c].at + 1 IN
  /\ call[c].pc = "tool"
  /\ toolRuns' = [toolRuns EXCEPT ![call[c].at] = @ + 1]
  /\ IF PastEnd(next) THEN EndRun(c, "done")
     ELSE /\ run' = [run EXCEPT !.cursor = next]
          /\ GotoAt(c, IF next \in Tools THEN "tool" ELSE "spawn", next)
          /\ UNCHANGED job
  /\ UNCHANGED <<container, task, sent, poller, enabled, bounces, bounds>>

ClosedAs == "in_progress"             \* slip: the wrapper left open

ClosedContainer == "done"

\* closeRunContainer, a statement of its own after the run's status.
Close(c) ==
  /\ call[c].pc = "close"
  /\ container' = ClosedContainer
  /\ Return(c)
  /\ UNCHANGED <<run, task, sent, poller, enabled, history, bounds>>

Handle(c) ==
  \/ Advance(c) \/ PassGate(c) \/ KillAtGate(c) \/ Rewind(c)
  \/ SkipStep(c) \/ FailStep(c) \/ RetryStep(c) \/ GiveUp(c) \/ Spawn(c) \/ RunTool(c) \/ Close(c)

-----------------------------------------------------------------------------
(* The step tasks: dispatch and turn, users, and the sweep. *)

StartTurn(t) ==
  /\ t \in sent
  /\ sent' = sent \ {t}
  /\ task' = IF task[t].status # "todo" THEN task
             ELSE [task EXCEPT ![t].status = "in_progress", ![t].linked = TRUE]
  /\ UNCHANGED <<run, container, job, call, poller, enabled, history, bounds>>

\* A task's row and the event of its change.
Settle(t, row) ==
  /\ task' = [task EXCEPT ![t] = row]
  /\ log' = Append(log, t)
  /\ UNCHANGED <<run, container, sent, job, call, seen, enabled, history>>

\* An agent's turn takes longer than the queue needs for a fresh evaluation: a timing
\* assumption, of which retried jobs and handlers past their expiry are free.
Quiet == /\ \A k \in Key : job[k].state # "queued"
         /\ \A c \in Call : call[c].pc = "idle" \/ call[c].late

Finish(t, verdict) ==
  /\ task[t].status = "in_progress" /\ Quiet
  /\ verdict # "none" => task[t].step \in Gates
  /\ Settle(t, [task[t] EXCEPT !.status = "done", !.verdict = verdict, !.linked = FALSE])
  /\ UNCHANGED bounds

\* closeFailedTrace keeps the link.
Err(t) ==
  /\ task[t].status = "in_progress" /\ Quiet /\ Request
  /\ Settle(t, [task[t] EXCEPT !.status = "error"])

\* Events are best effort: the task is done, and nobody hears of it.
SilentFinish(t) ==
  /\ task[t].status = "in_progress" /\ Fault
  /\ task' = [task EXCEPT ![t].status = "done", ![t].linked = FALSE]
  /\ UNCHANGED <<run, container, sent, job, call, poller, enabled, history>>

UserDone(t) ==
  /\ task[t].status = "todo" /\ Request
  /\ Settle(t, [task[t] EXCEPT !.status = "done"])

Disable ==
  /\ enabled /\ Request
  /\ enabled' = FALSE
  /\ UNCHANGED <<run, container, task, sent, job, call, poller, history>>

\* enqueuePendingTasks skips rows that have a link.
Sweep(t) ==
  /\ task[t].status = "todo" /\ ~task[t].linked /\ t \notin sent
  /\ sent' = sent \cup {t}
  /\ UNCHANGED <<run, container, task, job, call, poller, enabled, history, bounds>>

-----------------------------------------------------------------------------
(* The poller, and what may go wrong. *)

\* The tasks whose events a tick reads.  The 300 ms backstep makes it read the newest event
\* it has seen again and again, until an event of another run is the newest.
Batch(again) == {log[i] : i \in (IF again /\ seen > 0 THEN seen ELSE seen + 1)..Len(log)}

\* A tick: a send whose key is taken is dropped, one that fails is passed over too.
Poll(again, failed) ==
  LET batch == Batch(again) IN
  /\ failed \subseteq batch
  /\ seen < Len(log) \/ \E t \in batch : job[t].state = "free"
  /\ job' = [k \in Key |-> IF k \in batch \ failed /\ job[k].state = "free"
                           THEN [FreeJob EXCEPT !.state = "queued"] ELSE job[k]]
  /\ seen' = Len(log)
  /\ IF failed = {} THEN UNCHANGED bounds ELSE Fault
  /\ UNCHANGED <<run, container, task, sent, call, log, enabled, history>>

\* A detached send of a dispatch fails, or dies with the server.
LoseSend(t) ==
  /\ t \in sent /\ Fault
  /\ sent' = sent \ {t}
  /\ UNCHANGED <<run, container, task, job, call, poller, enabled, history>>

Throw(c) ==
  /\ call[c].pc # "idle" /\ Fault
  /\ call' = [call EXCEPT ![c] = Idle]
  /\ job' = IF call[c].late THEN job ELSE [job EXCEPT ![call[c].key] = GivenUp(@)]
  /\ UNCHANGED <<run, container, task, sent, poller, enabled, history>>

\* The job expires under a handler that goes on.
Expire(c) ==
  /\ call[c].pc # "idle" /\ ~call[c].late /\ Fault
  /\ call' = [call EXCEPT ![c].late = TRUE]
  /\ job' = [job EXCEPT ![call[c].key] = GivenUp(@)]
  /\ UNCHANGED <<run, container, task, sent, poller, enabled, history>>

Dead(t) == task[t].status = "in_progress"

\* The server dies and boots: active jobs expire, turns are given up and sent out again,
\* and the poller starts anywhere, its window being five minutes of a log of any age.
Restart ==
  /\ run.status # "none" /\ Fault
  /\ call' = [c \in Call |-> Idle]
  /\ job' = [k \in Key |-> IF job[k].state = "active" THEN GivenUp(job[k]) ELSE job[k]]
  /\ task' = [t \in Task |-> IF Dead(t) THEN [task[t] EXCEPT !.status = "todo", !.linked = FALSE]
                             ELSE task[t]]
  /\ sent' = sent \cup {t \in Task : Dead(t) \/ (task[t].status = "todo" /\ ~task[t].linked)}
  /\ seen' \in 0..Len(log)
  /\ UNCHANGED <<run, container, log, enabled, history>>

-----------------------------------------------------------------------------
Turn(t) == StartTurn(t) \/ (\E v \in Verdict : Finish(t, v)) \/ Err(t)

Next ==
  \/ StartRun
  \/ \E c \in Call : Handle(c) \/ Throw(c) \/ Expire(c)
  \/ \E t \in Task : Evaluate(t) \/ Turn(t) \/ UserDone(t) \/ Sweep(t) \/ LoseSend(t)
                      \/ SilentFinish(t)
  \/ \E again \in BOOLEAN : \E failed \in {{}} \cup {{t} : t \in Batch(again)} : Poll(again, failed)
  \/ Disable \/ Restart

\* The workers and the poller run, a turn ends (the wait for an agent is bounded; the queue
\* is idle most of the ten seconds between two ticks) and the sweep comes round.  An
\* evaluation is fair for each task, the rest only among all of them.
Fairness ==
  /\ WF_vars(StartRun) /\ WF_vars(Poll(FALSE, {})) /\ WF_vars(\E c \in Call : Handle(c))
  /\ \A t \in Task : WF_vars(Evaluate(t))
  /\ WF_vars(\E t \in Task : StartTurn(t)) /\ WF_vars(\E t \in Task : Sweep(t))
  /\ SF_vars(\E t \in Task, v \in Verdict : Finish(t, v))

Spec == Init /\ [][Next]_vars
LiveSpec == Spec /\ Fairness

-----------------------------------------------------------------------------
(* Properties. *)

TypeOK ==
  /\ run \in Runs /\ container \in {"in_progress", "done"}
  /\ task \in [Task -> Tasks] /\ sent \subseteq Task
  /\ job \in [Key -> Jobs] /\ call \in [Call -> Calls]
  /\ log \in Seq(Task) /\ seen \in 0..Len(log)
  /\ enabled \in BOOLEAN /\ bounces \in Nat /\ toolRuns \in [Tools -> Nat]
  /\ faults \in 0..MaxFaults /\ requests \in 0..MaxRequests

\* "An unreviewed piece never advances toward publish": the cursor is beyond a gate, or the
\* run is done, only if a task of that gate said go; whatever fails, expires or restarts.
GatePassedOnGo ==
  \A g \in Gates \ Skippable :
    run.cursor > g \/ run.status = "done" => \E t \in Task : task[t].step = g /\ task[t].verdict = "go"

\* A tool (publish) runs once, and once more for each time a gate has rewound the run:
\* neither a retried job nor a handler past its expiry repeats it.
ToolOncePerPass == \A s \in Tools : toolRuns[s] <= 1 + bounces

\* Nothing has failed, no step was retried and no gate has rewound the run: from then on
\* the poller's repeated events find their step at the cursor again.
Straight == faults = 0 /\ bounces = 0 /\ \A t \in Task : task[t].retries = 0

\* Of a run that goes straight one step at most is alive, and it is the one at the cursor.
OneLiveStep ==
  Straight /\ run.status = "running" =>
    Cardinality(Live) <= 1 /\ \A t \in Live : task[t].step = run.cursor

\* "Re-enqueues from the poller are therefore harmless": while nothing fails and no user
\* interferes, what is at work in a running run is the step at its cursor.
LiveStepAtCursor ==
  faults = 0 /\ requests = 0 /\ run.status = "running" =>
    \A t \in Live : task[t].step = run.cursor

\* A run that went straight to done has every step behind it: each tool has run once, each
\* task is finished, or in error where the definition lets it be skipped.
DoneIsComplete ==
  Straight /\ run.status = "done" =>
    /\ \A s \in Tools : toolRuns[s] = 1
    /\ \A s \in Step \ Tools : \E t \in Created :
         task[t].step = s /\ task[t].status \in {"done"} \cup (IF s \in Skippable THEN {"error"} ELSE {})

\* A started run ends and its wrapper is closed, unless something failed or the
\* workflow was disabled under it.
RunEventuallyOver == run.status = "running" ~> container = "done" \/ faults > 0 \/ ~enabled

-----------------------------------------------------------------------------
(* The run implements the pipeline of its definition. *)

\* The steps with a task that says go.
SaidGo == {task[t].step : t \in {u \in Task : task[u].verdict = "go"}}

Pipe == INSTANCE Pipeline WITH
  Waived <- Skippable, status <- run.status, cursor <- run.cursor, go <- SaidGo,
  toolRuns <- toolRuns, rewinds <- bounces

\* Whatever order handlers, late ones included, write the row in, the run moves as its
\* definition says: one step at a time, past a gate on a go it has at that moment, past a tool
\* by running it, and back only from a gate.
RefinesPipeline == Pipe!Spec

-----------------------------------------------------------------------------
(* The workers implement the exclusive queue. *)

NoKey == -1

QueueRow(k) ==
  [state |-> IF job[k].state \in {"queued", "retry"} THEN "waiting" ELSE job[k].state,
   key |-> IF job[k].state = "free" THEN NoKey ELSE k,
   tries |-> IF job[k].state = "free" THEN 0 ELSE job[k].tries]

Holders(k) == {c \in Call : call[c].pc # "idle" /\ ~call[c].late /\ call[c].key = k}

Boss == INSTANCE JobQueue WITH
  Row <- Key, Handler <- Call,
  job <- [k \in Key |-> QueueRow(k)], holders <- [k \in Key |-> Holders(k)]

\* The two workers and the poller use their queues as exclusive queues may be used: a task's
\* evaluation is made by one call at a time, which alone completes it, whatever expires or
\* is sent again, and is retried retryLimit times at most.
RefinesQueue == Boss!Spec
=============================================================================
