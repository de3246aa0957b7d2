---------------------------- MODULE TaskDispatch ----------------------------
(***************************************************************************)
(* The dispatch of a task to its agent: the task row, the traces (one per  *)
(* run of dispatchTask), the pg-boss queue `task.dispatch` that carries    *)
(* the jobs, the server process with its in-flight calls, and the two      *)
(* recovery paths (boot reaper, stuck-task sweep).                         *)
(*                                                                         *)
(* One step of the model is one database statement or one queue operation; *)
(* between two of them anything else may run.  Time is abstracted: a job   *)
(* may expire, and the sweep may find a task idle, whenever the state      *)
(* allows it.                                                              *)
(***************************************************************************)
EXTENDS Integers, FiniteSets

CONSTANTS
  Task,         \* tasks with an assigned agent
  Run,          \* calls of dispatchTask that get past the guard (bound)
  Job,          \* rows of the queue table; a finished row is reused (bound)
  NoTask, NoRun, NoJob,
  RetryLimit,   \* retryLimit of a dispatch job
  MaxBounces,   \* MAX_MARKER_BOUNCES
  Pollers,      \* localConcurrency of the task worker
  PatchTo,      \* the statuses clients put in PATCH /tasks/:id
  MaxFaults,    \* bound: crashes, failed sends, throwing runs, halted dispatches
  MaxRequests   \* bound: calls from users and from other components

Status == {"todo", "in_progress", "review", "blocked", "done", "error"}

ASSUME DispatchAssumption ==
  /\ {RetryLimit, MaxBounces, Pollers, MaxFaults, MaxRequests} \subseteq Nat
  /\ NoTask \notin Task /\ NoRun \notin Run /\ NoJob \notin Job
  /\ PatchTo \subseteq Status

VARIABLES
  status, linked, bounces,   \* the task row: status, linkedTraceId, bounce comments
  trace,                     \* the trace row of each run
  run,                       \* the dispatchTask calls of the server process
  job,                       \* the queue table
  server,                    \* life of the server process
  pending,                   \* other calls in flight in the server process
  faults, requests           \* bounded environment

taskVars == <<status, linked, bounces>>
vars == <<taskVars, trace, run, job, server, pending, faults, requests>>

-----------------------------------------------------------------------------
(* Vocabulary. *)

\* loaded -> opened -> running -> closing | failing -> bouncing | returning -> ended
Live == {"loaded", "opened", "running", "closing", "failing", "bouncing", "returning"}
Pc == Live \cup {"unused", "ended", "threw"}

UnusedRun == [pc |-> "unused", task |-> NoTask, job |-> NoJob, next |-> "todo"]
FreeJob == [state |-> "free", task |-> NoTask, fresh |-> FALSE, tries |-> 0]

RunRec == {UnusedRun} \cup
  [pc : Pc \ {"unused"}, task : Task, job : Job \cup {NoJob}, next : Status]
JobRec == {FreeJob} \cup
  [state : {"queued", "active"}, task : Task, fresh : BOOLEAN, tries : Nat]

\* The calls in flight beside the runs: a send that takes the key taskId
\* (plain) or one of its own (fresh), a PATCH or a rerun that has made its
\* checks but not its write, and finalizeTaskDone.
Call == [op : {"plain", "fresh", "patch", "reset", "finalize"}, task : Task, to : Status]

\* What is left of a run: it knows its task, and no job is its own any more.
Over(rec, pc) == [pc |-> pc, task |-> rec.task, job |-> NoJob, next |-> "todo"]

NewCall(op, t) == [op |-> op, task |-> t, to |-> "todo"]

\* An agent is at work on the task: refused by the dispatch guard, PATCH, rerun.
Locked(t) == status[t] = "in_progress" /\ linked[t] # NoRun

\* Slip: the queue created with a policy that ignores active jobs.
KeyTakenQueuedOnly(t) == \E j \in Job : job[j].state = "queued" /\ job[j].task = t /\ ~job[j].fresh

\* On the exclusive queue the key taskId is taken while its job is queued or active.
KeyTaken(t) == \E j \in Job : job[j].state # "free" /\ job[j].task = t /\ ~job[j].fresh

\* Rows and run identifiers are interchangeable: any free one will do.
FreeRow == CHOOSE j \in Job : job[j].state = "free"
NewRun == CHOOSE r \in Run : run[r].pc = "unused"

LiveRuns == {r \in Run : run[r].pc \in Live}

\* The statuses a user may move a task to by hand.
AllowedUserTransition(from, to) ==
  CASE from = "todo"        -> to \in {"review", "done"}
    [] from = "in_progress" -> to \in {"todo", "review", "done"}
    [] from = "review"      -> to \in {"todo", "done"}
    [] from = "blocked"     -> to \in {"todo", "review", "done"}
    [] from = "done"        -> FALSE
    [] from = "error"       -> to = "todo"

-----------------------------------------------------------------------------
(* The tasks have just been created: rows inserted, first send under way. *)

Init ==
  /\ status = [t \in Task |-> "todo"]
  /\ linked = [t \in Task |-> NoRun]
  /\ bounces = [t \in Task |-> 0]
  /\ trace = [r \in Run |-> "none"]
  /\ run = [r \in Run |-> UnusedRun]
  /\ job = [j \in Job |-> FreeJob]
  /\ server = "up"
  /\ pending = {NewCall("plain", t) : t \in Task}
  /\ faults = 0
  /\ requests = 0

Fault == faults < MaxFaults /\ faults' = faults + 1
Request == server = "up" /\ requests < MaxRequests /\ requests' = requests + 1

-----------------------------------------------------------------------------
(* The queue. *)

SendQueued(c) ==
  /\ c.op \in {"plain", "fresh"}
  /\ c.op = "plain" => ~KeyTaken(c.task)
  /\ \E j \in Job : job[j].state = "free"
  /\ job' = [job EXCEPT ![FreeRow] = [state |-> "queued", task |-> c.task,
                                      fresh |-> (c.op = "fresh"), tries |-> 0]]
  /\ pending' = pending \ {c}
  /\ UNCHANGED <<taskVars, trace, run, server, faults, requests>>

\* The exclusive queue drops a send whose key is taken, without an error.
SendDropped(c) ==
  /\ c.op = "plain" /\ KeyTaken(c.task)
  /\ pending' = pending \ {c}
  /\ UNCHANGED <<taskVars, trace, run, job, server, faults, requests>>

\* A send that fails is logged and forgotten.
SendFails(c) ==
  /\ c.op \in {"plain", "fresh"}
  /\ Fault
  /\ pending' = pending \ {c}
  /\ UNCHANGED <<taskVars, trace, run, job, server, requests>>

\* A job given up by its worker: retried while it has tries left, else gone.
GiveUp(j) ==
  IF job[j].tries < RetryLimit
  THEN [job EXCEPT ![j] = [state |-> "queued", task |-> @.task,
                           fresh |-> @.fresh, tries |-> @.tries + 1]]
  ELSE [job EXCEPT ![j] = FreeJob]

\* expireInSeconds has passed: the agent is being waited for, or the handler is
\* gone (the statements before the prompt take no such time).  A live handler
\* keeps running: its answer comes too late for the queue.
ExpireJob(j) ==
  /\ server = "up"
  /\ job[j].state = "active"
  /\ \A r \in Run : run[r].job = j => run[r].pc \notin {"loaded", "opened"}
  /\ job' = GiveUp(j)
  /\ run' = [r \in Run |-> IF run[r].job = j THEN [run[r] EXCEPT !.job = NoJob] ELSE run[r]]
  /\ UNCHANGED <<taskVars, trace, server, pending, faults, requests>>

-----------------------------------------------------------------------------
(* dispatchTask, from the claim of its job to the end of the handler. *)

\* A free poller claims the job; at most Pollers handlers run at a time.
CanClaim(j) ==
  /\ server = "up"
  /\ job[j].state = "queued"
  /\ Cardinality(LiveRuns) < Pollers

\* The guard of loadDispatchableTask refuses: the job completes at once.
SkipDispatch(j) ==
  /\ CanClaim(j)
  /\ Locked(job[j].task)
  /\ job' = [job EXCEPT ![j] = FreeJob]
  /\ UNCHANGED <<taskVars, trace, run, server, pending, faults, requests>>

\* Agent gone, runtime not provisioned or budget spent: halted, job completes.
HaltDispatch(j) ==
  /\ CanClaim(j)
  /\ ~Locked(job[j].task)
  /\ Fault
  /\ job' = [job EXCEPT ![j] = FreeJob]
  /\ UNCHANGED <<taskVars, trace, run, server, pending, requests>>

LoadTask(j) ==
  /\ CanClaim(j)
  /\ ~Locked(job[j].task)
  /\ \E r \in Run : run[r].pc = "unused"
  /\ job' = [job EXCEPT ![j].state = "active"]
  /\ run' = [run EXCEPT ![NewRun] = [pc |-> "loaded", task |-> job[j].task,
                                     job |-> j, next |-> "todo"]]
  /\ UNCHANGED <<taskVars, trace, server, pending, faults, requests>>

Step(r, from, to) == run[r].pc = from /\ run' = [run EXCEPT ![r].pc = to]

\* openTrace, first statement: the trace row.
InsertTrace(r) ==
  /\ Step(r, "loaded", "opened")
  /\ trace' = [trace EXCEPT ![r] = "running"]
  /\ UNCHANGED <<taskVars, job, server, pending, faults, requests>>

\* openTrace, second statement: the task row, whatever it holds by now.
MarkInProgress(r) ==
  /\ Step(r, "opened", "running")
  /\ status' = [status EXCEPT ![run[r].task] = "in_progress"]
  /\ linked' = [linked EXCEPT ![run[r].task] = r]
  /\ UNCHANGED <<bounces, trace, job, server, pending, faults, requests>>

\* What a reply can lead to: done, review or blocked, or back to todo when a
\* marker was rejected and the task has bounces left.
Outcome(t) ==
  {"done", "review", "blocked"} \cup (IF bounces[t] < MaxBounces THEN {"todo"} ELSE {})

\* The agent has answered.  closeSucceededTrace, first statement: the trace row.
Succeed(r, next) ==
  /\ run[r].pc = "running"
  /\ next \in Outcome(run[r].task)
  /\ trace' = [trace EXCEPT ![r] = "succeeded"]
  /\ run' = [run EXCEPT ![r] = [@ EXCEPT !.pc = "closing", !.next = next]]
  /\ UNCHANGED <<taskVars, job, server, pending, faults, requests>>

\* closeSucceededTrace, second statement: the task row.  A done task goes on to
\* finalizeTaskDone, a rejected marker to bounceTaskToAgent.
CloseTask(r) ==
  LET t == run[r].task
      next == run[r].next
  IN /\ Step(r, "closing", IF next = "todo" THEN "bouncing" ELSE "returning")
     /\ status' = [status EXCEPT ![t] = next]
     /\ linked' = [linked EXCEPT ![t] = NoRun]
     /\ pending' = IF next = "done" THEN pending \cup {NewCall("finalize", t)} ELSE pending
     /\ UNCHANGED <<bounces, trace, job, server, faults, requests>>

\* bounceTaskToAgent: comment, task row, then a send under a fresh key, for the
\* plain key is still held by this run's own job.
Bounce(r) ==
  LET t == run[r].task
  IN /\ Step(r, "bouncing", "returning")
     /\ bounces' = [bounces EXCEPT ![t] = @ + 1]
     /\ status' = [status EXCEPT ![t] = "todo"]
     /\ linked' = [linked EXCEPT ![t] = NoRun]
     /\ pending' = pending \cup {NewCall("fresh", t)}
     /\ UNCHANGED <<trace, job, server, faults, requests>>

\* The gateway failed or timed out.  closeFailedTrace: the trace row ...
Fail(r) ==
  /\ Step(r, "running", "failing")
  /\ trace' = [trace EXCEPT ![r] = "failed"]
  /\ UNCHANGED <<taskVars, job, server, pending, faults, requests>>

\* Slip: the status of the trace put into the task row.
FailTaskTraceStatus(r) ==
  /\ Step(r, "failing", "returning")
  /\ status' = [status EXCEPT ![run[r].task] = "failed"]
  /\ UNCHANGED <<linked, bounces, trace, job, server, pending, faults, requests>>

\* ... then the task row, whose linkedTraceId is kept.
FailTask(r) ==
  /\ Step(r, "failing", "returning")
  /\ status' = [status EXCEPT ![run[r].task] = "error"]
  /\ UNCHANGED <<linked, bounces, trace, job, server, pending, faults, requests>>

\* The handler returns: its job completes, unless it has expired meanwhile.
EndRun(r) ==
  /\ run[r].pc = "returning"
  /\ run' = [run EXCEPT ![r] = Over(@, "ended")]
  /\ job' = IF run[r].job = NoJob THEN job ELSE [job EXCEPT ![run[r].job] = FreeJob]
  /\ UNCHANGED <<taskVars, trace, server, pending, faults, requests>>

\* A statement of the handler throws: nothing is undone, the queue retries.
RunThrows(r) ==
  /\ run[r].pc \in Live
  /\ Fault
  /\ run' = [run EXCEPT ![r] = Over(@, "threw")]
  /\ job' = IF run[r].job = NoJob THEN job ELSE GiveUp(run[r].job)
  /\ UNCHANGED <<taskVars, trace, server, pending, requests>>

-----------------------------------------------------------------------------
(* Users and other components. *)

\* PATCH /tasks/:id, checks.  On a locked task a status is taken for the
\* dispatcher's own update and skips the table of transitions.
PatchRead(t, to) ==
  /\ Request
  /\ to # status[t]
  /\ Locked(t) \/ AllowedUserTransition(status[t], to)
  /\ pending' = pending \cup {[op |-> "patch", task |-> t, to |-> to]}
  /\ UNCHANGED <<taskVars, trace, run, job, server, faults>>

\* PATCH /tasks/:id, write: no dispatch, no change of the link.
PatchWrite(c) ==
  /\ c.op = "patch"
  /\ status' = [status EXCEPT ![c.task] = c.to]
  /\ pending' = pending \ {c}
  /\ UNCHANGED <<linked, bounces, trace, run, job, server, faults, requests>>

\* POST /tasks/:id/rerun, checks: only error and blocked are reset before the send.
Rerun(t) ==
  /\ Request
  /\ ~Locked(t)
  /\ pending' = pending \cup
       {NewCall(IF status[t] \in {"error", "blocked"} THEN "reset" ELSE "plain", t)}
  /\ UNCHANGED <<taskVars, trace, run, job, server, faults>>

\* POST /tasks/:id/rerun, write, then the send.
ResetWrite(c) ==
  /\ c.op = "reset"
  /\ status' = [status EXCEPT ![c.task] = "todo"]
  /\ pending' = (pending \ {c}) \cup {NewCall("plain", c.task)}
  /\ UNCHANGED <<linked, bounces, trace, run, job, server, faults, requests>>

\* A mention in a comment, a review verdict to revise, a child's cascade, a
\* released blocker: reopened without a look at its state, then a plain send.
Wake(t) ==
  /\ Request
  /\ status' = [status EXCEPT ![t] = "todo"]
  /\ linked' = [linked EXCEPT ![t] = NoRun]
  /\ pending' = pending \cup {NewCall("plain", t)}
  /\ UNCHANGED <<bounces, trace, run, job, server, faults>>

\* A reviewer approves a task parked in review.
Approve(t) ==
  /\ Request
  /\ status[t] = "review"
  /\ pending' = pending \cup {NewCall("finalize", t)}
  /\ UNCHANGED <<taskVars, trace, run, job, server, faults>>

\* finalizeTaskDone closes the task once more, if it is open by now.
Finalize(c) ==
  /\ c.op = "finalize"
  /\ status' = [status EXCEPT ![c.task] = "done"]
  /\ linked' = IF status[c.task] = "done" THEN linked ELSE [linked EXCEPT ![c.task] = NoRun]
  /\ pending' = pending \ {c}
  /\ UNCHANGED <<bounces, trace, run, job, server, faults, requests>>

-----------------------------------------------------------------------------
(* Death and boot of the server; the sweep. *)

\* Runs and calls die with the process; the rows stay as they are.
Crash ==
  /\ server # "down"
  /\ Fault
  /\ server' = "down"
  /\ run' = [r \in Run |-> IF run[r].pc \in Live \cup {"threw"}
                           THEN Over(run[r], "ended")
                           ELSE run[r]]
  /\ pending' = {}
  /\ UNCHANGED <<taskVars, trace, job, requests>>

\* Slip: the statement without its WHERE.
ReapAllTraces ==
  /\ server = "down"
  /\ server' = "reaping"
  /\ trace' = [r \in Run |-> IF trace[r] # "none" THEN "failed" ELSE trace[r]]
  /\ UNCHANGED <<taskVars, run, job, pending, faults, requests>>

\* Slip: the tasks are reverted, their traces forgotten.
ReapNoTraces ==
  /\ server = "down"
  /\ server' = "reaping"
  /\ UNCHANGED <<taskVars, trace, run, job, pending, faults, requests>>

\* reapOrphans, first statement: every running trace.
ReapTraces ==
  /\ server = "down"
  /\ server' = "reaping"
  /\ trace' = [r \in Run |-> IF trace[r] = "running" THEN "failed" ELSE trace[r]]
  /\ UNCHANGED <<taskVars, run, job, pending, faults, requests>>

\* Slip: the traces are settled, the tasks forgotten.
RevertNoTasks ==
  /\ server = "reaping"
  /\ server' = "up"
  /\ UNCHANGED <<taskVars, trace, run, job, pending, faults, requests>>

\* reapOrphans, second statement: every locked task.  Then the worker registers.
RevertTasks ==
  /\ server = "reaping"
  /\ server' = "up"
  /\ status' = [t \in Task |-> IF Locked(t) THEN "todo" ELSE status[t]]
  /\ linked' = [t \in Task |-> IF Locked(t) THEN NoRun ELSE linked[t]]
  /\ UNCHANGED <<bounces, trace, run, job, pending, faults, requests>>

\* Slip: isNotNull for isNull.
EnqueueLinked(t) ==
  /\ server = "up"
  /\ status[t] = "todo" /\ linked[t] # NoRun
  /\ NewCall("fresh", t) \notin pending
  /\ pending' = pending \cup {NewCall("fresh", t)}
  /\ UNCHANGED <<taskVars, trace, run, job, server, faults, requests>>

\* enqueuePendingTasks, at boot and by the sweep.
EnqueuePending(t) ==
  /\ server = "up"
  /\ status[t] = "todo" /\ linked[t] = NoRun
  /\ NewCall("fresh", t) \notin pending
  /\ pending' = pending \cup {NewCall("fresh", t)}
  /\ UNCHANGED <<taskVars, trace, run, job, server, faults, requests>>

-----------------------------------------------------------------------------
Queue ==
  \/ \E c \in pending : SendQueued(c) \/ SendDropped(c) \/ SendFails(c)
  \/ \E j \in Job : ExpireJob(j) \/ SkipDispatch(j) \/ HaltDispatch(j) \/ LoadTask(j)

Dispatcher(r) ==
  \/ InsertTrace(r) \/ MarkInProgress(r)
  \/ (\E next \in Status : Succeed(r, next)) \/ CloseTask(r) \/ Bounce(r)
  \/ Fail(r) \/ FailTask(r)
  \/ EndRun(r)

Others ==
  \/ \E t \in Task :
       (\E to \in PatchTo : PatchRead(t, to)) \/ Rerun(t) \/ Wake(t) \/ Approve(t)
  \/ \E c \in pending : PatchWrite(c) \/ ResetWrite(c) \/ Finalize(c)

Recovery ==
  Crash \/ ReapTraces \/ RevertTasks \/ \E t \in Task : EnqueuePending(t)

Next == Queue \/ (\E r \in Run : Dispatcher(r) \/ RunThrows(r)) \/ Others \/ Recovery

Spec == Init /\ [][Next]_vars

-----------------------------------------------------------------------------
(* Safety. *)

TypeOK ==
  /\ status \in [Task -> Status]
  /\ linked \in [Task -> Run \cup {NoRun}]
  /\ bounces \in [Task -> Nat]
  /\ trace \in [Run -> {"none", "running", "succeeded", "failed"}]
  /\ run \in [Run -> RunRec]
  /\ job \in [Job -> JobRec]
  /\ server \in {"up", "down", "reaping"}
  /\ pending \subseteq Call
  /\ faults \in Nat /\ requests \in Nat

\* While the server is up, a task shown in progress has a run behind it: it
\* links to a run of its own which is at work on it, or whose handler threw and
\* left it so.  Runs overtaking each other, wakes, edits and finalizations in
\* the middle of a run and a boot after a crash never leave one in progress
\* with nobody to take it out (openTrace, closeSucceededTrace, closeFailedTrace,
\* reapOrphans).  It depends on clients never sending in_progress in a PATCH.
InProgressHasRun ==
  server = "up" => \A t \in Task : status[t] = "in_progress" =>
    /\ linked[t] \in Run
    /\ run[linked[t]].task = t
    /\ run[linked[t]].pc \in {"running", "closing", "failing", "threw"}

\* While the server is up, a trace shown as running is that of a run this
\* server is in the middle of, or of one that threw: no trace of an earlier life
\* survives the boot, for the reaper runs before anything else (index.ts main).
RunningTraceHasOwner ==
  server = "up" => \A r \in Run :
    trace[r] = "running" => run[r].pc \in {"opened", "running", "threw"}

\* What the singleton key does guarantee: two handlers that still hold their
\* jobs, both sent under the plain key, are never at work on the same task
\* (enqueueTaskDispatch, the exclusive queue).  An expired job and a fresh key
\* are outside the guarantee.
PlainClaimsExclusive ==
  \A r1, r2 \in LiveRuns :
    ( /\ r1 # r2
      /\ run[r1].job # NoJob /\ ~job[run[r1].job].fresh
      /\ run[r2].job # NoJob /\ ~job[run[r2].job].fresh )
    => run[r1].task # run[r2].task

-----------------------------------------------------------------------------
(* The inductive invariant behind the safety properties. *)

\* Runs and jobs: a live run that has not lost its job to an expiry holds a job
\* that is active and for its task, and no two runs hold the same one.
Claims ==
  /\ \A r \in Run : run[r].job # NoJob =>
       /\ run[r].pc \in Live
       /\ job[run[r].job].state = "active"
       /\ job[run[r].job].task = run[r].task
  /\ \A r1, r2 \in Run : (run[r1].job # NoJob /\ run[r1].job = run[r2].job) => r1 = r2

\* The queue: at most one job of a task is under the plain key.
Keys ==
  \A j1, j2 \in Job :
    ( /\ job[j1].state # "free" /\ ~job[j1].fresh
      /\ job[j2].state # "free" /\ ~job[j2].fresh
      /\ job[j1].task = job[j2].task ) => j1 = j2

\* Runs and traces: a trace is where the control of its run says.
Traces ==
  \A r \in Run :
    /\ run[r].pc \in Live \cup {"threw"} => server = "up"
    /\ run[r].pc \in {"unused", "loaded"} => trace[r] = "none"
    /\ run[r].pc \in {"opened", "running"} => trace[r] = "running"
    /\ trace[r] = "running" => server = "down" \/ run[r].pc \in {"opened", "running", "threw"}

\* Tasks and runs: in progress means linked to a run of one's own, and while
\* that run is the server's, to one between its two writes of the task row.
Links ==
  /\ \A t \in Task : status[t] = "in_progress" =>
       /\ linked[t] \in Run
       /\ run[linked[t]].task = t
       /\ server = "up" => run[linked[t]].pc \in {"running", "closing", "failing", "threw"}
  /\ \A r \in Run : run[r].next # "in_progress"
  /\ \A c \in pending : c.op = "patch" => c.to \in PatchTo

Inductive == TypeOK /\ Claims /\ Keys /\ Traces /\ Links

-----------------------------------------------------------------------------
(* Refinement. *)

Owner == [r \in Run |-> IF trace[r] = "none" THEN NoTask ELSE run[r].task]

Ledger == INSTANCE TraceLedger WITH outcome <- trace, owner <- Owner, link <- linked

\* The dispatch keeps the promises of the run ledger: no run is settled twice or
\* reopened, by its handler, a retry of its job or the boot reaper, and no task
\* comes to link to a run of another task or to one already settled.
RefinesLedger == Ledger!Spec

\* A job as the queue knows it: a fresh key is like none.
QueueRow(j) ==
  [state |-> IF job[j].state = "queued" THEN "waiting" ELSE job[j].state,
   key |-> IF job[j].fresh THEN NoTask ELSE job[j].task,
   tries |-> job[j].tries]

Holders(j) == {r \in Run : run[r].job = j}

Boss == INSTANCE JobQueue WITH
  Row <- Job, Handler <- Run, Key <- Task, NoKey <- NoTask,
  job <- [j \in Job |-> QueueRow(j)], holders <- [j \in Job |-> Holders(j)]

\* The dispatch uses its queue as an exclusive queue may be used: a job has one
\* handler at a time and is completed or given up by that one alone, through
\* expiries, throws and restarts, and is retried retryLimit times at most.
RefinesQueue == Boss!Spec

-----------------------------------------------------------------------------
(* Liveness. *)

\* What the server does without anyone's help while it lives: it answers (the
\* adapter's wait has a timeout), it serves its queue oldest first, it expires
\* active jobs, it sweeps.  Faults and requests need never happen.
Serve(j) == SkipDispatch(j) \/ LoadTask(j)

Carry(c) == c \in pending /\ (SendQueued(c) \/ SendDropped(c))

Write(c) == PatchWrite(c) \/ ResetWrite(c) \/ Finalize(c)

Fairness ==
  /\ \A r \in Run : WF_vars(Dispatcher(r))
  /\ \A j \in Job : WF_vars(ExpireJob(j)) /\ SF_vars(Serve(j))
  /\ \A t \in Task : /\ \A op \in {"plain", "fresh"} : SF_vars(Carry(NewCall(op, t)))
                    /\ WF_vars(EnqueuePending(t))
  /\ WF_vars(\E c \in pending : Write(c))
  /\ WF_vars(ReapTraces \/ RevertTasks)

FairSpec == Spec /\ Fairness

\* The bound on runs is reached: what follows is not the system's doing.
OutOfRuns == \A r \in Run : run[r].pc # "unused"

\* A task in todo with no link is dispatched, or moved elsewhere, whatever was
\* lost before: dropped sends, failed sends, a crash, an expired job.  The sweep
\* makes up for all of them (enqueuePendingTasks, startStuckTaskSweep).
PendingEventuallyDispatched ==
  \A t \in Task : (status[t] = "todo" /\ linked[t] = NoRun)
                    ~> (status[t] # "todo" \/ linked[t] # NoRun \/ OutOfRuns)

\* A locked task is let go: its run settles it, or the boot after a crash does.
\* Only a run whose handler threw leaves it locked (until the next boot).
LockEventuallyReleased ==
  \A t \in Task : Locked(t) ~> (~Locked(t) \/ run[linked[t]].pc = "threw")
=============================================================================
