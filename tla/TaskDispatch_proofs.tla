------------------------ MODULE TaskDispatch_proofs ------------------------
(***************************************************************************)
(* Proofs about TaskDispatch, for any number of tasks, runs, queue rows,   *)
(* faults and requests.                                                    *)
(***************************************************************************)
EXTENDS TaskDispatch, TLAPS

-----------------------------------------------------------------------------
(* Types. *)

\* A row or a run picked by CHOOSE is one of those that qualify.
LEMMA Picked ==
  /\ (\E j \in Job : job[j].state = "free") => FreeRow \in Job /\ job[FreeRow].state = "free"
  /\ (\E r \in Run : run[r].pc = "unused") => NewRun \in Run /\ run[NewRun].pc = "unused"
BY DEF FreeRow, NewRun

\* The record types, as the provers use them.
LEMMA RecordTypes ==
  /\ UnusedRun \in RunRec
  /\ FreeJob \in JobRec
  /\ \A op \in {"plain", "fresh", "patch", "reset", "finalize"}, t \in Task :
       NewCall(op, t) \in Call
BY DEF UnusedRun, RunRec, FreeJob, JobRec, NewCall, Call, Pc, Live, Status

\* The fields of a run that has begun, and of a job that is not free.
LEMMA RunFields ==
  ASSUME NEW rec \in RunRec, rec.pc # "unused"
  PROVE  /\ rec.pc \in Pc /\ rec.task \in Task
         /\ rec.job \in Job \cup {NoJob} /\ rec.next \in Status
BY DEF RunRec, UnusedRun

\* The fields of a job row, by its state.
LEMMA JobFields ==
  ASSUME NEW rec \in JobRec, rec.state # "free"
  PROVE  /\ rec.state \in {"queued", "active"} /\ rec.task \in Task
         /\ rec.fresh \in BOOLEAN /\ rec.tries \in Nat
BY DEF JobRec, FreeJob

\* What the steps make of a run and of a job is a run and a job.
LEMMA RunUpdates ==
  ASSUME NEW rec \in RunRec
  PROVE  /\ [rec EXCEPT !.job = NoJob] \in RunRec
         /\ rec.pc # "unused" =>
              /\ \A to \in Pc \ {"unused"} : [rec EXCEPT !.pc = to] \in RunRec
              /\ \A next \in Status : [rec EXCEPT !.pc = "closing", !.next = next] \in RunRec
              /\ Over(rec, "ended") \in RunRec /\ Over(rec, "threw") \in RunRec
<1>1. CASE rec = UnusedRun
  BY <1>1 DEF UnusedRun, RunRec
<1>2. CASE rec \in [pc : Pc \ {"unused"}, task : Task, job : Job \cup {NoJob}, next : Status]
  BY <1>2 DEF RunRec, Over, Pc, Live, Status
<1> QED BY <1>1, <1>2 DEF RunRec

\* A job whose handler gave up or expired is still a job, queued again or free.
LEMMA GiveUpType ==
  ASSUME job \in [Job -> JobRec], NEW j \in Job, job[j].state = "active"
  PROVE  GiveUp(j) \in [Job -> JobRec]
<1>1. job[j].task \in Task /\ job[j].fresh \in BOOLEAN /\ job[j].tries \in Nat
  BY JobFields
<1>2. [state |-> "queued", task |-> job[j].task,
       fresh |-> job[j].fresh, tries |-> job[j].tries + 1] \in JobRec
  BY <1>1 DEF JobRec
<1> QED BY <1>2, RecordTypes DEF GiveUp

\* Every step keeps the types; Claims tells which job a run may give back.
LEMMA TypeStep == TypeOK /\ Claims /\ [Next]_vars => TypeOK'
<1> SUFFICES ASSUME TypeOK, Claims, [Next]_vars PROVE TypeOK'
  OBVIOUS
<1> USE DispatchAssumption
<1>1. ASSUME NEW c \in pending, SendQueued(c) PROVE TypeOK'
  BY <1>1, Picked DEF TypeOK, SendQueued, taskVars, JobRec, Call
<1>2. ASSUME NEW c \in pending, SendDropped(c) PROVE TypeOK'
  BY <1>2 DEF TypeOK, SendDropped, taskVars
<1>3. ASSUME NEW c \in pending, SendFails(c) PROVE TypeOK'
  BY <1>3 DEF TypeOK, SendFails, taskVars, Fault
<1>4. ASSUME NEW j \in Job, ExpireJob(j) PROVE TypeOK'
  <2>1. run' \in [Run -> RunRec]
    BY <1>4, RunUpdates DEF TypeOK, ExpireJob
  <2>2. job' \in [Job -> JobRec]
    BY <1>4, GiveUpType DEF TypeOK, ExpireJob
  <2> QED BY <1>4, <2>1, <2>2 DEF TypeOK, ExpireJob, taskVars
<1>5. ASSUME NEW j \in Job, SkipDispatch(j) \/ HaltDispatch(j) PROVE TypeOK'
  BY <1>5, RecordTypes DEF TypeOK, SkipDispatch, HaltDispatch, Fault, taskVars
<1>6. ASSUME NEW j \in Job, LoadTask(j) PROVE TypeOK'
  <2>1. /\ job[j].task \in Task
        /\ [job[j] EXCEPT !.state = "active"] \in JobRec
    BY <1>6, JobFields DEF TypeOK, LoadTask, CanClaim, JobRec, FreeJob
  <2>2. [pc |-> "loaded", task |-> job[j].task, job |-> j, next |-> "todo"] \in RunRec
    BY <2>1 DEF RunRec, Pc, Live, Status
  <2> QED BY <1>6, <2>1, <2>2 DEF TypeOK, LoadTask, taskVars
<1>7. ASSUME NEW r \in Run, NEW from \in Pc \ {"unused"}, NEW to \in Pc \ {"unused"},
             Step(r, from, to)
      PROVE  run' \in [Run -> RunRec] /\ run[r].task \in Task /\ run[r].next \in Status
  BY <1>7, RunUpdates, RunFields DEF TypeOK, Step
<1>8. ASSUME NEW r \in Run, InsertTrace(r) PROVE TypeOK'
  BY <1>8, <1>7 DEF TypeOK, InsertTrace, taskVars, Pc, Live
<1>9. ASSUME NEW r \in Run, MarkInProgress(r) PROVE TypeOK'
  BY <1>9, <1>7 DEF TypeOK, MarkInProgress, Pc, Live, Status
<1>10. ASSUME NEW r \in Run, NEW next \in Status, Succeed(r, next) PROVE TypeOK'
  BY <1>10, RunUpdates DEF TypeOK, Succeed, taskVars
<1>11. ASSUME NEW r \in Run, CloseTask(r) PROVE TypeOK'
  <2>1. PICK to \in {"bouncing", "returning"} : Step(r, "closing", to)
    BY <1>11 DEF CloseTask
  <2>2. run' \in [Run -> RunRec] /\ run[r].task \in Task /\ run[r].next \in Status
    BY <2>1, <1>7 DEF Pc, Live
  <2> QED BY <1>11, <2>2, RecordTypes DEF TypeOK, CloseTask
<1>12. ASSUME NEW r \in Run, Bounce(r) PROVE TypeOK'
  <2>1. run' \in [Run -> RunRec] /\ run[r].task \in Task
    BY <1>12, <1>7 DEF Bounce, Pc, Live
  <2> QED BY <1>12, <2>1, RecordTypes DEF TypeOK, Bounce, Status
<1>13. ASSUME NEW r \in Run, Fail(r) \/ FailTask(r) PROVE TypeOK'
  BY <1>13, <1>7 DEF TypeOK, Fail, FailTask, taskVars, Pc, Live, Status
<1>14. ASSUME NEW r \in Run, EndRun(r) PROVE TypeOK'
  BY <1>14, RunUpdates, RecordTypes DEF TypeOK, EndRun, taskVars
<1>15. ASSUME NEW r \in Run, RunThrows(r) PROVE TypeOK'
  <2>1. run[r].job \in Job \cup {NoJob}
    BY <1>15, RunFields DEF TypeOK, RunThrows, Live
  <2>2. job' \in [Job -> JobRec]
    BY <1>15, <2>1, GiveUpType DEF TypeOK, Claims, RunThrows
  <2>3. run' \in [Run -> RunRec]
    BY <1>15, RunUpdates DEF TypeOK, RunThrows, Live
  <2> QED BY <1>15, <2>2, <2>3 DEF TypeOK, RunThrows, Fault, taskVars
<1>16. ASSUME NEW t \in Task, NEW to \in PatchTo, PatchRead(t, to) PROVE TypeOK'
  BY <1>16 DEF TypeOK, PatchRead, Request, Call, taskVars
<1>17. ASSUME NEW t \in Task, Rerun(t) PROVE TypeOK'
  BY <1>17, RecordTypes DEF TypeOK, Rerun, Request, taskVars
<1>18. ASSUME NEW t \in Task, Wake(t) \/ Approve(t) PROVE TypeOK'
  BY <1>18, RecordTypes DEF TypeOK, Wake, Approve, Request, taskVars, Status
<1>19. ASSUME NEW c \in pending, PatchWrite(c) \/ Finalize(c) PROVE TypeOK'
  BY <1>19 DEF TypeOK, PatchWrite, Finalize, Call, Status
<1>20. ASSUME NEW c \in pending, ResetWrite(c) PROVE TypeOK'
  BY <1>20, RecordTypes DEF TypeOK, ResetWrite, Call, Status
<1>21. CASE Crash
  <2>1. run' \in [Run -> RunRec]
    BY <1>21, RunUpdates DEF TypeOK, Crash, Live
  <2> QED BY <1>21, <2>1 DEF TypeOK, Crash, Fault, taskVars
<1>22. CASE ReapTraces
  BY <1>22 DEF TypeOK, ReapTraces, taskVars
<1>23. CASE RevertTasks
  BY <1>23 DEF TypeOK, RevertTasks, Status
<1>24. ASSUME NEW t \in Task, EnqueuePending(t) PROVE TypeOK'
  BY <1>24, RecordTypes DEF TypeOK, EnqueuePending, taskVars
<1>25. CASE UNCHANGED vars
  BY <1>25 DEF TypeOK, vars, taskVars
<1> QED
  BY <1>1, <1>2, <1>3, <1>4, <1>5, <1>6, <1>8, <1>9, <1>10, <1>11, <1>12, <1>13, <1>14,
     <1>15, <1>16, <1>17, <1>18, <1>19, <1>20, <1>21, <1>22, <1>23, <1>24, <1>25
     DEF Next, Queue, Dispatcher, Others, Recovery

-----------------------------------------------------------------------------
(* Claims and keys. *)

\* The steps that leave the runs, their jobs and the queue as they are.
Elsewhere ==
  \/ \E c \in pending : SendDropped(c) \/ SendFails(c) \/ PatchWrite(c)
                       \/ ResetWrite(c) \/ Finalize(c)
  \/ \E t \in Task : \/ \E to \in PatchTo : PatchRead(t, to)
                     \/ Rerun(t) \/ Wake(t) \/ Approve(t) \/ EnqueuePending(t)
  \/ ReapTraces \/ RevertTasks
  \/ UNCHANGED vars

\* The steps of a run that only move its control among live states.
Moves(r) ==
  \/ InsertTrace(r) \/ MarkInProgress(r) \/ (\E next \in Status : Succeed(r, next))
  \/ CloseTask(r) \/ Bounce(r) \/ Fail(r) \/ FailTask(r)

\* The steps by what they can disturb: the task rows alone, the queue, one run, the server.
LEMMA Cases ==
  ASSUME [Next]_vars
  PROVE  \/ Elsewhere
         \/ \E c \in pending : SendQueued(c)
         \/ \E j \in Job : ExpireJob(j) \/ SkipDispatch(j) \/ HaltDispatch(j) \/ LoadTask(j)
         \/ \E r \in Run : Moves(r) \/ EndRun(r) \/ RunThrows(r)
         \/ Crash
BY DEF Next, Queue, Dispatcher, Others, Recovery, Elsewhere, Moves

\* Steps of users and of the sweep leave runs and job rows alone ...
LEMMA ElsewhereKeeps == Elsewhere => UNCHANGED <<run, job>>
BY DEF Elsewhere, SendDropped, SendFails, PatchWrite, ResetWrite, Finalize, PatchRead,
       Rerun, Wake, Approve, EnqueuePending, ReapTraces, RevertTasks, vars

\* ... and a step of one run keeps the job it holds and the task it works on.
LEMMA MovesKeep ==
  ASSUME TypeOK, NEW r \in Run, Moves(r)
  PROVE  /\ job' = job
         /\ run[r].pc \in Live \ {"returning"} /\ run'[r].pc \in Live \ {"loaded"}
         /\ run'[r].task = run[r].task /\ run'[r].job = run[r].job
         /\ \A q \in Run \ {r} : run'[q] = run[q]
<1>1. CASE \E next \in Status : Succeed(r, next)
  BY <1>1, RunFields DEF Succeed, Live, TypeOK, RunRec, UnusedRun
<1>2. CASE ~ \E next \in Status : Succeed(r, next)
  <2>1. PICK from \in Live \ {"returning"}, to \in Live \ {"loaded"} : Step(r, from, to) /\ job' = job
    BY <1>2 DEF Moves, InsertTrace, MarkInProgress, CloseTask, Bounce, Fail, FailTask, Live
  <2> QED BY <2>1 DEF Step, TypeOK, RunRec, UnusedRun, Live
<1> QED BY <1>1, <1>2

\* A run at work keeps the job it claimed, and no two hold one job.
LEMMA ClaimsStep == TypeOK /\ Claims /\ [Next]_vars => Claims'
<1> SUFFICES ASSUME TypeOK, Claims, [Next]_vars PROVE Claims'
  OBVIOUS
<1> USE DispatchAssumption
<1>1. CASE Elsewhere
  BY <1>1, ElsewhereKeeps DEF Claims
<1>2. ASSUME NEW c \in pending, SendQueued(c) PROVE Claims'
  BY <1>2, Picked DEF TypeOK, Claims, SendQueued
<1>3. ASSUME NEW j \in Job, ExpireJob(j) PROVE Claims'
  <2>1. \A k \in Job \ {j} : job'[k] = job[k]
    BY <1>3 DEF TypeOK, ExpireJob, GiveUp
  <2>2. \A r \in Run : /\ run'[r].pc = run[r].pc /\ run'[r].task = run[r].task
                      /\ run'[r].job = IF run[r].job = j THEN NoJob ELSE run[r].job
    BY <1>3 DEF TypeOK, ExpireJob, RunRec, UnusedRun
  <2>3. \A r \in Run : run[r].job \in Job \cup {NoJob}
    BY DEF TypeOK, RunRec, UnusedRun
  <2> QED BY <2>1, <2>2, <2>3 DEF Claims
<1>4. ASSUME NEW j \in Job, SkipDispatch(j) \/ HaltDispatch(j) PROVE Claims'
  <2>1. /\ run' = run /\ job[j].state = "queued"
        /\ \A k \in Job \ {j} : job'[k] = job[k]
    BY <1>4 DEF TypeOK, SkipDispatch, HaltDispatch, CanClaim
  <2>2. \A r \in Run : run[r].job \in Job \cup {NoJob}
    BY DEF TypeOK, RunRec, UnusedRun
  <2> QED BY <2>1, <2>2 DEF Claims
<1>5. ASSUME NEW j \in Job, LoadTask(j) PROVE Claims'
  <2>1. /\ NewRun \in Run /\ run[NewRun].pc = "unused"
        /\ job[j].state = "queued"
    BY <1>5, Picked DEF LoadTask, CanClaim
  <2>2. /\ run'[NewRun] = [pc |-> "loaded", task |-> job[j].task, job |-> j, next |-> "todo"]
        /\ \A r \in Run \ {NewRun} : run'[r] = run[r]
    BY <1>5, <2>1 DEF TypeOK, LoadTask
  <2>3. /\ job'[j].state = "active" /\ job'[j].task = job[j].task
        /\ \A k \in Job \ {j} : job'[k] = job[k]
    BY <1>5 DEF TypeOK, LoadTask, JobRec, FreeJob
  <2>4. \A r \in Run : run[r].job \in Job \cup {NoJob} /\ run[r].job # j
    BY <2>1 DEF TypeOK, RunRec, UnusedRun, Claims
  <2> QED BY <2>2, <2>3, <2>4 DEF Claims, Live
<1>6. ASSUME NEW r \in Run, Moves(r) PROVE Claims'
  <2>1. \A q \in Run : run'[q].task = run[q].task /\ run'[q].job = run[q].job
    BY <1>6, MovesKeep
  <2> QED BY <1>6, <2>1, MovesKeep DEF Claims
<1>7. ASSUME NEW r \in Run, EndRun(r) \/ RunThrows(r) PROVE Claims'
  <2>1. run'[r].job = NoJob /\ \A q \in Run \ {r} : run'[q] = run[q]
    BY <1>7 DEF TypeOK, EndRun, RunThrows, Over
  <2>2. \A k \in Job \ {run[r].job} : job'[k] = job[k]
    BY <1>7 DEF TypeOK, EndRun, RunThrows, GiveUp
  <2>3. \A q \in Run : run[q].job \in Job \cup {NoJob}
    BY DEF TypeOK, RunRec, UnusedRun
  <2> QED BY <2>1, <2>2, <2>3 DEF Claims
<1>8. CASE Crash
  BY <1>8 DEF TypeOK, Claims, Crash, Over
<1> QED BY <1>1, <1>2, <1>3, <1>4, <1>5, <1>6, <1>7, <1>8, Cases

\* One job per singleton key: a send is dropped while one is queued or active.
LEMMA KeysStep == TypeOK /\ Claims /\ Keys /\ [Next]_vars => Keys'
<1> SUFFICES ASSUME TypeOK, Claims, Keys, [Next]_vars PROVE Keys'
  OBVIOUS
<1> USE DispatchAssumption
<1>1. ASSUME \A k \in Job : \/ job'[k].state = "free"
                           \/ /\ job[k].state # "free"
                              /\ job'[k].task = job[k].task
                              /\ job'[k].fresh = job[k].fresh
      PROVE  Keys'
  BY <1>1 DEF Keys
<1>2. CASE Elsewhere
  BY <1>2, ElsewhereKeeps, <1>1
<1>3. ASSUME NEW c \in pending, SendQueued(c) PROVE Keys'
  <2>1. /\ FreeRow \in Job
        /\ job'[FreeRow].task = c.task /\ job'[FreeRow].fresh = (c.op = "fresh")
        /\ \A k \in Job \ {FreeRow} : job'[k] = job[k]
    BY <1>3, Picked DEF TypeOK, SendQueued
  <2>2. CASE c.op = "fresh"
    BY <2>1, <2>2 DEF Keys
  <2>3. CASE c.op = "plain"
    BY <1>3, <2>1, <2>3 DEF Keys, SendQueued, KeyTaken
  <2> QED BY <1>3, <2>2, <2>3 DEF SendQueued
<1>4. ASSUME NEW j \in Job, job[j].state # "free", job' = GiveUp(j) PROVE Keys'
  BY <1>1, <1>4 DEF TypeOK, GiveUp, FreeJob
<1>5. ASSUME NEW j \in Job, ExpireJob(j) PROVE Keys'
  BY <1>4, <1>5 DEF ExpireJob
<1>6. ASSUME NEW j \in Job, SkipDispatch(j) \/ HaltDispatch(j) PROVE Keys'
  BY <1>1, <1>6 DEF TypeOK, SkipDispatch, HaltDispatch, FreeJob
<1>7. ASSUME NEW j \in Job, LoadTask(j) PROVE Keys'
  BY <1>1, <1>7 DEF TypeOK, LoadTask, CanClaim, JobRec, FreeJob
<1>8. ASSUME NEW r \in Run, Moves(r) PROVE Keys'
  BY <1>1, <1>8, MovesKeep
<1>9. ASSUME NEW r \in Run, EndRun(r) \/ RunThrows(r) PROVE Keys'
  <2>1. run[r].job \in Job \cup {NoJob}
    BY DEF TypeOK, RunRec, UnusedRun
  <2>2. CASE run[r].job = NoJob
    BY <1>1, <1>9, <2>2 DEF EndRun, RunThrows
  <2>3. CASE run[r].job # NoJob /\ EndRun(r)
    BY <1>1, <2>1, <2>3 DEF TypeOK, EndRun, FreeJob
  <2>4. CASE run[r].job # NoJob /\ RunThrows(r)
    BY <1>4, <2>1, <2>4 DEF Claims, RunThrows
  <2> QED BY <1>9, <2>2, <2>3, <2>4
<1>10. CASE Crash
  BY <1>1, <1>10 DEF Crash
<1> QED BY <1>2, <1>3, <1>5, <1>6, <1>7, <1>8, <1>9, <1>10, Cases

-----------------------------------------------------------------------------
(* Traces and links. *)

\* Every running trace keeps a run behind it, or the boot that will fail it.
LEMMA TracesStep == TypeOK /\ Claims /\ Traces /\ [Next]_vars => Traces'
<1> SUFFICES ASSUME TypeOK, Claims, Traces, [Next]_vars PROVE Traces'
  OBVIOUS
<1> USE DispatchAssumption
<1>1. ASSUME UNCHANGED <<trace, server>>, \A q \in Run : run'[q].pc = run[q].pc
      PROVE  Traces'
  BY <1>1 DEF Traces
<1>2. CASE Elsewhere
  <2>1. CASE ReapTraces
    BY <2>1 DEF TypeOK, Traces, ReapTraces, Live
  <2>2. CASE RevertTasks
    BY <2>2 DEF TypeOK, Traces, RevertTasks
  <2>3. CASE ~ReapTraces /\ ~RevertTasks
    BY <1>1, <1>2, <2>3
       DEF Elsewhere, SendDropped, SendFails, PatchWrite, ResetWrite, Finalize, PatchRead,
           Rerun, Wake, Approve, EnqueuePending, taskVars, vars
  <2> QED BY <2>1, <2>2, <2>3
<1>3. ASSUME NEW c \in pending, SendQueued(c) PROVE Traces'
  BY <1>1, <1>3 DEF SendQueued
<1>4. ASSUME NEW j \in Job, ExpireJob(j) PROVE Traces'
  <2>1. \A q \in Run : run'[q].pc = run[q].pc
    BY <1>4 DEF TypeOK, ExpireJob, RunRec, UnusedRun
  <2> QED BY <1>1, <1>4, <2>1 DEF ExpireJob
<1>5. ASSUME NEW j \in Job, SkipDispatch(j) \/ HaltDispatch(j) PROVE Traces'
  BY <1>1, <1>5 DEF SkipDispatch, HaltDispatch
<1>6. ASSUME NEW j \in Job, LoadTask(j) PROVE Traces'
  BY <1>6, Picked DEF TypeOK, Traces, LoadTask, CanClaim, Live
<1>7. ASSUME NEW r \in Run, Moves(r) PROVE Traces'
  <2>1. run'[r].pc \in Live \ {"loaded"} /\ \A q \in Run \ {r} : run'[q] = run[q]
    BY <1>7, MovesKeep
  <2>2. server' = server /\ server = "up"
    BY <1>7, MovesKeep DEF Traces, Moves, InsertTrace, MarkInProgress, Succeed, CloseTask,
                           Bounce, Fail, FailTask
  <2>3. \A q \in Run \ {r} : trace'[q] = trace[q]
    BY <1>7 DEF TypeOK, Moves, InsertTrace, MarkInProgress, Succeed, CloseTask,
                Bounce, Fail, FailTask
  <2>4. trace'[r] = "running" <=> run'[r].pc \in {"opened", "running"}
    <3>1. CASE InsertTrace(r) \/ MarkInProgress(r)
      BY <3>1 DEF TypeOK, Traces, InsertTrace, MarkInProgress, Step, RunRec, UnusedRun
    <3>2. CASE \E next \in Status : Succeed(r, next)
      BY <3>2 DEF TypeOK, Succeed, RunRec, UnusedRun
    <3>4. CASE Fail(r)
      BY <3>4 DEF TypeOK, Fail, Step, RunRec, UnusedRun
    <3>3. CASE CloseTask(r) \/ Bounce(r) \/ FailTask(r)
      <4>1. /\ run[r].pc \in {"closing", "bouncing", "failing"}
            /\ run'[r].pc \in {"bouncing", "returning"}
            /\ trace' = trace
        BY <3>3 DEF TypeOK, CloseTask, Bounce, FailTask, Step, RunRec, UnusedRun
      <4> QED BY <4>1, <2>2 DEF Traces
    <3> QED BY <1>7, <3>1, <3>2, <3>3, <3>4 DEF Moves
  <2> QED BY <2>1, <2>2, <2>3, <2>4 DEF Traces, Live
<1>8. ASSUME NEW r \in Run, EndRun(r) \/ RunThrows(r) PROVE Traces'
  <2>1. /\ run[r].pc \in Live
        /\ run'[r].pc = IF EndRun(r) THEN "ended" ELSE "threw"
        /\ \A q \in Run \ {r} : run'[q] = run[q]
        /\ UNCHANGED <<trace, server>>
        /\ EndRun(r) => run[r].pc = "returning"
    BY <1>8 DEF TypeOK, EndRun, RunThrows, Over, Live
  <2> QED BY <2>1 DEF Traces, Live
<1>9. CASE Crash
  BY <1>9 DEF TypeOK, Traces, Crash, Over, Live
<1> QED BY <1>2, <1>3, <1>4, <1>5, <1>6, <1>7, <1>8, <1>9, Cases

\* A task in progress keeps a link to a run of its own that has not closed it: no
\* handler, edit or sweep breaks this unless a PATCH sets in_progress itself.
LEMMA LinksStep ==
  ASSUME "in_progress" \notin PatchTo
  PROVE  TypeOK /\ Traces /\ Links /\ [Next]_vars => Links'
<1> SUFFICES ASSUME TypeOK, Traces, Links, [Next]_vars PROVE Links'
  OBVIOUS
<1> USE DispatchAssumption
<1> DEFINE Kept == \A t \in Task : status'[t] = "in_progress" =>
                     status[t] = "in_progress" /\ linked'[t] = linked[t]
           Calm == \A c \in pending' : c.op = "patch" => c.to \in PatchTo
           Same(q) == /\ run'[q].pc = run[q].pc /\ run'[q].task = run[q].task
                      /\ run'[q].next = run[q].next
<1>1. ASSUME Kept, Calm, server' = server, \A q \in Run : Same(q)
      PROVE  Links'
  BY <1>1 DEF Links
<1>2. CASE Elsewhere
  <2>1. CASE ReapTraces
    BY <2>1 DEF ReapTraces, Links, taskVars
  <2>2. CASE RevertTasks
    BY <2>2 DEF TypeOK, RevertTasks, Links, Locked
  <2>3. ASSUME NEW c \in pending, SendDropped(c) \/ SendFails(c) \/ PatchWrite(c)
                                  \/ ResetWrite(c) \/ Finalize(c)
        PROVE  Links'
    <3>1. Calm
      BY <2>3 DEF Links, SendDropped, SendFails, PatchWrite, ResetWrite, Finalize, NewCall
    <3>2. Kept
      BY <2>3 DEF TypeOK, Links, SendDropped, SendFails, PatchWrite, ResetWrite, Finalize, taskVars
    <3> QED
      BY <1>1, <2>3, <3>1, <3>2
         DEF SendDropped, SendFails, PatchWrite, ResetWrite, Finalize
  <2>4. ASSUME NEW t \in Task, \/ \E to \in PatchTo : PatchRead(t, to)
                               \/ Rerun(t) \/ Wake(t) \/ Approve(t) \/ EnqueuePending(t)
        PROVE  Links'
    <3>1. Calm
      BY <2>4 DEF Links, PatchRead, Rerun, Wake, Approve, EnqueuePending, NewCall
    <3>2. Kept
      BY <2>4 DEF TypeOK, PatchRead, Rerun, Wake, Approve, EnqueuePending, taskVars
    <3> QED
      BY <1>1, <2>4, <3>1, <3>2 DEF PatchRead, Rerun, Wake, Approve, EnqueuePending
  <2>5. CASE UNCHANGED vars
    BY <2>5 DEF Links, vars, taskVars
  <2> QED BY <1>2, <2>1, <2>2, <2>3, <2>4, <2>5 DEF Elsewhere
<1>3. ASSUME NEW c \in pending, SendQueued(c) PROVE Links'
  BY <1>1, <1>3 DEF Links, SendQueued, taskVars
<1>4. ASSUME NEW j \in Job, ExpireJob(j) PROVE Links'
  <2>1. \A q \in Run : Same(q)
    BY <1>4 DEF TypeOK, ExpireJob, RunRec, UnusedRun
  <2> QED BY <1>1, <1>4, <2>1 DEF Links, ExpireJob, taskVars
<1>5. ASSUME NEW j \in Job, SkipDispatch(j) \/ HaltDispatch(j) PROVE Links'
  BY <1>1, <1>5 DEF Links, SkipDispatch, HaltDispatch, taskVars
<1>6. ASSUME NEW j \in Job, LoadTask(j) PROVE Links'
  <2>1. /\ NewRun \in Run /\ run[NewRun].pc = "unused" /\ server = "up"
        /\ run'[NewRun].next = "todo"
        /\ \A q \in Run \ {NewRun} : run'[q] = run[q]
        /\ UNCHANGED <<taskVars, server, pending>>
    BY <1>6, Picked DEF TypeOK, LoadTask, CanClaim
  <2> QED BY <2>1 DEF Links, taskVars
<1>7. ASSUME NEW r \in Run, Moves(r) PROVE Links'
  <2>1. /\ run'[r].task = run[r].task
        /\ \A q \in Run \ {r} : run'[q] = run[q]
    BY <1>7, MovesKeep
  <2>2. server' = server /\ Calm
    <3>1. CASE pending' = pending
      BY <1>7, <3>1 DEF Links, Moves, InsertTrace, MarkInProgress, Succeed, CloseTask, Bounce,
                        Fail, FailTask
    <3>2. CASE CloseTask(r) \/ Bounce(r)
      BY <3>2 DEF Links, CloseTask, Bounce, NewCall
    <3> QED BY <1>7, <3>1, <3>2 DEF Moves, InsertTrace, MarkInProgress, Succeed, Fail, FailTask
  <2>3. run'[r].next # "in_progress"
    <3>1. CASE \E next \in Status : Succeed(r, next)
      BY <3>1 DEF TypeOK, Succeed, Outcome, RunRec, UnusedRun
    <3>2. CASE ~ \E next \in Status : Succeed(r, next)
      BY <1>7, <3>2 DEF TypeOK, Links, Moves, InsertTrace, MarkInProgress, CloseTask, Bounce,
                        Fail, FailTask, Step, RunRec, UnusedRun
    <3> QED BY <3>1, <3>2
  <2>4. CASE InsertTrace(r) \/ (\E next \in Status : Succeed(r, next)) \/ Fail(r)
    <3>1. /\ UNCHANGED <<status, linked>>
          /\ run[r].pc \in {"loaded", "running"}
          /\ run[r].pc = "running" => run'[r].pc \in {"closing", "failing"}
      <4>1. CASE \E next \in Status : Succeed(r, next)
        BY <4>1 DEF TypeOK, Succeed, taskVars, RunRec, UnusedRun
      <4>2. CASE InsertTrace(r) \/ Fail(r)
        BY <4>2 DEF TypeOK, InsertTrace, Fail, Step, taskVars, RunRec, UnusedRun
      <4> QED BY <2>4, <4>1, <4>2
    <3> QED BY <2>1, <2>2, <2>3, <3>1 DEF Links, Traces, Live
  <2>5. CASE MarkInProgress(r)
    <3>1. /\ run'[r].pc = "running" /\ run[r].pc = "opened"
          /\ \A t \in Task \ {run[r].task} : status'[t] = status[t] /\ linked'[t] = linked[t]
          /\ run[r].task \in Task => linked'[run[r].task] = r
      BY <2>5 DEF TypeOK, MarkInProgress, Step, RunRec, UnusedRun
    <3> QED BY <2>1, <2>2, <2>3, <3>1 DEF Links, Traces, Live
  <2>6. CASE CloseTask(r) \/ Bounce(r) \/ FailTask(r)
    <3>1. run[r].task \in Task /\ run[r].pc \in Live
      BY <2>6, RunFields DEF TypeOK, CloseTask, Bounce, FailTask, Step, Live
    <3>2. /\ status'[run[r].task] # "in_progress"
          /\ \A t \in Task \ {run[r].task} : status'[t] = status[t] /\ linked'[t] = linked[t]
      BY <2>6, <3>1 DEF TypeOK, Links, CloseTask, Bounce, FailTask
    <3> QED BY <2>1, <2>2, <2>3, <3>1, <3>2 DEF Links, Traces
  <2> QED BY <1>7, <2>4, <2>5, <2>6 DEF Moves
<1>8. ASSUME NEW r \in Run, EndRun(r) \/ RunThrows(r) PROVE Links'
  <2>1. /\ run'[r].task = run[r].task /\ run'[r].next = "todo"
        /\ run'[r].pc = IF run[r].pc = "returning" /\ EndRun(r) THEN "ended" ELSE "threw"
        /\ \A q \in Run \ {r} : run'[q] = run[q]
        /\ UNCHANGED <<taskVars, server, pending>>
    BY <1>8 DEF TypeOK, EndRun, RunThrows, Over
  <2> QED BY <2>1 DEF Links, taskVars
<1>9. CASE Crash
  <2>1. \A q \in Run : run'[q].task = run[q].task /\ run'[q].next # "in_progress"
    BY <1>9 DEF TypeOK, Links, Crash, Over
  <2> QED BY <1>9, <2>1 DEF Links, Crash, taskVars
<1> QED BY <1>2, <1>3, <1>4, <1>5, <1>6, <1>7, <1>8, <1>9, Cases

-----------------------------------------------------------------------------
(* The theorems. *)

\* The initial states satisfy the whole invariant.
LEMMA InductiveInit == Init => Inductive
BY DispatchAssumption, RecordTypes
   DEF Init, Inductive, TypeOK, Claims, Keys, Traces, Links, UnusedRun, FreeJob, NewCall, Status, Live

\* The part of the invariant that holds whatever clients put in a PATCH.
Core == TypeOK /\ Claims /\ Keys /\ Traces

\* It is inductive, and needs nothing of PatchTo.
THEOREM CoreInvariant == Spec => []Core
<1>1. Init => Core
  BY InductiveInit DEF Inductive, Core
<1>2. Core /\ [Next]_vars => Core'
  BY TypeStep, ClaimsStep, KeysStep, TracesStep DEF Core
<1> QED BY <1>1, <1>2, PTL DEF Spec

\* Every variable keeps its type: among others, a begun run has a task and a
\* queued or active job is one of a task.
THEOREM TypeCorrect == Spec => []TypeOK
<1>1. Core => TypeOK
  BY DEF Core
<1> QED BY <1>1, CoreInvariant, PTL

\* No trace of a dead run is shown as running by a server that is up.
THEOREM TraceOwnership == Spec => []RunningTraceHasOwner
<1>1. Core => RunningTraceHasOwner
  BY DEF Core, Traces, RunningTraceHasOwner
<1> QED BY <1>1, CoreInvariant, PTL

\* The singleton key keeps two holders of plain jobs off the same task.
THEOREM PlainExclusion == Spec => []PlainClaimsExclusive
<1>1. Core => PlainClaimsExclusive
  <2> SUFFICES ASSUME Core, NEW r1 \in LiveRuns, NEW r2 \in LiveRuns, r1 # r2,
                      run[r1].job # NoJob, ~job[run[r1].job].fresh,
                      run[r2].job # NoJob, ~job[run[r2].job].fresh,
                      run[r1].task = run[r2].task
               PROVE  FALSE
    BY DEF PlainClaimsExclusive
  <2>1. run[r1].job \in Job /\ run[r2].job \in Job
    BY DEF Core, TypeOK, RunRec, UnusedRun, LiveRuns
  <2> QED BY <2>1 DEF Core, Claims, Keys, LiveRuns
<1> QED BY <1>1, CoreInvariant, PTL

\* If no client puts in_progress in a PATCH, the whole invariant holds ...
THEOREM InductiveInvariant ==
  ASSUME "in_progress" \notin PatchTo
  PROVE  Spec => []Inductive
<1>1. Inductive /\ [Next]_vars => Inductive'
  BY TypeStep, ClaimsStep, KeysStep, TracesStep, LinksStep DEF Inductive
<1> QED BY <1>1, InductiveInit, PTL DEF Spec

\* ... and a task in progress always has its run behind it.
THEOREM InProgressIsRun ==
  ASSUME "in_progress" \notin PatchTo
  PROVE  Spec => []InProgressHasRun
<1>1. Inductive => InProgressHasRun
  BY DEF Inductive, Links, InProgressHasRun
<1> QED BY <1>1, InductiveInvariant, PTL

-----------------------------------------------------------------------------
(* Refinement. *)

\* A fresh dispatch is a fresh ledger.
LEMMA LedgerInit == Init => Ledger!Init
BY DEF Init, Ledger!Init, Owner

\* A step that opens no run leaves the owners as they are.
LEMMA OwnersKept ==
  ASSUME TypeOK, TypeOK',
         \A r \in Run : trace'[r] = "none" <=> trace[r] = "none",
         \A r \in Run : trace[r] # "none" => run'[r].task = run[r].task
  PROVE  Owner' = Owner
BY DEF Owner

\* A step on the tasks alone that sets no link takes some away.
LEMMA Unlinks ==
  ASSUME TypeOK, TypeOK', UNCHANGED <<trace, Owner>>,
         \A t \in Task : linked'[t] \in {linked[t], NoRun}
  PROVE  Ledger!Next
<1> DEFINE T == {t \in Task : linked'[t] = NoRun}
<1>1. linked' = [t \in Task |-> IF t \in T THEN NoRun ELSE linked[t]]
  BY DEF TypeOK
<1>2. Ledger!Unlink(T)
  BY <1>1 DEF Ledger!Unlink
<1> QED BY <1>2 DEF Ledger!Next

\* Every step opens, settles or links a run as the ledger allows, or leaves it alone.
LEMMA LedgerStep == Core /\ Core' /\ [Next]_vars => [Ledger!Next]_(Ledger!ledger)
<1> SUFFICES ASSUME Core, Core', [Next]_vars PROVE [Ledger!Next]_(Ledger!ledger)
  OBVIOUS
<1> USE DispatchAssumption
<1>1. TypeOK /\ TypeOK'
  BY DEF Core
<1>2. ASSUME UNCHANGED <<trace, linked>>,
             \A r \in Run : trace[r] # "none" => run'[r].task = run[r].task
      PROVE  UNCHANGED Ledger!ledger
  BY <1>1, <1>2, OwnersKept DEF Ledger!ledger
<1>3. CASE Elsewhere
  <2>1. CASE ReapTraces
    <3>1. Owner' = Owner
      BY <1>1, <2>1, OwnersKept DEF TypeOK, ReapTraces
    <3>2. Ledger!FailAllOpen
      BY <2>1, <3>1 DEF ReapTraces, Ledger!FailAllOpen, taskVars
    <3> QED BY <3>2 DEF Ledger!Next
  <2>2. CASE UNCHANGED vars
    BY <1>2, <2>2 DEF vars, taskVars
  <2>3. CASE ~ReapTraces /\ ~UNCHANGED vars
    <3>1. UNCHANGED <<trace, run>>
      BY <1>3, <2>3, ElsewhereKeeps
         DEF Elsewhere, SendDropped, SendFails, PatchWrite, ResetWrite, Finalize, PatchRead,
             Rerun, Wake, Approve, EnqueuePending, RevertTasks
    <3>2. Owner' = Owner
      BY <3>1 DEF Owner
    <3>3. \A t \in Task : linked'[t] \in {linked[t], NoRun}
      BY <1>1, <1>3, <2>3
         DEF TypeOK, Elsewhere, SendDropped, SendFails, PatchWrite, ResetWrite, Finalize,
             PatchRead, Rerun, Wake, Approve, EnqueuePending, RevertTasks, taskVars
    <3> QED BY <1>1, <3>1, <3>2, <3>3, Unlinks
  <2> QED BY <2>1, <2>2, <2>3
<1>4. ASSUME NEW c \in pending, SendQueued(c) PROVE UNCHANGED Ledger!ledger
  BY <1>2, <1>4 DEF SendQueued, taskVars
<1>5. ASSUME NEW j \in Job, ExpireJob(j) PROVE UNCHANGED Ledger!ledger
  <2>1. \A r \in Run : run'[r].task = run[r].task
    BY <1>1, <1>5 DEF TypeOK, ExpireJob, RunRec, UnusedRun
  <2> QED BY <1>2, <1>5, <2>1 DEF ExpireJob, taskVars
<1>6. ASSUME NEW j \in Job, SkipDispatch(j) \/ HaltDispatch(j) PROVE UNCHANGED Ledger!ledger
  BY <1>2, <1>6 DEF SkipDispatch, HaltDispatch, taskVars
<1>7. ASSUME NEW j \in Job, LoadTask(j) PROVE UNCHANGED Ledger!ledger
  <2>1. trace[NewRun] = "none" /\ \A q \in Run \ {NewRun} : run'[q] = run[q]
    BY <1>1, <1>7, Picked DEF Core, TypeOK, Traces, LoadTask
  <2> QED BY <1>2, <1>7, <2>1 DEF LoadTask, taskVars
<1>8. ASSUME NEW r \in Run, Moves(r) PROVE [Ledger!Next]_(Ledger!ledger)
  <2>1. \A q \in Run : run'[q].task = run[q].task
    BY <1>1, <1>8, MovesKeep
  <2>2. run[r].task \in Task
    BY <1>1, <1>8, MovesKeep, RunFields DEF TypeOK, Live
  <2>3. CASE InsertTrace(r)
    <3>1. trace[r] = "none" /\ trace' = [trace EXCEPT ![r] = "running"] /\ linked' = linked
      BY <1>1, <2>3 DEF Core, TypeOK, Traces, InsertTrace, Step, taskVars
    <3>2. Owner' = [Owner EXCEPT ![r] = run[r].task]
      BY <1>1, <2>1, <3>1 DEF Owner, TypeOK
    <3>3. Ledger!Open(r, run[r].task)
      BY <3>1, <3>2 DEF Ledger!Open
    <3> QED BY <2>2, <3>3 DEF Ledger!Next
  <2>4. CASE MarkInProgress(r)
    <3>1. trace[r] = "running" /\ trace' = trace /\ linked' = [linked EXCEPT ![run[r].task] = r]
      BY <1>1, <2>4 DEF Core, TypeOK, Traces, MarkInProgress, Step
    <3>2. Owner' = Owner
      BY <1>1, <2>1, <3>1, OwnersKept
    <3>3. Ledger!Link(r, run[r].task)
      BY <3>1, <3>2 DEF Ledger!Link, Owner
    <3> QED BY <2>2, <3>3 DEF Ledger!Next
  <2>5. CASE (\E next \in Status : Succeed(r, next)) \/ Fail(r)
    <3>1. PICK result \in {"succeeded", "failed"} :
            trace[r] = "running" /\ trace' = [trace EXCEPT ![r] = result] /\ linked' = linked
      BY <1>1, <2>5 DEF Core, TypeOK, Traces, Succeed, Fail, Step, taskVars
    <3>2. Owner' = Owner
      BY <1>1, <2>1, <3>1, OwnersKept DEF TypeOK
    <3>3. Ledger!Settle(r, result)
      BY <3>1, <3>2 DEF Ledger!Settle
    <3> QED BY <3>3 DEF Ledger!Next
  <2>6. CASE CloseTask(r) \/ Bounce(r) \/ FailTask(r)
    <3>1. trace' = trace /\ \A t \in Task : linked'[t] \in {linked[t], NoRun}
      BY <1>1, <2>6 DEF TypeOK, CloseTask, Bounce, FailTask
    <3>2. Owner' = Owner
      BY <1>1, <2>1, <3>1, OwnersKept
    <3> QED BY <1>1, <3>1, <3>2, Unlinks
  <2> QED BY <1>8, <2>3, <2>4, <2>5, <2>6 DEF Moves
<1>9. ASSUME NEW r \in Run, EndRun(r) \/ RunThrows(r) PROVE UNCHANGED Ledger!ledger
  <2>1. \A q \in Run : run'[q].task = run[q].task
    BY <1>1, <1>9 DEF TypeOK, EndRun, RunThrows, Over
  <2> QED BY <1>2, <1>9, <2>1 DEF EndRun, RunThrows, taskVars
<1>10. CASE Crash
  <2>1. \A q \in Run : run'[q].task = run[q].task
    BY <1>10 DEF Crash, Over
  <2> QED BY <1>2, <1>10, <2>1 DEF Crash, taskVars
<1> QED BY <1>3, <1>4, <1>5, <1>6, <1>7, <1>8, <1>9, <1>10, Cases

\* The dispatch implements the run ledger.
THEOREM LedgerRefinement == Spec => RefinesLedger
<1>1. Core /\ Core' /\ [Next]_vars => [Ledger!Next]_(Ledger!ledger)
  BY LedgerStep
<1> QED BY <1>1, LedgerInit, CoreInvariant, PTL DEF Spec, RefinesLedger, Ledger!Spec

-----------------------------------------------------------------------------
(* The exclusive queue. *)

\* The row of a free job, and what becomes of one that is given up.
LEMMA QueueRows ==
  ASSUME TypeOK, NEW j \in Job
  PROVE  /\ job[j].state = "free" <=> QueueRow(j) = Boss!Free
         /\ job[j].state = "queued" =>
              QueueRow(j) = Boss!Waiting(QueueRow(j).key, job[j].tries)
         /\ job[j].state = "active" =>
              QueueRow(j) = Boss!Active(QueueRow(j).key, job[j].tries)
         /\ QueueRow(j).key = IF job[j].fresh THEN NoTask ELSE job[j].task
         /\ QueueRow(j).tries = job[j].tries
<1>1. job[j] \in JobRec
  BY DEF TypeOK
<1>2. job[j].state = "free" => job[j] = FreeJob
  BY <1>1 DEF JobRec
<1> QED BY <1>1, <1>2 DEF QueueRow, JobRec, FreeJob, Boss!Free, Boss!Waiting, Boss!Active

\* A job that no step touches idles, or loses its handler.
LEMMA JobIdles ==
  ASSUME NEW j \in Job, job'[j] = job[j], Holders(j)' \in {Holders(j), {}}
  PROVE  Boss!RowStep(j)
BY DEF Boss!RowStep, Boss!Idles, Boss!Orphaned, QueueRow

\* A job that is freed has been passed over or completed by the one who held it.
LEMMA JobFreed ==
  ASSUME TypeOK, TypeOK', NEW j \in Job, job'[j] = FreeJob, Holders(j)' = {},
         job[j].state = "queued" \/ (job[j].state = "active" /\ Holders(j) # {})
  PROVE  Boss!RowStep(j)
<1>1. QueueRow(j)' = Boss!Free
  BY DEF QueueRow, FreeJob, Boss!Free
<1>2. CASE job[j].state = "queued"
  BY <1>1, <1>2 DEF Boss!RowStep, Boss!Passed, QueueRow
<1>3. CASE job[j].state = "active" /\ Holders(j) # {}
  BY <1>1, <1>3 DEF Boss!RowStep, Boss!Completed, QueueRow
<1> QED BY <1>2, <1>3

\* An active job given up goes back to waiting while it has tries left.
LEMMA JobGivenUp ==
  ASSUME TypeOK, TypeOK', NEW j \in Job, job[j].state = "active", job' = GiveUp(j),
         Holders(j)' = {}
  PROVE  /\ Boss!RowStep(j)
         /\ \A k \in Job \ {j} : job'[k] = job[k]
<1>1. QueueRow(j)' = IF job[j].tries < RetryLimit
                     THEN Boss!Waiting(QueueRow(j).key, job[j].tries + 1) ELSE Boss!Free
  <2>1. CASE job[j].tries < RetryLimit
    <3>1. job'[j] = [state |-> "queued", task |-> job[j].task,
                     fresh |-> job[j].fresh, tries |-> job[j].tries + 1]
      BY <2>1 DEF TypeOK, GiveUp
    <3> QED BY <2>1, <3>1 DEF QueueRow, Boss!Waiting
  <2>2. CASE ~(job[j].tries < RetryLimit)
    <3>1. job'[j] = FreeJob
      BY <2>2 DEF TypeOK, GiveUp
    <3> QED BY <2>2, <3>1 DEF QueueRow, FreeJob, Boss!Free
  <2> QED BY <2>1, <2>2
<1>2. Boss!GivenUp(j)
  BY <1>1 DEF Boss!GivenUp, QueueRow
<1> QED BY <1>2 DEF Boss!RowStep, TypeOK, GiveUp

\* The handlers of a job, by what a step does to the runs.
LEMMA HoldersKept ==
  ASSUME NEW j \in Job, \A r \in Run : run'[r].job = j <=> run[r].job = j
  PROVE  Holders(j)' = Holders(j)
BY DEF Holders

LEMMA HoldersGone ==
  ASSUME NEW j \in Job, \A r \in Run : run'[r].job # j
  PROVE  Holders(j)' = {}
BY DEF Holders

\* Every step does to each row of the queue what an exclusive queue may do.
LEMMA QueueStep ==
  ASSUME Core, Core', [Next]_vars, NEW j \in Job
  PROVE  Boss!RowStep(j)
<1> USE DispatchAssumption
<1>0. TypeOK /\ TypeOK' /\ Claims /\ Claims' /\ Keys /\ Keys'
  BY DEF Core
<1>1. CASE Elsewhere
  BY <1>1, ElsewhereKeeps, HoldersKept, JobIdles
<1>2. ASSUME NEW c \in pending, SendQueued(c) PROVE Boss!RowStep(j)
  <2>1. run' = run
    BY <1>2 DEF SendQueued
  <2>2. Holders(j)' = Holders(j)
    BY <2>1, HoldersKept
  <2>3. CASE j # FreeRow
    <3>1. job'[j] = job[j]
      BY <1>0, <1>2, <2>3 DEF TypeOK, SendQueued
    <3> QED BY <2>2, <3>1, JobIdles
  <2>4. CASE j = FreeRow
    <3>1. /\ job[j].state = "free"
          /\ job'[j] = [state |-> "queued", task |-> c.task, fresh |-> (c.op = "fresh"), tries |-> 0]
          /\ \A i \in Job \ {j} : job'[i] = job[i]
      BY <1>0, <1>2, <2>4, Picked DEF TypeOK, SendQueued
    <3>2. QueueRow(j) = Boss!Free
      BY <1>0, <3>1, QueueRows
    <3>3. Holders(j)' = {}
      <4>1. \A r \in Run : run[r].job # j
        BY <1>0, <3>1 DEF Claims
      <4> QED BY <2>1, <4>1, HoldersGone
    <3>4. c.task \in Task
      BY <1>0 DEF TypeOK, Call
    <3>5. PICK k \in Task \cup {NoTask} : k = IF c.op = "fresh" THEN NoTask ELSE c.task
      BY <3>4
    <3>6. QueueRow(j)' = Boss!Waiting(k, 0)
      <4>1. /\ job'[j].state = "queued" /\ job'[j].task = c.task /\ job'[j].tries = 0
            /\ job'[j].fresh = (c.op = "fresh")
        BY <3>1
      <4>2. k = IF job'[j].fresh THEN NoTask ELSE job'[j].task
        BY <3>5, <4>1
      <4> QED BY <4>1, <4>2 DEF QueueRow, Boss!Waiting
    <3>7. ASSUME k # NoTask, NEW i \in Job \ {j}
          PROVE  QueueRow(i).key # k /\ QueueRow(i)'.key # k
      <4>1. c.op = "plain" /\ k = c.task
        BY <1>2, <3>5, <3>7 DEF SendQueued
      <4>2. job[i].state = "free" \/ job[i].fresh \/ job[i].task # k
        BY <1>2, <4>1 DEF SendQueued, KeyTaken
      <4>3. job[i].state = "free" => job[i].task = NoTask
        BY <1>0 DEF TypeOK, JobRec, FreeJob
      <4> QED BY <3>1, <3>7, <4>2, <4>3 DEF QueueRow
    <3>8. Boss!Sent(j)
      BY <3>2, <3>3, <3>6, <3>7 DEF Boss!Sent
    <3> QED BY <3>8 DEF Boss!RowStep
  <2> QED BY <2>3, <2>4
<1>3. ASSUME NEW i \in Job, ExpireJob(i) PROVE Boss!RowStep(j)
  <2>1. \A r \in Run : run'[r].job = IF run[r].job = i THEN NoJob ELSE run[r].job
    BY <1>0, <1>3 DEF TypeOK, ExpireJob, RunRec, UnusedRun
  <2>2. job[i].state = "active" /\ job' = GiveUp(i)
    BY <1>3 DEF ExpireJob
  <2>3. Holders(i)' = {}
    BY <2>1, HoldersGone
  <2>4. CASE j = i
    BY <1>0, <2>2, <2>3, <2>4, JobGivenUp
  <2>5. CASE j # i
    <3>1. job'[j] = job[j]
      BY <2>2, <2>5, <1>0 DEF TypeOK, GiveUp
    <3>2. Holders(j)' = Holders(j)
      BY <2>1, <2>5, HoldersKept
    <3> QED BY <3>1, <3>2, JobIdles
  <2> QED BY <2>4, <2>5
<1>4. ASSUME NEW i \in Job, SkipDispatch(i) \/ HaltDispatch(i) PROVE Boss!RowStep(j)
  <2>1. /\ run' = run /\ job[i].state = "queued"
        /\ job' = [job EXCEPT ![i] = FreeJob]
    BY <1>4 DEF SkipDispatch, HaltDispatch, CanClaim
  <2>2. Holders(j)' = Holders(j)
    BY <2>1, HoldersKept
  <2>3. CASE j = i
    <3>1. Holders(j)' = {}
      <4>1. \A r \in Run : run[r].job # j
        BY <1>0, <2>1, <2>3 DEF Claims
      <4> QED BY <2>1, <4>1, HoldersGone
    <3> QED BY <1>0, <2>1, <2>3, <3>1, JobFreed DEF TypeOK
  <2>4. CASE j # i
    BY <1>0, <2>1, <2>2, <2>4, JobIdles DEF TypeOK
  <2> QED BY <2>3, <2>4
<1>5. ASSUME NEW i \in Job, LoadTask(i) PROVE Boss!RowStep(j)
  <2>0. PICK n \in Run : n = NewRun /\ run[n].pc = "unused"
    BY <1>5, Picked DEF LoadTask
  <2>1. /\ job[i].state = "queued"
        /\ run'[n].job = i
        /\ \A r \in Run \ {n} : run'[r] = run[r]
    BY <1>0, <1>5, <2>0 DEF TypeOK, LoadTask, CanClaim
  <2>2. run[n].job = NoJob
    BY <1>0, <2>0 DEF TypeOK, RunRec, UnusedRun
  <2>3. /\ job'[i] = [job[i] EXCEPT !.state = "active"]
        /\ \A k \in Job \ {i} : job'[k] = job[k]
    BY <1>0, <1>5 DEF TypeOK, LoadTask
  <2>4. CASE j = i
    <3>1. \A r \in Run : run[r].job # i
      BY <1>0, <2>1 DEF Claims
    <3>2. Holders(j)' = {n}
      BY <2>1, <2>4, <3>1 DEF Holders
    <3>3. \A k \in Job : n \notin Holders(k)
      BY <2>2 DEF Holders
    <3>4. \A k \in Job \ {j} : n \notin Holders(k)'
      BY <2>1, <2>4 DEF Holders
    <3>5. QueueRow(j)' = Boss!Active(QueueRow(j).key, QueueRow(j).tries)
      <4>1. /\ job'[j].state = "active" /\ job'[j].task = job[j].task
            /\ job'[j].fresh = job[j].fresh /\ job'[j].tries = job[j].tries
        BY <1>0, <2>1, <2>3, <2>4, JobFields DEF TypeOK, JobRec, FreeJob
      <4> QED BY <4>1 DEF QueueRow, Boss!Active
    <3>6. QueueRow(j).state = "waiting"
      BY <2>1, <2>4 DEF QueueRow
    <3>7. Boss!Fetched(j, n)
      BY <3>2, <3>3, <3>4, <3>5, <3>6 DEF Boss!Fetched
    <3> QED BY <3>7 DEF Boss!RowStep
  <2>5. CASE j # i
    <3>1. Holders(j)' = Holders(j)
      BY <2>1, <2>2, <2>5, HoldersKept
    <3> QED BY <2>3, <2>5, <3>1, JobIdles
  <2> QED BY <2>4, <2>5
<1>6. ASSUME NEW r \in Run, Moves(r) PROVE Boss!RowStep(j)
  <2>1. job' = job /\ \A q \in Run : run'[q].job = run[q].job
    BY <1>0, <1>6, MovesKeep
  <2> QED BY <2>1, HoldersKept, JobIdles
<1>7. ASSUME NEW r \in Run, EndRun(r) \/ RunThrows(r) PROVE Boss!RowStep(j)
  <2>1. run'[r].job = NoJob /\ \A q \in Run \ {r} : run'[q] = run[q]
    BY <1>0, <1>7 DEF TypeOK, EndRun, RunThrows, Over
  <2>2. CASE run[r].job = j
    <3>1. job[j].state = "active" /\ r \in Holders(j)
      BY <1>0, <2>2 DEF Claims, Holders
    <3>2. \A q \in Run \ {r} : run[q].job # j
      BY <1>0, <2>2 DEF Claims
    <3>3. Holders(j)' = {}
      BY <2>1, <3>2, HoldersGone
    <3>4. CASE EndRun(r)
      <4>1. job'[j] = FreeJob
        BY <1>0, <2>2, <3>4 DEF TypeOK, EndRun
      <4> QED BY <1>0, <3>1, <3>3, <4>1, JobFreed
    <3>5. CASE RunThrows(r)
      BY <1>0, <2>2, <3>1, <3>3, <3>5, JobGivenUp DEF RunThrows
    <3> QED BY <1>7, <3>4, <3>5
  <2>3. CASE run[r].job # j
    <3>1. Holders(j)' = Holders(j)
      BY <2>1, <2>3, HoldersKept
    <3>2. job'[j] = job[j]
      BY <1>0, <1>7, <2>3 DEF TypeOK, EndRun, RunThrows, GiveUp
    <3> QED BY <3>1, <3>2, JobIdles
  <2> QED BY <2>2, <2>3
<1>8. CASE Crash
  <2>1. job' = job
    BY <1>8 DEF Crash
  <2>2. \A q \in Run : run'[q].job = NoJob
    BY <1>0, <1>8 DEF Crash, Over, Claims, TypeOK, RunRec, UnusedRun
  <2>3. Holders(j)' = {}
    BY <2>2, HoldersGone
  <2> QED BY <2>1, <2>3, JobIdles
<1> QED BY <1>1, <1>2, <1>3, <1>4, <1>5, <1>6, <1>7, <1>8, Cases

\* The dispatch uses its queue as an exclusive queue may be used.
THEOREM QueueRefinement == Spec => RefinesQueue
<1>1. Init => Boss!Init
  <2> SUFFICES ASSUME Init PROVE Boss!Init
    OBVIOUS
  <2>1. \A j \in Job : QueueRow(j) = Boss!Free /\ Holders(j) = {}
    BY DispatchAssumption DEF Init, QueueRow, FreeJob, Boss!Free, Holders, UnusedRun
  <2> QED BY <2>1 DEF Boss!Init
<1>2. Core /\ Core' /\ [Next]_vars => [Boss!Next]_(Boss!queue)
  BY QueueStep DEF Boss!Next
<1> QED BY <1>1, <1>2, CoreInvariant, PTL DEF Spec, RefinesQueue, Boss!Spec
=============================================================================
