----------------------------- MODULE HeadReview -----------------------------
(***************************************************************************)
(* The auto-reviewer, for one delegated task: the writer's deliverables,   *)
(* the verdicts of the reviewers up the org chart, and the pg-boss queue   *)
(* `review.dispatch` that carries at most one job for the task.            *)
(*                                                                         *)
(* A review waits minutes for its agent between reading the task and       *)
(* acting on it.  Meanwhile users and the writer go on, the job may expire *)
(* and be retried, and the server may die.                                 *)
(***************************************************************************)
EXTENDS Integers, FiniteSets

CONSTANTS
  Review,       \* calls of dispatchHeadReview in progress at one time (bound)
  Height,       \* reviewers up the chart before it ends or meets the assignee
  MaxRounds,    \* companies.maxReviewRounds
  RetryLimit,   \* retryLimit of a review job
  MaxVersions,  \* bound on deliverables
  MaxFaults,    \* bound: crashes, verdicts not recorded, reviews outliving their job
  MaxRequests   \* bound: users' moves

ASSUME ReviewAssumption ==
  /\ IsFiniteSet(Review)
  /\ {Height, MaxRounds, RetryLimit, MaxVersions, MaxFaults, MaxRequests} \subseteq Nat

Decision == {"approve", "revise", "reject", "escalate"}

VARIABLES
  status,        \* of the task
  archived,      \* archivedAt is set
  version,       \* the latest succeeded trace of the writer, 0 for none
  writer,        \* the writer's dispatch: TaskDispatch models it in full
  level, rounds, \* the recorded verdicts: escalations, revisions since the last one
  job,           \* the review job of the task
  review,        \* the calls of dispatchHeadReview
  sending,       \* a landing's enqueueReviewDispatch is under way
  server,
  reworks, rejected, published,   \* history: bounces, versions killed, versions sent out
  faults, requests

taskVars == <<status, archived, version, writer>>
verdicts == <<level, rounds>>
history == <<reworks, rejected, published>>
bounds == <<faults, requests>>
vars == <<taskVars, verdicts, job, review, sending, server, history, bounds>>

-----------------------------------------------------------------------------
Live == {"asked", "decided", "recorded", "returning"}
Unused == [pc |-> "unused", level |-> 0, version |-> 0, decision |-> "reject", holds |-> FALSE]

FreeJob == [state |-> "free", tries |-> 0]

\* The chart is climbed one manager per escalation; above its top is nobody.
HasReviewer(n) == n < Height

NewReview == CHOOSE r \in Review : review[r].pc = "unused"
CanBegin == \E r \in Review : review[r].pc = "unused"

Fault == faults < MaxFaults /\ faults' = faults + 1
Request == requests < MaxRequests /\ requests' = requests + 1

Init ==
  /\ status = "todo" /\ archived = FALSE /\ version = 0 /\ writer = "queued"
  /\ level = 0 /\ rounds = 0
  /\ job = FreeJob
  /\ review = [r \in Review |-> Unused]
  /\ sending = FALSE
  /\ server = "up"
  /\ reworks = 0 /\ rejected = {} /\ published = {}
  /\ faults = 0 /\ requests = 0

-----------------------------------------------------------------------------
(* The writer.  Its dispatch is refused only while another run holds the task; *)
(* its close writes the status whatever the task has become meanwhile.         *)

StartWriter ==
  /\ server = "up" /\ writer = "queued" /\ version < MaxVersions
  /\ writer' = "working"
  /\ status' = "in_progress"
  /\ UNCHANGED <<archived, version, verdicts, job, review, sending, server, history, bounds>>

\* The run ends in review: with a REVIEW marker the auto-reviewer is sent for,
\* with children or approvals to wait for it is not.
Deliver(asks) ==
  /\ server = "up" /\ writer = "working"
  /\ writer' = "idle"
  /\ version' = version + 1
  /\ status' = "review"
  /\ sending' = (sending \/ asks)
  /\ UNCHANGED <<archived, verdicts, job, review, server, history, bounds>>

\* The run ends with no marker: done, and published without a review.
Complete ==
  /\ server = "up" /\ writer = "working"
  /\ writer' = "idle"
  /\ version' = version + 1
  /\ status' = "done"
  /\ published' = published \cup {version'}
  /\ UNCHANGED <<archived, verdicts, job, review, sending, server, reworks, rejected, bounds>>

\* The stuck-task sweep, blind to archivedAt.
Sweep ==
  /\ server = "up" /\ status = "todo" /\ writer = "idle"
  /\ writer' = "queued"
  /\ UNCHANGED <<status, archived, version, verdicts, job, review, sending, server, history, bounds>>

Redispatched == IF writer = "idle" THEN "queued" ELSE writer

-----------------------------------------------------------------------------
(* The queue: one key per task, queued or active. *)

EnqueuedAnyway == [state |-> "queued", tries |-> 0]   \* slip: no singletonKey

Enqueued == IF job.state = "free" THEN [state |-> "queued", tries |-> 0] ELSE job

Send ==
  /\ server = "up" /\ sending
  /\ sending' = FALSE
  /\ job' = Enqueued
  /\ UNCHANGED <<taskVars, verdicts, review, server, history, bounds>>

RequeueForEver == [state |-> "queued", tries |-> job.tries + 1]   \* slip: no retryLimit

Requeue == IF job.tries < RetryLimit THEN [state |-> "queued", tries |-> job.tries + 1]
                                     ELSE FreeJob

ExpireInVain ==   \* slip: an expiry that leaves the job active
  /\ server = "up" /\ job.state = "active"
  /\ \A r \in Review : ~review[r].holds
  /\ UNCHANGED vars

\* After a crash the job stays active until it expires.
ExpireOrphan ==
  /\ server = "up" /\ job.state = "active"
  /\ \A r \in Review : ~review[r].holds
  /\ job' = Requeue
  /\ UNCHANGED <<taskVars, verdicts, review, sending, server, history, bounds>>

\* An agent that answers after 15 minutes: its review goes on without the job.
Overrun(r) ==
  /\ review[r].holds /\ review[r].pc = "asked"
  /\ Fault
  /\ job' = Requeue
  /\ review' = [review EXCEPT ![r].holds = FALSE]
  /\ UNCHANGED <<taskVars, verdicts, sending, server, history, requests>>

-----------------------------------------------------------------------------
(* dispatchHeadReview. *)

\* Status, chart and deliverable are looked at once, here; archivedAt is not.
Reviewable == status = "review" /\ HasReviewer(level) /\ version > 0

SkipReview ==
  /\ server = "up" /\ job.state = "queued"
  /\ ~Reviewable
  /\ job' = FreeJob
  /\ UNCHANGED <<taskVars, verdicts, review, sending, server, history, bounds>>

CapReachedLate == rounds > MaxRounds   \* slip: off by one at the cap

\* Revisions since the last escalation.
CapReached == rounds >= MaxRounds

\* Past the cap the verdict is an automatic reject; otherwise the reviewer is asked.
BeginReview ==
  /\ server = "up" /\ job.state = "queued"
  /\ Reviewable /\ CanBegin
  /\ job' = [job EXCEPT !.state = "active"]
  /\ review' = [review EXCEPT ![NewReview] =
       [pc |-> IF CapReached THEN "decided" ELSE "asked",
        level |-> level, version |-> version, decision |-> "reject", holds |-> TRUE]]
  /\ UNCHANGED <<taskVars, verdicts, sending, server, history, bounds>>

\* The reply; one without a verdict that parses is a reject.  A landing's send, one
\* insert, is over before an agent asked meanwhile has answered: a timing assumption.
Answer(r, decision) ==
  /\ review[r].pc = "asked" /\ ~sending
  /\ review' = [review EXCEPT ![r].pc = "decided", ![r].decision = decision]
  /\ UNCHANGED <<taskVars, verdicts, job, sending, server, history, bounds>>

\* Gateway failure: the task is left in review, the job completes.
NoAnswer(r) ==
  /\ review[r].pc = "asked"
  /\ review' = [review EXCEPT ![r].pc = "returning"]
  /\ UNCHANGED <<taskVars, verdicts, job, sending, server, history, bounds>>

Recorded(r, d) == review[r].pc = "recorded" /\ review[r].decision = d

\* recordVerdict.
RecordVerdict(r) ==
  /\ review[r].pc = "decided"
  /\ level' = IF review[r].decision = "escalate" THEN level + 1 ELSE level
  /\ rounds' = CASE review[r].decision = "escalate" -> 0
                 [] review[r].decision = "revise" -> rounds + 1
                 [] OTHER -> rounds
  /\ review' = [review EXCEPT ![r].pc = "recorded"]
  /\ UNCHANGED <<taskVars, job, sending, server, history, bounds>>

\* recordVerdict is best effort: a failed insert is logged and passed over.
RecordFails(r) ==
  /\ review[r].pc = "decided"
  /\ Fault
  /\ review' = [review EXCEPT ![r].pc = "recorded"]
  /\ UNCHANGED <<taskVars, verdicts, job, sending, server, history, requests>>

Act(r, d) ==
  /\ Recorded(r, d)
  /\ review' = [review EXCEPT ![r].pc = "returning"]
  /\ UNCHANGED <<version, verdicts, sending, server, bounds>>

\* finalizeTaskDone: done, and the version that was reviewed goes out.
Approve(r) ==
  /\ Act(r, "approve")
  /\ status' = "done"
  /\ published' = published \cup {review[r].version}
  /\ UNCHANGED <<archived, writer, job, reworks, rejected>>

\* rejectReviewedTask: archived, the status is not touched.
Reject(r) ==
  /\ Act(r, "reject")
  /\ archived' = TRUE
  /\ rejected' = rejected \cup {review[r].version}
  /\ UNCHANGED <<status, writer, job, reworks, published>>

\* bounceTaskToAgent: back to the writer.
Revise(r) ==
  /\ Act(r, "revise")
  /\ status' = "todo"
  /\ writer' = Redispatched
  /\ reworks' = reworks + 1
  /\ UNCHANGED <<archived, job, rejected, published>>

\* Handed to the manager, if there is one, by a send under the task's key.
Escalate(r) ==
  /\ Act(r, "escalate")
  /\ job' = IF HasReviewer(review[r].level + 1) THEN Enqueued ELSE job
  /\ UNCHANGED <<status, archived, writer, history>>

EndThrowing(r) ==   \* slip: something after the verdict throws, and the job is retried
  /\ review[r].pc = "returning"
  /\ job' = IF review[r].holds THEN Requeue ELSE job
  /\ review' = [review EXCEPT ![r] = Unused]
  /\ UNCHANGED <<taskVars, verdicts, sending, server, history, bounds>>

\* The handler returns and its job, if still its own, completes.
EndReview(r) ==
  /\ review[r].pc = "returning"
  /\ job' = IF review[r].holds THEN FreeJob ELSE job
  /\ review' = [review EXCEPT ![r] = Unused]
  /\ UNCHANGED <<taskVars, verdicts, sending, server, history, bounds>>

-----------------------------------------------------------------------------
(* Users, and the life of the server. *)

\* A mention in a comment wakes the writer, whatever the task's state.
Wake ==
  /\ server = "up" /\ Request
  /\ status' = "todo"
  /\ writer' = Redispatched
  /\ UNCHANGED <<archived, version, verdicts, job, review, sending, server, history, faults>>

\* A human moves the card by PATCH; a locked task takes any status, no other walks
\* out of done.  Nothing is published, and no reviewer is sent for.
Edit(to) ==
  /\ server = "up" /\ ~archived /\ Request
  /\ status \notin {to, "done"}
  /\ status' = to
  /\ UNCHANGED <<archived, version, writer, verdicts, job, review, sending, server, history, faults>>

Unarchive ==
  /\ server = "up" /\ archived /\ Request
  /\ archived' = FALSE
  /\ UNCHANGED <<status, version, writer, verdicts, job, review, sending, server, history, faults>>

\* Calls in progress are lost; job rows and the task's row stay.
Crash ==
  /\ server = "up" /\ Fault
  /\ server' = "down"
  /\ review' = [r \in Review |-> Unused]
  /\ sending' = FALSE
  /\ UNCHANGED <<taskVars, verdicts, job, history, requests>>

\* reapOrphans puts the writer's task back to todo; its dispatch is retried.
Boot ==
  /\ server = "down"
  /\ server' = "up"
  /\ status' = IF status = "in_progress" THEN "todo" ELSE status
  /\ writer' = IF writer = "working" THEN "queued" ELSE writer
  /\ UNCHANGED <<archived, version, verdicts, job, review, sending, history, bounds>>

-----------------------------------------------------------------------------
Verdict(r) ==
  \/ \E d \in Decision : Answer(r, d)
  \/ NoAnswer(r) \/ RecordVerdict(r)
  \/ Approve(r) \/ Reject(r) \/ Revise(r) \/ Escalate(r)
  \/ EndReview(r)

Next ==
  \/ StartWriter \/ (\E asks \in BOOLEAN : Deliver(asks)) \/ Complete \/ Sweep
  \/ Send \/ ExpireOrphan \/ SkipReview \/ BeginReview
  \/ \E r \in Review : Verdict(r) \/ Overrun(r) \/ RecordFails(r)
  \/ Wake \/ (\E to \in {"todo", "review", "done"} : Edit(to)) \/ Unarchive
  \/ Crash \/ Boot

Spec == Init /\ [][Next]_vars

\* The pollers of the queue, the server's own continuations, the adapter's timeout
\* (every asked reviewer is answered for within 20 minutes) and an operator who
\* restarts the server.  Nobody is obliged to write, edit or wake.
Fairness ==
  /\ WF_vars(Send) /\ WF_vars(ExpireOrphan) /\ WF_vars(SkipReview \/ BeginReview)
  /\ WF_vars(Boot)
  /\ \A r \in Review : WF_vars(Verdict(r))

FairSpec == Spec /\ Fairness

-----------------------------------------------------------------------------
(* Properties. *)

\* Types; a review job is retried retryLimit times at most.
TypeOK ==
  /\ status \in {"todo", "in_progress", "review", "done"}
  /\ archived \in BOOLEAN /\ sending \in BOOLEAN
  /\ version \in 0..MaxVersions /\ writer \in {"idle", "queued", "working"}
  /\ level \in Nat /\ rounds \in Nat
  /\ job \in [state : {"free", "queued", "active"}, tries : 0..RetryLimit]
  /\ review \in [Review -> [pc : Live \cup {"unused"}, level : 0..Height,
       version : 0..MaxVersions, decision : Decision, holds : BOOLEAN]]
  /\ server \in {"up", "down"}
  /\ reworks \in Nat /\ rejected \subseteq 1..MaxVersions /\ published \subseteq 1..MaxVersions
  /\ faults \in 0..MaxFaults /\ requests \in 0..MaxRequests

AtWork == {r \in Review : review[r].pc \in Live}

\* The exclusive queue keeps one task's reviews apart: with no crash and no review
\* that outlives its job, at most one call is at work on it, and the level it was
\* given to ask is the level on record until its own verdict is in.
OneReviewWhenFaultless ==
  faults = 0 =>
    /\ Cardinality(AtWork) <= 1
    /\ \A r \in AtWork : review[r].pc \in {"asked", "decided"} => review[r].level = level

\* "The loop always terminates": the cap bounds the bounces of a task, over its whole
\* life and whatever users do meanwhile, to MaxRounds for each reviewer of the chart,
\* plus one for each crash, lost verdict or overrun.
ReworksBounded == reworks <= MaxRounds * Height + faults

\* A version a reviewer killed goes out to nobody from then on, wakes, edits and
\* archiving by users notwithstanding, as long as no fault repeats its review.
RejectedStaysUnpublished ==
  [][faults' = 0 => rejected \cap published' \subseteq published]_vars

Rows == {"review"}     \* one row: the queue holds one job of the task

QueueRow ==
  [state |-> IF job.state = "queued" THEN "waiting" ELSE job.state,
   key |-> IF job.state = "free" THEN "none" ELSE "review",
   tries |-> IF job.state = "free" THEN 0 ELSE job.tries]

Holders == {r \in Review : review[r].holds}

Boss == INSTANCE JobQueue WITH
  Row <- Rows, Handler <- Review, Key <- Rows, NoKey <- "none",
  job <- [j \in Rows |-> QueueRow], holders <- [j \in Rows |-> Holders]

\* The reviews use their queue as an exclusive queue may be used, overruns, crashes
\* and escalations sent from inside the active job notwithstanding: only the call
\* that holds the job completes it, and it is retried retryLimit times at most.
RefinesQueue == Boss!Spec

\* A review job does not hold its task's key for ever: it ends, expires after a crash
\* and is retried, or gives up.
KeyEventuallyFree == job.state # "free" ~> job.state = "free"
=============================================================================
