----------------------------- MODULE RoutineWork -----------------------------
(***************************************************************************)
(* The worker app: a routine's cron trigger is claimed and fired into a    *)
(* wrapper task, the trace it queues is run by the worker's dispatcher,    *)
(* and what the trace brings is synced to the wrapper and followed by a    *)
(* continuation, a retry or an end.                                        *)
(*                                                                         *)
(* The server is a second process on the same tables: it wakes a wrapper   *)
(* when the children its agent delegated have settled, and its boot fails  *)
(* every running trace.  Its dispatch is reduced to a turn; TaskDispatch   *)
(* has the rest.  The leader lock leaves one worker at a time.             *)
(***************************************************************************)
EXTENDS Integers, Sequences, FiniteSets

CONSTANTS
  MaxFires,         \* bound: slots of the cron expression that come due
  MaxRetries,       \* MAX_RETRY_ATTEMPTS
  MaxContinuation,  \* MAX_CONTINUATION
  MaxTroubles,      \* bound: turns that stall or fail transiently
  MaxFaults,        \* bound: crashes of the worker, boots of the server, throws
  MaxRequests       \* bound: what users do

Wrapper == 1..MaxFires
MaxTraces == MaxFires + MaxTroubles
Trace == 1..MaxTraces

ASSUME RoutineAssumption ==
  {MaxFires, MaxRetries, MaxContinuation, MaxTroubles, MaxFaults, MaxRequests} \subseteq Nat

VARIABLES
  slots,     \* slots that have come due
  due,       \* nextRunAt has passed
  firing,    \* the scheduler's fireTrigger: what it has still to do
  wrapper,   \* the wrapper tasks, in the order of their creation
  trace,     \* the worker's traces of the wrappers, in the order of their creation
  work,      \* executeClaim of each trace
  server,    \* the server's dispatch of each wrapper
  asleep,    \* wrappers whose last turn gave the worker nothing to go on with (history)
  nudged,    \* wrappers whose agent delegated and stalled at once (history)
  troubles, faults, requests

bounds == <<troubles, faults, requests>>
vars == <<slots, due, firing, wrapper, trace, work, server, asleep, nudged, bounds>>

-----------------------------------------------------------------------------
(* Vocabulary. *)

\* How a turn ends.  A refused delegation creates no child; a silent turn has no text.
Accepted == {"done", "review", "delegated", "refused", "silent"}
Stalled == {"stalled", "stalled_delegating"}
Failed == {"transient", "permanent", "timed_out"}
Delegating == {"delegated", "stalled_delegating"}

Wrappers == [status : {"todo", "in_progress", "review", "done", "error"},
             archived : BOOLEAN, children : {"none", "pending", "settled"}]

Live == {"queued", "running"}
Traces == [of : Wrapper, status : Live \cup {"succeeded", "failed", "cancelled"},
           retry : 0..MaxRetries, continuation : 0..MaxContinuation,
           outcome : {"none"} \cup Accepted \cup Stalled \cup Failed]

At(i, pc) == work' = [work EXCEPT ![i] = pc]
Fault == faults < MaxFaults /\ faults' = faults + 1 /\ UNCHANGED <<troubles, requests>>
Request == requests < MaxRequests /\ requests' = requests + 1 /\ UNCHANGED <<troubles, faults>>

Row(w, status) == wrapper' = [wrapper EXCEPT ![w].status = status]

Created == DOMAIN wrapper
Working == {i \in Trace : work[i] # "idle"}
LiveTraces(w) == {i \in DOMAIN trace : trace[i].of = w /\ trace[i].status \in Live}

\* The server's turn inserts a running trace of the same task and agent.
HasLiveTrace(w) == LiveTraces(w) # {} \/ server[w] = "working"

Init ==
  /\ slots = 0 /\ due = FALSE
  /\ firing = "idle"
  /\ wrapper = <<>> /\ trace = <<>>
  /\ work = [i \in Trace |-> "idle"]
  /\ server = [w \in Wrapper |-> "idle"]
  /\ asleep = {} /\ nudged = {}
  /\ troubles = 0 /\ faults = 0 /\ requests = 0

-----------------------------------------------------------------------------
(* wakeup: a live trace of the task takes the wake in, else a trace is queued. *)

Queued(w, retry, continuation) ==
  [of |-> w, status |-> "queued", retry |-> retry, continuation |-> continuation, outcome |-> "none"]

Wakeup(w, retry, continuation) ==
  trace' = IF HasLiveTrace(w) THEN trace ELSE Append(trace, Queued(w, retry, continuation))

-----------------------------------------------------------------------------
(* The scheduler. *)

SlotComesDue ==
  /\ slots < MaxFires
  /\ slots' = slots + 1 /\ due' = TRUE
  /\ UNCHANGED <<firing, wrapper, trace, work, server, asleep, nudged, bounds>>

DueStays == due          \* slip: next_run_at is left to the end of the fire
DueMoved == FALSE        \* next_run_at moves on in the transaction that claims

\* claimDueTriggers: slots missed meanwhile are one fire.
ClaimTrigger ==
  /\ due /\ firing = "idle"
  /\ due' = DueMoved
  /\ firing' = "claimed"
  /\ UNCHANGED <<slots, wrapper, trace, work, server, asleep, nudged, bounds>>

CreateWrapper ==
  /\ firing = "claimed"
  /\ Len(wrapper) < MaxFires
  /\ wrapper' = Append(wrapper, [status |-> "in_progress", archived |-> FALSE, children |-> "none"])
  /\ firing' = "created"
  /\ UNCHANGED <<slots, due, trace, work, server, asleep, nudged, bounds>>

\* The wake of the assignee; the routineRuns row that records the fire is not modelled.
FireWake ==
  /\ firing = "created"
  /\ Wakeup(Len(wrapper), 0, 0)
  /\ firing' = "idle"
  /\ UNCHANGED <<slots, due, wrapper, work, server, asleep, nudged, bounds>>

\* A throw in fireTrigger ends in a failed routineRuns row: the wrapper, if there, stays.
FireThrows ==
  /\ firing # "idle"
  /\ Fault
  /\ asleep' = IF firing = "created" THEN asleep \cup {Len(wrapper)} ELSE asleep
  /\ firing' = "idle"
  /\ UNCHANGED <<slots, due, wrapper, trace, work, server, nudged>>

ReapableInReview == {"review"}               \* slip: in_progress is not listed
Reapable == {"in_progress", "review"}

\* reapStaleRoutineWrappers, after the fires of the tick: two hours may have gone by
\* without a write to the row whatever is at work on it.
Reap(w) ==
  /\ firing = "idle"
  /\ w \in Created /\ ~ wrapper[w].archived
  /\ wrapper[w].status \in Reapable
  /\ wrapper' = [wrapper EXCEPT ![w].archived = TRUE]
  /\ UNCHANGED <<slots, due, firing, trace, work, server, asleep, nudged, bounds>>

-----------------------------------------------------------------------------
(* The dispatcher: a batch is claimed when the one before it has ended. *)

Claim(B) ==
  /\ B # {} /\ Working = {}
  /\ \A i \in B : i \in DOMAIN trace /\ trace[i].status = "queued"
  /\ trace' = [i \in DOMAIN trace |->
                 IF i \in B THEN [trace[i] EXCEPT !.status = "running"] ELSE trace[i]]
  /\ work' = [i \in Trace |-> IF i \in B THEN "start" ELSE "idle"]
  /\ UNCHANGED <<slots, due, firing, wrapper, server, asleep, nudged, bounds>>

\* syncTaskOnTraceStart, and the call of the adapter.
Start(i) ==
  LET w == trace[i].of IN
  /\ work[i] = "start"
  /\ At(i, "ask")
  /\ IF wrapper[w].status = "todo" THEN Row(w, "in_progress") ELSE UNCHANGED wrapper
  /\ UNCHANGED <<slots, due, firing, trace, server, asleep, nudged, bounds>>

\* Agent or adapter gone, or executeClaim throws before or just after its finalizeTrace:
\* the trace is failed, the task left alone.
GiveUp(i) ==
  /\ work[i] \in {"start", "ask", "sync", "retry"}
  /\ Fault
  /\ trace' = [trace EXCEPT ![i].status = "failed"]
  /\ At(i, "idle")
  /\ asleep' = asleep \cup {trace[i].of}
  /\ UNCHANGED <<slots, due, firing, wrapper, server, nudged>>

\* finalizeTrace writes whatever the row holds, a user's cancel included.
Answer(i, o) ==
  LET w == trace[i].of IN
  /\ work[i] = "ask"
  /\ o = "refused" \/ o \in Delegating => (o = "refused") = (wrapper[w].children # "none")
  /\ troubles' = IF o \in Stalled \cup {"transient"} THEN troubles + 1 ELSE troubles
  /\ troubles' <= MaxTroubles
  /\ trace' = [trace EXCEPT ![i].status = IF o \in Failed THEN "failed" ELSE "succeeded",
                            ![i].outcome = o]
  /\ At(i, IF o \in Failed THEN "retry" ELSE "sync")
  /\ nudged' = IF o = "stalled_delegating" THEN nudged \cup {w} ELSE nudged
  /\ UNCHANGED <<slots, due, firing, wrapper, server, asleep, faults, requests>>

Target(o) == CASE o = "done" -> "done" [] o = "review" -> "review" [] OTHER -> "in_progress"

\* syncTaskOnTraceSucceeded: only from an active status, and not for an empty or stalled turn.
SyncSucceeded(i) ==
  LET w == trace[i].of  o == trace[i].outcome IN
  /\ work[i] = "sync"
  /\ IF o \notin Stalled \cup {"silent"} /\ wrapper[w].status \in {"todo", "in_progress"}
     THEN Row(w, Target(o)) ELSE UNCHANGED wrapper
  /\ At(i, "delegate")
  /\ UNCHANGED <<slots, due, firing, trace, server, asleep, nudged, bounds>>

NudgedAlways(o) == o \in Stalled \cup Delegating   \* slip: a delegation is nudged on
Nudged(o) == o \in Stalled                         \* liveness other than normal

\* executeWorkerDelegations: the children are tasks the server dispatches.
Delegate(i) ==
  LET w == trace[i].of  o == trace[i].outcome IN
  /\ work[i] = "delegate"
  /\ wrapper' = IF o \in Delegating THEN [wrapper EXCEPT ![w].children = "pending"] ELSE wrapper
  /\ At(i, IF Nudged(o) THEN "nudge" ELSE "idle")
  /\ asleep' = IF o \in {"refused", "silent"} THEN asleep \cup {w} ELSE asleep
  /\ UNCHANGED <<slots, due, firing, trace, server, nudged, bounds>>

NudgesLeftLate(i) == trace[i].continuation <= MaxContinuation   \* slip: off by one
NudgesLeft(i) == trace[i].continuation < MaxContinuation

\* decideTraceContinuation, up to its look at the task.
LookForContinuation(i) ==
  LET w == trace[i].of
      goesOn == NudgesLeft(i) /\ wrapper[w].status \notin {"done", "review"} IN
  /\ work[i] = "nudge"
  /\ At(i, IF goesOn THEN "continue" ELSE "idle")
  /\ asleep' = IF goesOn THEN asleep ELSE asleep \cup {w}
  /\ UNCHANGED <<slots, due, firing, wrapper, trace, server, nudged, bounds>>

\* The wake of a continuation: its count of failures starts again.
Continue(i) ==
  /\ work[i] = "continue"
  /\ Wakeup(trace[i].of, 0, trace[i].continuation + 1)
  /\ At(i, "idle")
  /\ UNCHANGED <<slots, due, firing, wrapper, server, asleep, nudged, bounds>>

RetriesLeftLate(i) == trace[i].outcome = "transient" /\ trace[i].retry <= MaxRetries  \* slip: off by one
RetriesLeft(i) == trace[i].outcome = "transient" /\ trace[i].retry < MaxRetries

RetriedNever(i) == FALSE   \* slip: retryEnqueued is not set
Retried(i) == RetriesLeft(i) /\ ~ HasLiveTrace(trace[i].of)

\* decideRetryOnFailure: a wake that is taken in by a live trace is no retry.
\* The retry's count of continuations starts again.
Retry(i) ==
  /\ work[i] = "retry"
  /\ IF RetriesLeft(i) THEN Wakeup(trace[i].of, trace[i].retry + 1, 0) ELSE UNCHANGED trace
  /\ At(i, IF Retried(i) THEN "idle" ELSE "fail")
  /\ UNCHANGED <<slots, due, firing, wrapper, server, asleep, nudged, bounds>>

SyncedIfFailed(i) == trace[i].outcome # "timed_out"   \* slip: a timeout is no failure
Synced(i) == trace[i].outcome \in Failed

\* syncTaskOnTraceFailed reads the status ...
SyncFailed(i) ==
  LET w == trace[i].of IN
  /\ work[i] = "fail"
  /\ At(i, IF Synced(i) /\ wrapper[w].status # "done" THEN "park" ELSE "idle")
  /\ UNCHANGED <<slots, due, firing, wrapper, trace, server, asleep, nudged, bounds>>

\* ... and parks the task in error whatever it has become since.
Park(i) ==
  /\ work[i] = "park"
  /\ Row(trace[i].of, "error")
  /\ At(i, "idle")
  /\ UNCHANGED <<slots, due, firing, trace, server, asleep, nudged, bounds>>

\* A throw in one of the calls after the turn is logged, and the next call made.
CallThrows(i) ==
  /\ work[i] \in {"sync", "delegate", "continue", "retry", "fail", "park"}
  /\ Fault
  /\ At(i, CASE work[i] = "sync" -> "delegate"
             [] work[i] = "delegate" /\ Nudged(trace[i].outcome) -> "nudge"
             [] work[i] = "retry" -> "fail"
             [] OTHER -> "idle")
  /\ asleep' = asleep \cup {trace[i].of}
  /\ UNCHANGED <<slots, due, firing, wrapper, trace, server, nudged>>

-----------------------------------------------------------------------------
(* The server. *)

\* The last child settles: cascadeOnTaskDone wakes the wrapper, archived or not.
Cascade(w) ==
  /\ w \in Created /\ wrapper[w].children = "pending"
  /\ IF wrapper[w].status = "done"
     THEN /\ wrapper' = [wrapper EXCEPT ![w].children = "settled"]
          /\ UNCHANGED server
     ELSE /\ wrapper' = [wrapper EXCEPT ![w].children = "settled", ![w].status = "todo"]
          /\ server' = IF server[w] = "idle" THEN [server EXCEPT ![w] = "queued"] ELSE server
  /\ UNCHANGED <<slots, due, firing, trace, work, asleep, nudged, bounds>>

Sweep(w) ==
  /\ w \in Created /\ wrapper[w].status = "todo" /\ server[w] = "idle"
  /\ server' = [server EXCEPT ![w] = "queued"]
  /\ UNCHANGED <<slots, due, firing, wrapper, trace, work, asleep, nudged, bounds>>

\* The guard looks at the link alone, which the worker never sets.
ServerStart(w) ==
  /\ server[w] = "queued"
  /\ server' = [server EXCEPT ![w] = "working"]
  /\ Row(w, "in_progress")
  /\ UNCHANGED <<slots, due, firing, trace, work, asleep, nudged, bounds>>

ServerFinish(w, status) ==
  /\ server[w] = "working"
  /\ server' = [server EXCEPT ![w] = "idle"]
  /\ Row(w, status)
  /\ UNCHANGED <<slots, due, firing, trace, work, asleep, nudged, bounds>>

\* reapOrphans: every running trace, the worker's too; and the tasks linked to one.
ServerBoot ==
  /\ Fault
  /\ trace' = [i \in DOMAIN trace |-> IF trace[i].status = "running"
                 THEN [trace[i] EXCEPT !.status = "failed"] ELSE trace[i]]
  /\ wrapper' = [w \in Created |-> IF server[w] = "working" /\ wrapper[w].status = "in_progress"
                 THEN [wrapper[w] EXCEPT !.status = "todo"] ELSE wrapper[w]]
  /\ server' = [w \in Wrapper |-> IF server[w] = "working" THEN "idle" ELSE server[w]]
  /\ UNCHANGED <<slots, due, firing, work, asleep, nudged>>

-----------------------------------------------------------------------------
(* Crashes of the worker, and users. *)

\* Nothing of what was at work is taken up again; its traces stay running.
WorkerCrash ==
  /\ Fault
  /\ work' = [i \in Trace |-> "idle"]
  /\ firing' = "idle"
  /\ asleep' = asleep \cup {trace[i].of : i \in Working}
                      \cup IF firing = "created" THEN {Len(wrapper)} ELSE {}
  /\ UNCHANGED <<slots, due, wrapper, trace, server, nudged>>

\* The row is marked; nothing tells the adapter.
CancelTrace(i) ==
  /\ i \in DOMAIN trace /\ trace[i].status \in Live
  /\ Request
  /\ trace' = [trace EXCEPT ![i].status = "cancelled"]
  /\ asleep' = IF work[i] = "idle" THEN asleep \cup {trace[i].of} ELSE asleep
  /\ UNCHANGED <<slots, due, firing, wrapper, work, server, nudged>>

UserDone(w) ==
  /\ w \in Created /\ wrapper[w].status # "done"
  /\ Request
  /\ Row(w, "done")
  /\ UNCHANGED <<slots, due, firing, trace, work, server, asleep, nudged>>

Scheduler == SlotComesDue \/ ClaimTrigger \/ CreateWrapper \/ FireWake \/ FireThrows
             \/ \E w \in Wrapper : Reap(w)

Step(i) == Start(i) \/ SyncSucceeded(i) \/ Delegate(i) \/ LookForContinuation(i) \/ Continue(i)
           \/ Retry(i) \/ SyncFailed(i) \/ Park(i)

Dispatcher ==
  \/ \E B \in SUBSET Trace : Claim(B)
  \/ \E i \in Trace : Step(i) \/ GiveUp(i) \/ CallThrows(i) \/ \E o \in Accepted \cup Stalled \cup Failed : Answer(i, o)

Server ==
  \/ \E w \in Wrapper : Cascade(w) \/ Sweep(w) \/ ServerStart(w)
                        \/ \E s \in {"done", "review", "error"} : ServerFinish(w, s)
  \/ ServerBoot

Next ==
  \/ Scheduler \/ Dispatcher \/ Server
  \/ WorkerCrash
  \/ \E i \in Trace : CancelTrace(i)
  \/ \E w \in Wrapper : UserDone(w)

Spec == Init /\ [][Next]_vars

\* Timers fire and calls return: the worker's, and the server's for what it wakes.
Fairness ==
  /\ WF_vars(ClaimTrigger) /\ WF_vars(CreateWrapper) /\ WF_vars(FireWake)
  /\ WF_vars(\E B \in SUBSET Trace : Claim(B))
  /\ \A i \in Trace : WF_vars(Step(i))
                      /\ WF_vars(\E o \in Accepted \cup Stalled \cup Failed : Answer(i, o))
  /\ \A w \in Wrapper : WF_vars(Reap(w)) /\ WF_vars(Sweep(w))
                        /\ WF_vars(ServerStart(w))
                        /\ WF_vars(\E s \in {"done", "review", "error"} : ServerFinish(w, s))

LiveSpec == Spec /\ Fairness

-----------------------------------------------------------------------------
(* Properties. *)

TypeOK ==
  /\ slots \in 0..MaxFires /\ due \in BOOLEAN
  /\ firing \in {"idle", "claimed", "created"}
  /\ Len(wrapper) <= MaxFires /\ wrapper \in Seq(Wrappers)
  /\ Len(trace) <= MaxTraces /\ trace \in Seq(Traces)
  /\ work \in [Trace -> {"idle", "start", "ask", "sync", "delegate", "nudge", "continue",
                         "retry", "fail", "park"}]
  /\ server \in [Wrapper -> {"idle", "queued", "working"}]
  /\ asleep \subseteq Wrapper /\ nudged \subseteq Wrapper
  /\ troubles \in 0..MaxTroubles /\ faults \in 0..MaxFaults /\ requests \in 0..MaxRequests

\* A slot of the cron expression is fired once at most, whatever throws or dies on the way:
\* the claim moves next_run_at on before anything is created.
OneWrapperPerSlot ==
  Len(wrapper) + (IF firing = "claimed" THEN 1 ELSE 0) + (IF due THEN 1 ELSE 0) <= slots

\* A wrapper on the board as in progress is being worked for: by a trace of the worker, by
\* the server, or by its children.  What may leave it there with nothing behind it is a turn
\* that answered nothing of use, a cancelled trace, or a worker that threw or died; a turn that
\* failed or timed out never does.
InProgressHasCause == \A w \in Created :
  wrapper[w].status = "in_progress" /\ ~ wrapper[w].archived =>
    \/ LiveTraces(w) # {} \/ \E i \in Working : trace[i].of = w
    \/ server[w] # "idle" \/ wrapper[w].children = "pending"
    \/ firing = "created" /\ w = Len(wrapper)
    \/ w \in asleep

\* The worker and the server do not run the same wrapper at the same time: the server is woken
\* by children, which the worker's agent delegates in its last turn.  An agent that delegates
\* and stalls in one reply is nudged on beside its children.
OneProcessPerWrapper == \A w \in Created \ nudged :
  server[w] = "working" => \A i \in Working : trace[i].of # w

\* A wrapper the worker has parked in error is not being retried behind the operator's back.
ParkedIsQuiet == \A w \in Created \ nudged :
  wrapper[w].status = "error" => LiveTraces(w) = {}

\* The turns of a wrapper, and those of them from one up to another.
Turns(w) == {i \in DOMAIN trace : trace[i].of = w}
Between(w, i, j) == {k \in Turns(w) : i <= k /\ k < j}

\* At most MaxRetries failures in a row are retried: of turns that failed transiently one after
\* another, no more than MaxRetries are followed by a turn of the same wrapper.
RetriesEnd == \A w \in Created : \A i, j \in Turns(w) :
  (\A k \in Between(w, i, j) : trace[k].outcome = "transient")
    => Cardinality(Between(w, i, j)) <= MaxRetries

\* The worker's own turns for a wrapper come to an end: each of at most MaxContinuation
\* continuations, and the first turn, is retried MaxRetries times at most.
TurnsBounded == \A w \in Created :
  Cardinality(Turns(w)) <= (1 + MaxContinuation) * (1 + MaxRetries)

\* Whatever fails, a wrapper that was fired comes to an end on the board: done, parked in
\* error, or archived as stale.
Closed(w) == w \in Created /\ (wrapper[w].archived \/ wrapper[w].status \in {"done", "error"})
WrapperEventuallyCloses == \A w \in Wrapper : (w \in Created) ~> Closed(w)
=============================================================================
