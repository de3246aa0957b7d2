------------------------------ MODULE TaskGraph ------------------------------
(***************************************************************************)
(* Tasks that delegate to children and block on one another: the DELEGATE  *)
(* and BLOCK markers of a turn, and the cascade, run as detached calls     *)
(* when a task settles, that wakes parents and frees dependents.           *)
(*                                                                         *)
(* The dispatch of a task is reduced to a turn: idle, queued, working,     *)
(* closing; TaskDispatch has the rest.  All tasks are assigned, and none   *)
(* is a step of a workflow run.                                            *)
(***************************************************************************)
EXTENDS Integers, FiniteSets

CONSTANTS
  Task, NoTask,
  Parent,        \* parentTaskId of each task, NoTask for a root
  MayBlockOn,    \* the tasks an agent may name in a BLOCK marker, for each task
  EditTo,        \* bound: the statuses users set
  MaxDisturbances \* bound: revise verdicts, crashes and users' edits, all told

Status == {"none", "todo", "in_progress", "review", "blocked", "done", "error"}

ASSUME GraphAssumption ==
  /\ NoTask \notin Task
  /\ Parent \in [Task -> Task \cup {NoTask}]
  /\ MayBlockOn \in [Task -> SUBSET Task]
  /\ EditTo \subseteq {"todo", "review", "done"}
  /\ MaxDisturbances \in Nat

VARIABLES
  status,     \* "none" for a task that is yet to be created
  blockers,   \* blockedByTaskIds
  turn,       \* the dispatch of each task, with what its reply asked for
  waiting,    \* the task was parked in review for its children (history)
  cascades,   \* calls of cascadeOnTaskDone in flight
  unblocks,   \* dependents that calls of unblockDependents have still to treat
  sends,      \* enqueueTaskDispatch under the task's key, in flight
  disturbances, revised, moved, crashed   \* history: verdicts and users' edits by task, a restart

calls == <<cascades, unblocks, sends>>
bounds == <<disturbances, revised, moved, crashed>>
vars == <<status, blockers, turn, waiting, calls, bounds>>

-----------------------------------------------------------------------------
Turns == [pc : {"idle", "queued", "working"}] \cup
  [pc : {"closing"}, next : {"review", "blocked", "done"}, on : SUBSET Task, waits : BOOLEAN]
Idle == [pc |-> "idle"]
Queued == [pc |-> "queued"]

Children(p) == {t \in Task : Parent[t] = p /\ status[t] # "none"}
Settled == {"done", "review"}

SettledIsDone(p) == {t \in Children(p) : status[t] # "done"}   \* slip: review is pending

\* listPendingSiblings.
Pending(p) == {t \in Children(p) : status[t] \notin Settled}

Init ==
  /\ status = [t \in Task |-> IF Parent[t] = NoTask THEN "todo" ELSE "none"]
  /\ blockers = [t \in Task |-> {}]
  /\ turn = [t \in Task |-> Idle]
  /\ waiting = [t \in Task |-> FALSE]
  /\ cascades = {} /\ unblocks = {}
  /\ sends = {t \in Task : Parent[t] = NoTask}
  /\ disturbances = 0 /\ revised = {} /\ moved = {} /\ crashed = FALSE

-----------------------------------------------------------------------------
(* The dispatch, in short. *)

\* A plain send: dropped while a job of the task is queued or active.
Send(t) ==
  /\ t \in sends
  /\ sends' = sends \ {t}
  /\ turn' = IF turn[t] = Idle THEN [turn EXCEPT ![t] = Queued] ELSE turn
  /\ UNCHANGED <<status, blockers, waiting, cascades, unblocks, bounds>>

\* enqueuePendingTasks, while no run is at work on the task.  A task is swept after
\* three minutes of idling, when a send in flight has long landed.
Sweep(t) ==
  /\ status[t] = "todo" /\ turn[t] = Idle /\ t \notin sends
  /\ turn' = [turn EXCEPT ![t] = Queued]
  /\ UNCHANGED <<status, blockers, waiting, calls, bounds>>

Claim(t) ==
  /\ turn[t] = Queued
  /\ turn' = [turn EXCEPT ![t] = [pc |-> "working"]]
  /\ status' = [status EXCEPT ![t] = "in_progress"]
  /\ UNCHANGED <<blockers, waiting, calls, bounds>>

NextWithoutCheck(t, delegated, on, review) ==   \* slip: a turn with no marker is done
  IF on # {} THEN "blocked"
  ELSE IF review \/ delegated # {} THEN "review" ELSE "done"

\* nextStatusAfterDispatch; a turn that asks for nothing is done, unless children
\* are pending.
NextStatus(t, delegated, on, review) ==
  IF on # {} THEN "blocked"
  ELSE IF review \/ delegated # {} \/ Pending(t) # {} THEN "review" ELSE "done"

\* The reply's markers: DELEGATE creates children and sends them out at once, one
\* for each subordinate; BLOCK asks only that the blockers exist.
Reply(t, delegated, on, review) ==
  /\ turn[t].pc = "working"
  /\ \A c \in delegated : Parent[c] = t /\ status[c] = "none"
  /\ \A b \in on : b # t /\ status[b] # "none"
  /\ status' = [c \in Task |-> IF c \in delegated THEN "todo" ELSE status[c]]
  /\ sends' = sends \cup delegated
  /\ LET next == NextStatus(t, delegated, on, review) IN
     turn' = [turn EXCEPT ![t] =
       [pc |-> "closing", next |-> next, on |-> on,
        waits |-> next = "review" /\ (delegated # {} \/ ~review)]]
  /\ UNCHANGED <<blockers, waiting, cascades, unblocks, bounds>>

\* closeSucceededTrace writes the row whatever has become of it; a settled task
\* starts its cascade.  A child's turn takes an agent longer than its parent's close,
\* which follows the reply at once: a timing assumption.
Close(t) ==
  /\ turn[t].pc = "closing"
  /\ \A p \in Task : Parent[t] = p => turn[p].pc # "closing"
  /\ status' = [status EXCEPT ![t] = turn[t].next]
  /\ blockers' = IF turn[t].on # {} THEN [blockers EXCEPT ![t] = turn[t].on] ELSE blockers
  /\ waiting' = [waiting EXCEPT ![t] = turn[t].waits]
  /\ cascades' = IF turn[t].next \in Settled
                 THEN cascades \cup {[task |-> t, at |-> "start"]} ELSE cascades
  /\ turn' = [turn EXCEPT ![t] = Idle]
  /\ UNCHANGED <<unblocks, sends, bounds>>

\* A failed run parks the task in error; nobody is told.
Fail(t) ==
  /\ turn[t].pc = "working"
  /\ turn' = [turn EXCEPT ![t] = Idle]
  /\ status' = [status EXCEPT ![t] = "error"]
  /\ UNCHANGED <<blockers, waiting, calls, bounds>>

-----------------------------------------------------------------------------
(* The cascade: each step is one statement of a detached call. *)

Leave(c) == cascades' = cascades \ {c}
Move(c, to) == cascades' = (cascades \ {c}) \cup {[c EXCEPT !.at = to]}

Dependents(t) == {d \in Task : t \in blockers[d]}

\* Only a done task frees its dependents, whose status is remembered from here.
CascadeStart(c) ==
  /\ c \in cascades /\ c.at = "start"
  /\ unblocks' = IF status[c.task] # "done" THEN unblocks
       ELSE unblocks \cup {[by |-> c.task, of |-> d, was |-> status[d], emptied |-> FALSE] :
                             d \in Dependents(c.task)}
  /\ IF Parent[c.task] = NoTask THEN Leave(c) ELSE Move(c, "siblings")
  /\ UNCHANGED <<status, blockers, turn, waiting, sends, bounds>>

CountSiblings(c) ==
  /\ c \in cascades /\ c.at = "siblings"
  /\ IF Pending(Parent[c.task]) # {} THEN Leave(c) ELSE Move(c, "parent")
  /\ UNCHANGED <<status, blockers, turn, waiting, unblocks, sends, bounds>>

LookAtParent(c) ==
  /\ c \in cascades /\ c.at = "parent"
  /\ IF status[Parent[c.task]] = "done" THEN Leave(c) ELSE Move(c, "wake")
  /\ UNCHANGED <<status, blockers, turn, waiting, unblocks, sends, bounds>>

WakeParent(c) ==
  /\ c \in cascades /\ c.at = "wake"
  /\ LET p == Parent[c.task] IN
     /\ status' = [status EXCEPT ![p] = "todo"]
     /\ waiting' = [waiting EXCEPT ![p] = FALSE]
     /\ sends' = sends \cup {p}
  /\ Leave(c)
  /\ UNCHANGED <<blockers, turn, unblocks, bounds>>

Unblock(u) == [u EXCEPT !.emptied = TRUE]

\* slip: the emptied list is not noticed
UnblockOneSilent(u) ==
  /\ u \in unblocks /\ ~u.emptied
  /\ blockers' = [blockers EXCEPT ![u.of] = @ \ {u.by}]
  /\ unblocks' = unblocks \ {u}
  /\ UNCHANGED <<status, turn, waiting, cascades, sends, bounds>>

\* unblockOne removes in the database and returns what is left.
UnblockOne(u) ==
  /\ u \in unblocks /\ ~u.emptied
  /\ blockers' = [blockers EXCEPT ![u.of] = @ \ {u.by}]
  /\ unblocks' = (unblocks \ {u}) \cup
       (IF blockers'[u.of] = {} /\ u.was = "blocked" THEN {Unblock(u)} ELSE {})
  /\ UNCHANGED <<status, turn, waiting, cascades, sends, bounds>>

Free(u) ==
  /\ u \in unblocks /\ u.emptied
  /\ status' = [status EXCEPT ![u.of] = "todo"]
  /\ sends' = sends \cup {u.of}
  /\ unblocks' = unblocks \ {u}
  /\ UNCHANGED <<blockers, turn, waiting, cascades, bounds>>

-----------------------------------------------------------------------------
(* The auto-reviewer, users, and the end of the process. *)

Disturb == disturbances < MaxDisturbances /\ disturbances' = disturbances + 1

\* A child in review for its own sake, not for its children.
Reviewed(t) == Parent[t] # NoTask /\ status[t] = "review" /\ ~waiting[t]

Approve(t) ==
  /\ Reviewed(t)
  /\ status' = [status EXCEPT ![t] = "done"]
  /\ cascades' = cascades \cup {[task |-> t, at |-> "start"]}
  /\ UNCHANGED <<blockers, turn, waiting, unblocks, sends, bounds>>

Revise(t) ==
  /\ Reviewed(t)
  /\ Disturb /\ revised' = revised \cup {t}
  /\ status' = [status EXCEPT ![t] = "todo"]
  /\ sends' = sends \cup {t}
  /\ UNCHANGED <<blockers, turn, waiting, cascades, unblocks, moved, crashed>>

\* ALLOWED_USER_TRANSITIONS.
UserMay(from, to) ==
  \/ from \in {"todo", "in_progress", "review", "blocked"} \ {to}
  \/ from = "error" /\ to = "todo"

\* PATCH: no cascade follows a user's done, and blockers stay on a task sent to todo.
Edit(t, to) ==
  /\ Disturb /\ moved' = moved \cup {t}
  /\ UserMay(status[t], to)
  /\ status' = [status EXCEPT ![t] = to]
  /\ UNCHANGED <<blockers, turn, waiting, calls, revised, crashed>>

InterruptedOrNot(t) == TRUE   \* slip: boot sends every task it knows

Interrupted(t) == turn[t] # Idle

\* The calls in flight are lost; boot sends every interrupted turn again.
Restart ==
  /\ Disturb /\ crashed' = TRUE
  /\ cascades' = {} /\ unblocks' = {} /\ sends' = {}
  /\ turn' = [t \in Task |-> IF Interrupted(t) THEN Queued ELSE Idle]
  /\ status' = [t \in Task |-> IF status[t] = "in_progress" THEN "todo" ELSE status[t]]
  /\ UNCHANGED <<blockers, waiting, revised, moved>>

-----------------------------------------------------------------------------
Answers(t) ==
  \/ \E delegated \in SUBSET {c \in Task : Parent[c] = t}, on \in SUBSET MayBlockOn[t],
        review \in BOOLEAN : Reply(t, delegated, on, review)
  \/ Fail(t)

Cascade(c) == CascadeStart(c) \/ CountSiblings(c) \/ LookAtParent(c) \/ WakeParent(c)

Next ==
  \/ \E t \in Task :
       \/ Send(t) \/ Sweep(t) \/ Claim(t) \/ Answers(t) \/ Close(t)
       \/ Approve(t) \/ Revise(t)
       \/ \E to \in EditTo : Edit(t, to)
  \/ \E c \in cascades : Cascade(c)
  \/ \E u \in unblocks : UnblockOne(u) \/ Free(u)
  \/ Restart

Spec == Init /\ [][Next]_vars

-----------------------------------------------------------------------------
(* Properties. *)

CascadeAt == {"start", "siblings", "parent", "wake"}

\* Types; a task that was never created has no turn, is nobody's blocker, and is
\* not sent for.
TypeOK ==
  /\ status \in [Task -> Status]
  /\ blockers \in [Task -> SUBSET Task]
  /\ turn \in [Task -> Turns]
  /\ waiting \in [Task -> BOOLEAN]
  /\ cascades \subseteq [task : Task, at : CascadeAt]
  /\ unblocks \subseteq [by : Task, of : Task, was : Status, emptied : BOOLEAN]
  /\ sends \subseteq Task
  /\ disturbances \in 0..MaxDisturbances /\ revised \subseteq Task /\ moved \subseteq Task
  /\ crashed \in BOOLEAN
  /\ \A t \in Task : status[t] = "none" => turn[t] = Idle /\ t \notin sends

\* cascadeOnTaskDone: a parent parked for its children is not forgotten.  Once they
\* have all settled, in whatever order, however their cascades interleave and whatever
\* was revised in between, one of the cascades is still to look at the parent, unless a
\* user moved the parent or a child, or a crash lost the cascades.
SettledChildrenWakeParent ==
  ~crashed => \A p \in Task :
    /\ waiting[p] /\ status[p] = "review" /\ turn[p] = Idle
    /\ Pending(p) = {} /\ ({p} \cup Children(p)) \cap moved = {}
    => \E c \in cascades : Parent[c.task] = p

\* dispatchTask: "a premature `done` is terminal".  A root that delegates to writers
\* only (they have no children of their own) is done only when they are all settled,
\* crashes or not, unless a child was reopened by a reviewer or a card moved by a user.
ParentDoneLast ==
  \A p \in Task :
    /\ status[p] = "done" /\ Parent[p] = NoTask /\ p \notin moved
    /\ Children(p) \cap (moved \cup revised) = {}
    /\ \A c \in Children(p) : Children(c) = {}
    => Pending(p) = {}

\* unblockDependents: however many blockers of a task finish at once, and whatever is
\* revised, or moved by users elsewhere, the last one to be removed frees the task, if it
\* has no children that could wake it first and no crash lost the call.
LastBlockerFrees ==
  ~crashed => \A t \in Task \ moved :
    (status[t] = "blocked" /\ blockers[t] = {} /\ Children(t) = {})
      => \E u \in unblocks : u.of = t /\ u.emptied

\* dispatchTask: a head parked in review "is WAITING on its children, not finished", so a
\* parent is not done while a child is such a head.  It is: the head counts as settled.
NotDoneBeforeHeads ==
  \A p \in Task : status[p] = "done" =>
    \A c \in Children(p) : ~ (status[c] = "review" /\ waiting[c] /\ Pending(c) # {})
=============================================================================
