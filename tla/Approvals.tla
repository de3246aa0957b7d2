------------------------------ MODULE Approvals ------------------------------
(***************************************************************************)
(* Proposals of agents that wait for their operator: decided in the OS or  *)
(* by a button in Telegram, dismissed, or edited first.                    *)
(*                                                                         *)
(* Every handler reads the row, finds it pending, and only later writes:   *)
(* the status first, then the effect of an approval, then what the row     *)
(* tells of it.  Other handlers, and the operator at work on the same      *)
(* files, come in between.                                                 *)
(***************************************************************************)
EXTENDS Integers, Sequences

CONSTANTS
  Approval,     \* the rows
  Call,         \* bound: handlers at work at one time
  MaxRequests,  \* bound: calls of the handlers, and what the operator does by hand
  MaxFaults     \* bound: statements that throw, crashes

ASSUME ApprovalsAssumption == Approval # {} /\ {MaxRequests, MaxFaults} \subseteq Nat

VARIABLES
  row,          \* approvals: status, what is proposed, and the payload
  call,         \* handlers, each with what it has read
  child,        \* tasks created for approved delegations, in order
  file, files,  \* the knowledge file at the path in question: which one, of how many ever
  record,       \* the task or routine that a proposal would remove is there
  edits,        \* versions of payloads ever written
  applied,      \* effects of each approval (history)
  overlapped,   \* approvals two handlers have worked on at once (history)
  lost,         \* approvals whose effect, or the record of it, was lost (history)
  faults, requests

things == <<child, file, files, record>>
history == <<applied, overlapped, lost>>
bounds == <<faults, requests>>
vars == <<row, call, things, edits, history, bounds>>

-----------------------------------------------------------------------------
Verb == {"approve", "reject", "dismiss", "edit"}

\* create, update and delete are of a knowledge file, found by its path; remove is one
\* statement on a row named by its id.
Op == {"delegate", "create", "update", "delete", "remove"}

Stamp == {"none", "spawned", "failed"}
Proposed == [version |-> 0, stamp |-> "none"]
Idle == [pc |-> "idle", a |-> CHOOSE a \in Approval : TRUE, verb |-> "edit",
         payload |-> Proposed, target |-> 0]

At(c, pc) == call[c].pc = pc
Of(c) == row[call[c].a].op

Settled(a) == \A c \in Call : ~At(c, "idle") => call[c].a # a

Goto(c, pc) == call' = [call EXCEPT ![c].pc = pc]
Return(c) == call' = [call EXCEPT ![c] = Idle]

Request == requests < MaxRequests /\ requests' = requests + 1 /\ UNCHANGED faults
Fault == faults < MaxFaults /\ faults' = faults + 1 /\ UNCHANGED requests

Init ==
  /\ row = [a \in Approval |-> [status |-> "none", op |-> "delegate", payload |-> Proposed]]
  /\ call = [c \in Call |-> Idle]
  /\ child = <<>> /\ file = 0 /\ files = 0 /\ record = TRUE
  /\ edits = 0
  /\ applied = [a \in Approval |-> 0] /\ overlapped = {} /\ lost = {}
  /\ faults = 0 /\ requests = 0

-----------------------------------------------------------------------------
(* The handlers. *)

\* A marker of the CEO, or an agent's own request.
Propose(a, op) ==
  /\ row[a].status = "none"
  /\ row' = [row EXCEPT ![a].status = "pending", ![a].op = op]
  /\ UNCHANGED <<call, things, edits, history, bounds>>

DecidableAlways(a, verb) ==      \* slip: a dismissal that does not look at the status
  row[a].status = "pending" \/ (verb = "dismiss" /\ row[a].status = "approved")

DecidableTwice(a, verb) ==       \* slip: approved rows may be approved again
  row[a].status = "pending" \/ (verb = "approve" /\ row[a].status = "approved")

EditableAlways(a, verb) ==       \* slip: an edit that does not look at the status
  row[a].status = "pending" \/ (verb = "edit" /\ row[a].status = "approved")

\* The check of decide, dismiss and the edit: on the row as it is read.
Decidable(a, verb) == row[a].status = "pending"

Read(c, a, verb) ==
  /\ At(c, "idle") /\ Decidable(a, verb) /\ Request
  /\ call' = [call EXCEPT ![c] =
       [pc |-> "read", a |-> a, verb |-> verb, payload |-> row[a].payload, target |-> 0]]
  /\ overlapped' = IF Settled(a) THEN overlapped ELSE overlapped \cup {a}
  /\ UNCHANGED <<row, things, edits, applied, lost>>

Outcome(verb) == CASE verb = "approve" -> "approved"
                   [] verb = "reject" -> "rejected"
                   [] verb = "dismiss" -> "cancelled"

\* The status is written whatever it has become; an approval goes on with the payload as
\* it is now.
Decide(c) ==
  /\ At(c, "read") /\ call[c].verb # "edit"
  /\ row' = [row EXCEPT ![call[c].a].status = Outcome(call[c].verb)]
  /\ call' = IF call[c].verb = "approve"
             THEN [call EXCEPT ![c].pc = "approved", ![c].payload = row[call[c].a].payload]
             ELSE [call EXCEPT ![c] = Idle]
  /\ UNCHANGED <<things, edits, history, bounds>>

Write(c, payload) == row' = [row EXCEPT ![call[c].a].payload = payload]

\* The whole payload is written back, made from the one that was read.
Edit(c) ==
  /\ At(c, "read") /\ call[c].verb = "edit"
  /\ edits' = edits + 1
  /\ Write(c, [call[c].payload EXCEPT !.version = edits'])
  /\ Return(c)
  /\ UNCHANGED <<things, history, bounds>>

Took(c) == applied' = [applied EXCEPT ![call[c].a] = @ + 1] /\ UNCHANGED <<overlapped, lost>>

-----------------------------------------------------------------------------
(* runApprovalSideEffect. *)

\* The proposal is looked at again: its payload, which may have been edited, and the scope
\* and the target of a delegation, for the chart may have changed.
NoLongerValid(c) ==
  /\ At(c, "approved")
  /\ Goto(c, "failing")
  /\ UNCHANGED <<row, things, edits, history, bounds>>

SpawnChild(c) ==
  /\ At(c, "approved") /\ Of(c) = "delegate"
  /\ child' = Append(child, [by |-> call[c].a, version |-> call[c].payload.version])
  /\ Took(c)
  /\ Goto(c, "spawned")
  /\ UNCHANGED <<row, file, files, record, edits, bounds>>

\* spawnedTaskId goes into the payload that the decision returned.
StampSpawned(c) ==
  /\ At(c, "spawned")
  /\ Write(c, [call[c].payload EXCEPT !.stamp = "spawned"])
  /\ Return(c)
  /\ UNCHANGED <<things, edits, history, bounds>>

FoundAnyway(c) == Of(c) = "create" => file = 0      \* slip: the target is not checked

\* A file to create must not be there, one to change must.
Found(c) == IF Of(c) = "create" THEN file = 0 ELSE file # 0

FindFile(c) ==
  /\ At(c, "approved") /\ Of(c) \in {"create", "update", "delete"}
  /\ call' = [call EXCEPT ![c].pc = IF Found(c) THEN "found" ELSE "failing", ![c].target = file]
  /\ UNCHANGED <<row, things, edits, history, bounds>>

\* The unique index on the path has the last word.
InsertFile(c) ==
  /\ At(c, "found") /\ Of(c) = "create"
  /\ IF file = 0
     THEN file' = files + 1 /\ files' = files + 1 /\ Took(c) /\ Return(c)
     ELSE Goto(c, "failing") /\ UNCHANGED <<file, files, history>>
  /\ UNCHANGED <<row, child, record, edits, bounds>>

\* By the id that was found; that no row had it any more is not noticed.
ChangeFile(c) ==
  /\ At(c, "found") /\ Of(c) \in {"update", "delete"}
  /\ IF file = call[c].target
     THEN file' = (IF Of(c) = "delete" THEN 0 ELSE file) /\ Took(c)
     ELSE lost' = lost \cup {call[c].a} /\ UNCHANGED <<file, applied, overlapped>>
  /\ Return(c)
  /\ UNCHANGED <<row, child, files, record, edits, bounds>>

RemovedAnyway(c) == UNCHANGED history /\ Return(c)  \* slip: no row removed, no error

\* A DELETE that removed no row throws.
NotRemoved(c) == UNCHANGED history /\ Goto(c, "failing")

RemoveRecord(c) ==
  /\ At(c, "approved") /\ Of(c) = "remove"
  /\ record' = FALSE
  /\ IF record THEN Took(c) /\ Return(c) ELSE NotRemoved(c)
  /\ UNCHANGED <<row, child, file, files, edits, bounds>>

\* failureReason goes into the payload that the decision returned.
StampFailure(c) ==
  /\ At(c, "failing")
  /\ Write(c, [call[c].payload EXCEPT !.stamp = "failed"])
  /\ Return(c)
  /\ UNCHANGED <<things, edits, history, bounds>>

Handle(c) ==
  \/ Decide(c) \/ Edit(c)
  \/ NoLongerValid(c) \/ SpawnChild(c) \/ StampSpawned(c)
  \/ FindFile(c) \/ InsertFile(c) \/ ChangeFile(c)
  \/ RemoveRecord(c) \/ StampFailure(c)

-----------------------------------------------------------------------------
(* Faults, and the operator at work on the same things. *)

\* A statement of the effect throws: caught, and stamped.  One that throws outside of it
\* ends the handler, and the failure of a stamp is recorded nowhere.
Throw(c) ==
  /\ ~At(c, "idle") /\ Fault
  /\ IF call[c].pc \in {"approved", "found", "spawned"} THEN Goto(c, "failing") ELSE Return(c)
  /\ lost' = IF call[c].pc \in {"spawned", "failing"} THEN lost \cup {call[c].a} ELSE lost
  /\ UNCHANGED <<row, things, edits, applied, overlapped>>

\* The handlers die with the server; no boot or sweep looks at approved rows.
Crash ==
  /\ Fault
  /\ call' = [c \in Call |-> Idle]
  /\ lost' = lost \cup {call[c].a : c \in {d \in Call : call[d].pc \notin {"idle", "read"}}}
  /\ UNCHANGED <<row, things, edits, applied, overlapped>>

CreateByHand ==
  /\ file = 0 /\ Request
  /\ file' = files + 1 /\ files' = files + 1
  /\ UNCHANGED <<row, call, child, record, edits, history>>

DeleteByHand ==
  /\ file # 0 /\ Request
  /\ file' = 0
  /\ UNCHANGED <<row, call, child, files, record, edits, history>>

RemoveByHand ==
  /\ record /\ Request
  /\ record' = FALSE
  /\ UNCHANGED <<row, call, child, file, files, edits, history>>

-----------------------------------------------------------------------------
Next ==
  \/ \E a \in Approval : \/ \E op \in Op : Propose(a, op)
                         \/ \E c \in Call, verb \in Verb : Read(c, a, verb)
  \/ \E c \in Call : Handle(c) \/ Throw(c)
  \/ Crash \/ CreateByHand \/ DeleteByHand \/ RemoveByHand

Spec == Init /\ [][Next]_vars

-----------------------------------------------------------------------------
(* Properties. *)

Payloads == [version : Nat, stamp : Stamp]

\* Types; a handler that goes on to change a file has found one.
TypeOK ==
  /\ row \in [Approval -> [status : {"none", "pending", "approved", "rejected", "cancelled"},
                           op : Op, payload : Payloads]]
  /\ call \in [Call -> [pc : {"idle", "read", "approved", "found", "spawned", "failing"},
                        a : Approval, verb : Verb, payload : Payloads, target : Nat]]
  /\ child \in Seq([by : Approval, version : Nat])
  /\ files \in Nat /\ file \in 0..files /\ record \in BOOLEAN /\ edits \in Nat
  /\ applied \in [Approval -> Nat] /\ overlapped \subseteq Approval /\ lost \subseteq Approval
  /\ faults \in 0..MaxFaults /\ requests \in 0..MaxRequests
  /\ \A c \in Call : At(c, "found") => (call[c].target = 0 <=> Of(c) = "create")

\* "Sets the cancelled terminal status; runs NO side effects": what was rejected or
\* dismissed has done nothing, unless two handlers worked on the row at once.
DeniedHasNoEffect ==
  \A a \in Approval \ overlapped : row[a].status # "approved" => applied[a] = 0

\* An approval takes effect once, whoever decides it, in the OS or from a channel, and
\* whatever throws or crashes, unless two handlers worked on the row at once.
AppliedOnce == \A a \in Approval \ overlapped : applied[a] <= 1

\* "We stamp the failure into the payload so the row tells the story": an approved row
\* that no handler is at work on has taken effect, or says that it has failed, never both;
\* also when two approvals race for one file or one record.
RowTellsTheStory ==
  \A a \in Approval \ (overlapped \cup lost) :
    row[a].status = "approved" /\ Settled(a) =>
      (applied[a] = 1 <=> row[a].payload.stamp # "failed")

\* The child that was spawned is the one the row describes, with its id: no edit came
\* after the approval, and none before it was passed over.
ChildAsRecorded ==
  \A i \in DOMAIN child : LET a == child[i].by IN
    a \notin overlapped \cup lost /\ Settled(a) =>
      row[a].payload = [version |-> child[i].version, stamp |-> "spawned"]
=============================================================================
