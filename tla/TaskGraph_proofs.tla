--------------------------- MODULE TaskGraph_proofs ---------------------------
(***************************************************************************)
(* Proofs about TaskGraph, for any number of tasks, any tree of parents    *)
(* and any number of revisions, edits and restarts.                        *)
(***************************************************************************)
EXTENDS TaskGraph, TLAPS

-----------------------------------------------------------------------------
(* The inductive invariant. *)

\* What is blocked, freed, settled or a parent has been created.
Exists ==
  /\ \A t \in Task : blockers[t] # {} => status[t] # "none"
  /\ \A t \in Task : status[t] # "none" /\ Parent[t] # NoTask => status[Parent[t]] # "none"
  /\ \A u \in unblocks : status[u.of] # "none"
  /\ \A c \in cascades :
       status[c.task] # "none" /\ (c.at # "start" => Parent[c.task] # NoTask)

Core == TypeOK /\ Exists

\* The turn of a task and its status agree.
InStep(t) ==
  /\ turn[t].pc = "idle" => status[t] # "in_progress"
  /\ turn[t].pc = "queued" => status[t] = "todo"
  /\ turn[t].pc \in {"working", "closing"} => status[t] = "in_progress"
  /\ turn[t].pc = "closing" => (turn[t].next = "blocked" <=> turn[t].on # {})
  /\ t \in sends => status[t] = "todo" /\ turn[t].pc = "idle"

\* Only a blocked task has blockers, and calls of unblockDependents that treat it; of
\* these one at most has found the list empty, and each other has its blocker to remove.
BlockedBy(t) ==
  /\ blockers[t] # {} => status[t] = "blocked"
  /\ \A u \in unblocks : u.of = t =>
       /\ status[t] = "blocked" /\ u.was = "blocked"
       /\ IF u.emptied THEN blockers[t] = {} ELSE u.by \in blockers[t]
  /\ \A u, v \in unblocks : u.of = t /\ v.of = t /\ u.emptied /\ v.emptied => u = v

Childless(t) == t \notin moved /\ Children(t) = {}

\* A task without children, left alone by users, is moved by its turns and blockers only.
Quiet == \A t \in Task : Childless(t) => InStep(t) /\ BlockedBy(t)

\* A blocked task without blockers has the call that frees it.
Freed(t) ==
  status[t] = "blocked" /\ blockers[t] = {} => \E u \in unblocks : u.of = t /\ u.emptied

FreedLast == ~crashed => \A t \in Task : Childless(t) => Freed(t)

\* A parent whose children are settled is looked at by one of their cascades; one that
\* is about to be parked for them has one that is not.
Unmoved(p) == ({p} \cup Children(p)) \cap moved = {}

Looked(p) ==
  waiting[p] /\ status[p] = "review" /\ Pending(p) = {} => \E c \in cascades : Parent[c.task] = p

Parking(p) == turn[p].pc = "closing" /\ turn[p].waits => Pending(p) # {}

Woken == ~crashed => \A p \in Task : Unmoved(p) => Looked(p) /\ Parking(p)

\* A root over writers is done, or about to be, with nothing pending.
FlatRoot(p) ==
  /\ Parent[p] = NoTask /\ p \notin moved
  /\ Children(p) \cap (moved \cup revised) = {}
  /\ \A c \in Children(p) : Children(c) = {}

DoneLast(p) ==
  /\ status[p] = "done" => Pending(p) = {}
  /\ turn[p].pc = "closing" /\ turn[p].next = "done" => Pending(p) = {}
  /\ turn[p].pc \in {"working", "closing"} => status[p] # "done"

RootsLast == \A p \in Task : FlatRoot(p) => DoneLast(p)

IInv == Core /\ Quiet /\ FreedLast /\ Woken /\ RootsLast

-----------------------------------------------------------------------------
(* Types. *)

\* A turn is idle, queued or working and no more, or closing with what was asked for.
LEMMA TurnType ==
  ASSUME NEW x \in Turns
  PROVE  /\ x.pc \in {"idle", "queued", "working", "closing"}
         /\ x.pc = "idle" => x = Idle
         /\ x.pc = "queued" => x = Queued
         /\ x.pc = "closing" => /\ x.next \in {"review", "blocked", "done"}
                                /\ x.on \in SUBSET Task /\ x.waits \in BOOLEAN
BY DEF Turns, Idle, Queued

\* The turns a step may leave behind.
LEMMA TurnTypes ==
  /\ Idle \in Turns /\ Queued \in Turns /\ [pc |-> "working"] \in Turns
  /\ Idle # Queued
BY DEF Idle, Queued, Turns

\* The turn a reply leaves behind.
LEMMA ReplyTurn ==
  ASSUME NEW t \in Task, NEW delegated, NEW on \in SUBSET Task, NEW review \in BOOLEAN,
         Reply(t, delegated, on, review), turn \in [Task -> Turns]
  PROVE  \E x \in Turns :
           /\ turn' = [turn EXCEPT ![t] = x] /\ x.pc = "closing"
           /\ x.next = NextStatus(t, delegated, on, review) /\ x.on = on
           /\ x.waits = (x.next = "review" /\ (delegated # {} \/ ~review))
<1> DEFINE next == NextStatus(t, delegated, on, review)
<1> DEFINE x == [pc |-> "closing", next |-> next, on |-> on,
                 waits |-> next = "review" /\ (delegated # {} \/ ~review)]
<1>1. next \in {"review", "blocked", "done"}
  BY DEF NextStatus
<1>2. x \in Turns
  BY <1>1 DEF Turns
<1>3. turn' = [turn EXCEPT ![t] = x]
  BY DEF Reply
<1> HIDE DEF next
<1>4. /\ x.pc = "closing" /\ x.next = next /\ x.on = on
      /\ x.waits = (next = "review" /\ (delegated # {} \/ ~review))
  OBVIOUS
<1> QED BY <1>2, <1>3, <1>4 DEF next

\* A cascade moved on, and an emptied unblocking, as records.
LEMMA CallTypes ==
  /\ \A c \in [task : Task, at : CascadeAt], to \in CascadeAt :
       /\ [c EXCEPT !.at = to] \in [task : Task, at : CascadeAt]
       /\ [c EXCEPT !.at = to].task = c.task /\ [c EXCEPT !.at = to].at = to
  /\ \A u \in [by : Task, of : Task, was : Status, emptied : BOOLEAN] :
       /\ Unblock(u) \in [by : Task, of : Task, was : Status, emptied : BOOLEAN]
       /\ Unblock(u).by = u.by /\ Unblock(u).of = u.of /\ Unblock(u).was = u.was
       /\ Unblock(u).emptied
BY DEF Unblock

\* What unblockDependents lists: tasks that the settled task blocks, as they are now.
LEMMA Listed ==
  ASSUME TypeOK, NEW c, c.task \in Task, CascadeStart(c)
  PROVE  /\ unblocks \subseteq unblocks'
         /\ \A u \in unblocks' \ unblocks :
              /\ u \in [by : Task, of : Task, was : Status, emptied : BOOLEAN]
              /\ u.by \in blockers[u.of] /\ u.was = status[u.of] /\ ~u.emptied
<1> DEFINE rec(d) == [by |-> c.task, of |-> d, was |-> status[d], emptied |-> FALSE]
<1>1. ASSUME NEW d \in Dependents(c.task)
      PROVE  /\ rec(d) \in [by : Task, of : Task, was : Status, emptied : BOOLEAN]
             /\ rec(d).by \in blockers[rec(d).of] /\ rec(d).was = status[rec(d).of]
             /\ ~rec(d).emptied
  <2>1. d \in Task /\ c.task \in blockers[d] /\ status[d] \in Status
    BY <1>1 DEF Dependents, TypeOK
  <2> QED BY <2>1
<1>2. unblocks' = unblocks \/ unblocks' = unblocks \cup {rec(d) : d \in Dependents(c.task)}
  BY DEF CascadeStart
<1> HIDE DEF rec
<1>3. ASSUME NEW u \in unblocks' \ unblocks PROVE \E d \in Dependents(c.task) : u = rec(d)
  BY <1>2, <1>3
<1> QED BY <1>1, <1>2, <1>3

\* Every step keeps the types.
LEMMA TypeStep == Core /\ [Next]_vars => TypeOK'
<1> SUFFICES ASSUME Core, [Next]_vars PROVE TypeOK'
  OBVIOUS
<1> USE GraphAssumption
<1>a. TypeOK /\ Exists
  BY DEF Core
<1>b. ASSUME NEW t \in Task PROVE turn[t] \in Turns /\ status[t] \in Status
  BY <1>a, <1>b DEF TypeOK
<1>1. ASSUME NEW t \in Task, Send(t) PROVE TypeOK'
  BY <1>1, <1>a, TurnTypes DEF Send, TypeOK, bounds
<1>2. ASSUME NEW t \in Task, Sweep(t) PROVE TypeOK'
  BY <1>2, <1>a, TurnTypes DEF Sweep, TypeOK, bounds, calls
<1>3. ASSUME NEW t \in Task, Claim(t) PROVE TypeOK'
  BY <1>3, <1>a, TurnTypes DEF Claim, TypeOK, bounds, calls, Status
<1>4. ASSUME NEW t \in Task, NEW delegated \in SUBSET Task, NEW on \in SUBSET MayBlockOn[t],
             NEW review \in BOOLEAN, Reply(t, delegated, on, review)
      PROVE  TypeOK'
  <2>1. on \in SUBSET Task
    BY DEF Reply
  <2>2. turn' \in [Task -> Turns] /\ \A u \in Task \ {t} : turn'[u] = turn[u]
    BY <1>4, <1>a, <2>1, ReplyTurn DEF TypeOK
  <2>3. status' \in [Task -> Status]
    BY <1>4, <1>a DEF Reply, TypeOK, Status
  <2>4. status[t] # "none"
    BY <1>4, <1>a DEF Reply, TypeOK, Idle
  <2>5. \A u \in Task : status'[u] = "none" => u # t /\ u \notin delegated /\ status[u] = "none"
    BY <1>4, <2>4 DEF Reply
  <2> QED BY <1>4, <1>a, <2>2, <2>3, <2>5 DEF Reply, TypeOK, bounds
<1>5. ASSUME NEW t \in Task, Close(t) PROVE TypeOK'
  <2>1. /\ turn[t].next \in {"review", "blocked", "done"} /\ turn[t].on \in SUBSET Task
        /\ turn[t].waits \in BOOLEAN
    BY <1>5, <1>b, TurnType DEF Close
  <2>2. cascades' \subseteq [task : Task, at : CascadeAt]
    BY <1>5, <1>a DEF Close, TypeOK, CascadeAt
  <2> QED BY <1>5, <1>a, <2>1, <2>2, TurnTypes DEF Close, TypeOK, bounds, Status
<1>6. ASSUME NEW t \in Task, Fail(t) PROVE TypeOK'
  BY <1>6, <1>a, TurnTypes DEF Fail, TypeOK, bounds, calls, Status
<1>7. ASSUME NEW t \in Task, Approve(t) PROVE TypeOK'
  <2>1. cascades' \subseteq [task : Task, at : CascadeAt]
    BY <1>7, <1>a DEF Approve, TypeOK, CascadeAt
  <2> QED BY <1>7, <1>a, <2>1 DEF Approve, TypeOK, bounds, Status
<1>8. ASSUME NEW t \in Task, Revise(t) PROVE TypeOK'
  BY <1>8, <1>a DEF Revise, TypeOK, Disturb, Status
<1>9. ASSUME NEW t \in Task, NEW to \in EditTo, Edit(t, to) PROVE TypeOK'
  <2>1. to \in Status /\ to # "none" /\ status[t] # "none"
    BY <1>9 DEF Edit, UserMay, Status
  <2> QED BY <1>9, <1>a, <2>1 DEF Edit, TypeOK, Disturb, calls
<1>10. ASSUME NEW c \in cascades, CascadeStart(c) PROVE TypeOK'
  <2>1. c \in [task : Task, at : CascadeAt] /\ c.task \in Task
    BY <1>a DEF TypeOK
  <2>2. cascades' \subseteq [task : Task, at : CascadeAt]
    BY <1>10, <1>a, <2>1, CallTypes DEF CascadeStart, TypeOK, Leave, Move, CascadeAt
  <2>3. unblocks' \subseteq [by : Task, of : Task, was : Status, emptied : BOOLEAN]
    BY <1>10, <1>a, <2>1, Listed DEF TypeOK
  <2> QED BY <1>10, <1>a, <2>2, <2>3 DEF CascadeStart, TypeOK, bounds
<1>11. ASSUME NEW c \in cascades, CountSiblings(c) \/ LookAtParent(c) PROVE TypeOK'
  <2>1. c \in [task : Task, at : CascadeAt]
    BY <1>a DEF TypeOK
  <2>2. cascades' \subseteq [task : Task, at : CascadeAt]
    BY <1>11, <1>a, <2>1, CallTypes DEF CountSiblings, LookAtParent, TypeOK, Leave, Move, CascadeAt
  <2> QED BY <1>11, <1>a, <2>2 DEF CountSiblings, LookAtParent, TypeOK, bounds
<1>12. ASSUME NEW c \in cascades, WakeParent(c) PROVE TypeOK'
  <2>1. Parent[c.task] \in Task
    BY <1>12, <1>a DEF WakeParent, TypeOK, Exists
  <2>2. status[Parent[c.task]] # "none"
    BY <1>12, <1>a, <2>1 DEF WakeParent, TypeOK, Exists
  <2> QED BY <1>12, <1>a, <2>1, <2>2 DEF WakeParent, TypeOK, Leave, bounds, Status
<1>13. ASSUME NEW u \in unblocks, UnblockOne(u) PROVE TypeOK'
  <2>1. u \in [by : Task, of : Task, was : Status, emptied : BOOLEAN] /\ u.of \in Task
    BY <1>a DEF TypeOK
  <2>2. unblocks' \subseteq [by : Task, of : Task, was : Status, emptied : BOOLEAN]
    BY <1>13, <1>a, <2>1, CallTypes DEF UnblockOne, TypeOK
  <2>3. blockers' \in [Task -> SUBSET Task]
    BY <1>13, <1>a, <2>1 DEF UnblockOne, TypeOK
  <2> QED BY <1>13, <1>a, <2>2, <2>3 DEF UnblockOne, TypeOK, bounds
<1>14. ASSUME NEW u \in unblocks, Free(u) PROVE TypeOK'
  <2>1. u.of \in Task /\ status[u.of] # "none"
    BY <1>a DEF TypeOK, Exists
  <2> QED BY <1>14, <1>a, <2>1 DEF Free, TypeOK, bounds, Status
<1>15. CASE Restart
  BY <1>15, <1>a, TurnTypes DEF Restart, TypeOK, Disturb, Interrupted, Status
<1>16. CASE UNCHANGED vars
  BY <1>16, <1>a DEF vars, calls, bounds, TypeOK
<1> QED BY <1>1, <1>2, <1>3, <1>4, <1>5, <1>6, <1>7, <1>8, <1>9, <1>10, <1>11, <1>12, <1>13,
           <1>14, <1>15, <1>16 DEF Next, Answers, Cascade

-----------------------------------------------------------------------------
(* What exists. *)

\* Nothing that exists goes away, and what happened has happened.
LEMMA Grows ==
  ASSUME Core, [Next]_vars
  PROVE  /\ \A t \in Task : status[t] # "none" => status'[t] # "none"
         /\ moved \subseteq moved' /\ revised \subseteq revised' /\ (crashed => crashed')
<1> USE GraphAssumption
<1>a. TypeOK /\ Exists
  BY DEF Core
<1>b. \A t \in Task : turn[t] \in Turns
  BY <1>a DEF TypeOK
<1>1. ASSUME NEW t \in Task, Send(t) \/ Sweep(t) \/ Claim(t) \/ Fail(t)
      PROVE  \A x \in Task : status[x] # "none" => status'[x] # "none"
  BY <1>1, <1>a DEF Send, Sweep, Claim, Fail, TypeOK
<1>2. ASSUME NEW t \in Task, Close(t)
      PROVE  \A x \in Task : status[x] # "none" => status'[x] # "none"
  BY <1>2, <1>a, <1>b, TurnType DEF Close, TypeOK
<1>3. ASSUME NEW t \in Task, NEW delegated, NEW on, NEW review, Reply(t, delegated, on, review)
      PROVE  \A x \in Task : status[x] # "none" => status'[x] # "none"
  BY <1>3, <1>a DEF Reply, TypeOK
<1>4. ASSUME NEW t \in Task, Approve(t) \/ Revise(t) \/ (\E to \in EditTo : Edit(t, to))
      PROVE  \A x \in Task : status[x] # "none" => status'[x] # "none"
  BY <1>4, <1>a DEF Approve, Revise, Edit, TypeOK
<1>5. ASSUME NEW c \in cascades, Cascade(c)
      PROVE  \A x \in Task : status[x] # "none" => status'[x] # "none"
  BY <1>5, <1>a DEF Cascade, CascadeStart, CountSiblings, LookAtParent, WakeParent, TypeOK
<1>6. ASSUME NEW u \in unblocks, UnblockOne(u) \/ Free(u)
      PROVE  \A x \in Task : status[x] # "none" => status'[x] # "none"
  BY <1>6, <1>a DEF UnblockOne, Free, TypeOK
<1>7. ASSUME Restart \/ UNCHANGED vars
      PROVE  \A x \in Task : status[x] # "none" => status'[x] # "none"
  BY <1>7, <1>a DEF Restart, vars, TypeOK
<1>8. \A t \in Task : status[t] # "none" => status'[t] # "none"
  BY <1>1, <1>2, <1>3, <1>4, <1>5, <1>6, <1>7 DEF Next, Answers
<1>9. moved \subseteq moved' /\ revised \subseteq revised' /\ (crashed => crashed')
  BY DEF Next, Answers, Cascade, Send, Sweep, Claim, Reply, Fail, Close, Approve, Revise, Edit,
         CascadeStart, CountSiblings, LookAtParent, WakeParent, UnblockOne, Free, Restart,
         Disturb, bounds, vars
<1> QED BY <1>8, <1>9

\* So children stay, and what a task has not gone through it had not before.
LEMMA Past ==
  ASSUME Core, [Next]_vars, NEW p \in Task
  PROVE  /\ Children(p) \subseteq Children(p)'
         /\ Childless(p)' => Childless(p)
         /\ Unmoved(p)' => Unmoved(p)
         /\ FlatRoot(p)' => FlatRoot(p)
<1>1. \A t \in Task : Children(t) \subseteq Children(t)'
  BY Grows DEF Children
<1>2. moved \subseteq moved' /\ revised \subseteq revised'
  BY Grows
<1>3. Children(p) \subseteq Task
  BY DEF Children
<1>4. Childless(p)' => Childless(p)
  BY <1>1, <1>2 DEF Childless
<1>5. Unmoved(p)' => Unmoved(p)
  BY <1>1, <1>2 DEF Unmoved
<1>6. FlatRoot(p)' => FlatRoot(p)
  BY <1>1, <1>2, <1>3 DEF FlatRoot
<1> QED BY <1>1, <1>4, <1>5, <1>6

\* Tasks are created by the reply of their parent, and by nothing else.
LEMMA Born ==
  ASSUME Core, [Next]_vars, NEW t \in Task, status[t] = "none", status'[t] # "none"
  PROVE  \E p \in Task : \E delegated \in SUBSET {c \in Task : Parent[c] = p} :
           \E on \in SUBSET MayBlockOn[p], review \in BOOLEAN :
             t \in delegated /\ Reply(p, delegated, on, review)
<1> USE GraphAssumption
<1>a. TypeOK /\ Exists
  BY DEF Core
<1>b. turn[t] = Idle /\ turn[t].pc = "idle" /\ t \notin sends
  BY <1>a DEF TypeOK, Idle
<1>1. ASSUME NEW x \in Task,
             Send(x) \/ Sweep(x) \/ Claim(x) \/ Fail(x) \/ Close(x) \/ Approve(x) \/ Revise(x)
               \/ (\E to \in EditTo : Edit(x, to))
      PROVE  FALSE
  BY <1>1, <1>a, <1>b DEF Send, Sweep, Claim, Fail, Close, Approve, Revise, Edit, UserMay, Reviewed,
       TypeOK, Idle, Queued
<1>2. ASSUME NEW c \in cascades, Cascade(c) PROVE FALSE
  <2>1. CASE WakeParent(c)
    <3>1. Parent[c.task] # t
      BY <2>1, <1>a DEF WakeParent, TypeOK, Exists
    <3> QED BY <2>1, <3>1, <1>a DEF WakeParent, TypeOK
  <2>2. status' # status
    OBVIOUS
  <2> QED BY <1>2, <2>1, <2>2 DEF Cascade, CascadeStart, CountSiblings, LookAtParent
<1>3. ASSUME NEW u \in unblocks, UnblockOne(u) \/ Free(u) PROVE FALSE
  BY <1>3, <1>a DEF UnblockOne, Free, Exists, TypeOK
<1>4. ASSUME Restart \/ UNCHANGED vars PROVE FALSE
  BY <1>4, <1>a DEF Restart, vars, TypeOK
<1>5. ASSUME NEW p \in Task, NEW delegated \in SUBSET {c \in Task : Parent[c] = p},
             NEW on \in SUBSET MayBlockOn[p], NEW review \in BOOLEAN,
             Reply(p, delegated, on, review)
      PROVE  t \in delegated
  BY <1>5, <1>a DEF Reply, TypeOK
<1> QED BY <1>1, <1>2, <1>3, <1>4, <1>5 DEF Next, Answers

\* Every step keeps to what exists.
LEMMA ExistsStep == Core /\ [Next]_vars => Exists'
<1> SUFFICES ASSUME Core, [Next]_vars PROVE Exists'
  OBVIOUS
<1> USE GraphAssumption
<1>a. TypeOK /\ Exists
  BY DEF Core
<1>b. \A t \in Task : status[t] # "none" => status'[t] # "none"
  BY Grows
<1>c. /\ \A c \in cascades : c.task \in Task
      /\ \A u \in unblocks : u.of \in Task
  BY <1>a DEF TypeOK
<1>1. \A t \in Task : blockers'[t] # {} => status'[t] # "none"
  <2>1. ASSUME NEW t \in Task, Close(t) PROVE \A x \in Task : blockers'[x] # {} => status'[x] # "none"
    <3>1. status[t] # "none"
      BY <2>1, <1>a DEF Close, TypeOK, Idle
    <3> QED BY <2>1, <3>1, <1>a, <1>b DEF Close, TypeOK, Exists
  <2>2. ASSUME NEW u \in unblocks, UnblockOne(u)
        PROVE  \A x \in Task : blockers'[x] # {} => status'[x] # "none"
    BY <2>2, <1>a, <1>b, <1>c DEF UnblockOne, TypeOK, Exists
  <2>3. CASE blockers' = blockers
    BY <2>3, <1>a, <1>b DEF Exists
  <2> QED BY <2>1, <2>2, <2>3 DEF Next, Answers, Cascade, Send, Sweep, Claim, Reply, Fail, Approve,
        Revise, Edit, CascadeStart, CountSiblings, LookAtParent, WakeParent, Free, Restart, vars
<1>2. \A t \in Task : status'[t] # "none" /\ Parent[t] # NoTask => status'[Parent[t]] # "none"
  <2> SUFFICES ASSUME NEW t \in Task, status'[t] # "none", Parent[t] # NoTask
               PROVE  status'[Parent[t]] # "none"
    OBVIOUS
  <2>1. Parent[t] \in Task
    OBVIOUS
  <2>2. CASE status[t] # "none"
    BY <2>1, <2>2, <1>a, <1>b DEF Exists
  <2>3. ASSUME NEW p \in Task, NEW delegated, NEW on, NEW review, Reply(p, delegated, on, review),
               status[t] = "none"
        PROVE  status'[Parent[t]] # "none"
    <3>1. Parent[t] = p /\ status[p] # "none"
      BY <2>3, <1>a DEF Reply, TypeOK, Idle
    <3> QED BY <3>1, <1>b
  <2> QED BY <2>2, <2>3, Born
<1>3. \A u \in unblocks' : status'[u.of] # "none"
  <2>1. ASSUME NEW c \in cascades, CascadeStart(c) PROVE \A u \in unblocks' : status'[u.of] # "none"
    <3>1. ASSUME NEW u \in unblocks' \ unblocks PROVE status[u.of] # "none" /\ u.of \in Task
      BY <3>1, <2>1, <1>a, <1>c, Listed DEF Exists
    <3> QED BY <3>1, <1>a, <1>b, <1>c DEF Exists
  <2>2. ASSUME NEW u \in unblocks, UnblockOne(u) PROVE \A v \in unblocks' : status'[v.of] # "none"
    <3>1. Unblock(u).of = u.of
      BY <1>a, CallTypes DEF TypeOK
    <3> QED BY <2>2, <3>1, <1>a, <1>b, <1>c DEF UnblockOne, Exists
  <2>3. CASE unblocks' \subseteq unblocks
    BY <2>3, <1>a, <1>b, <1>c DEF Exists
  <2> QED BY <2>1, <2>2, <2>3 DEF Next, Answers, Cascade, Send, Sweep, Claim, Reply, Fail, Close,
        Approve, Revise, Edit, CountSiblings, LookAtParent, WakeParent, Free, Restart, vars, calls
<1>4. \A c \in cascades' :
        status'[c.task] # "none" /\ (c.at # "start" => Parent[c.task] # NoTask)
  <2>1. ASSUME NEW c \in cascades, Cascade(c)
        PROVE  \A d \in cascades' : d \in cascades \/ (d.task = c.task /\ Parent[c.task] # NoTask)
    <3>1. c \in [task : Task, at : CascadeAt]
      BY <1>a DEF TypeOK
    <3>2. \A to \in CascadeAt : [c EXCEPT !.at = to].task = c.task
      BY <3>1, CallTypes
    <3>3. c.at # "start" => Parent[c.task] # NoTask
      BY <1>a DEF Exists
    <3> QED BY <2>1, <3>2, <3>3 DEF Cascade, CascadeStart, CountSiblings, LookAtParent, WakeParent,
              Leave, Move, CascadeAt
  <2>2. ASSUME NEW t \in Task, Close(t) \/ Approve(t)
        PROVE  \A d \in cascades' : d \in cascades \/ (d = [task |-> t, at |-> "start"])
    BY <2>2 DEF Close, Approve
  <2>3. ASSUME NEW t \in Task, Close(t) \/ Approve(t) PROVE status[t] # "none"
    BY <2>3, <1>a DEF Close, Approve, Reviewed, TypeOK, Idle
  <2>4. CASE cascades' \subseteq cascades
    BY <2>4, <1>a, <1>b, <1>c DEF Exists
  <2>5. CASE \E c \in cascades : Cascade(c)
    BY <2>5, <2>1, <1>a, <1>b, <1>c DEF Exists
  <2>6. CASE \E t \in Task : Close(t) \/ Approve(t)
    BY <2>6, <2>2, <2>3, <1>a, <1>b, <1>c DEF Exists
  <2> QED BY <2>4, <2>5, <2>6 DEF Next, Answers, Send, Sweep, Claim, Reply, Fail, Revise, Edit,
            UnblockOne, Free, Restart, vars, calls
<1> QED BY <1>1, <1>2, <1>3, <1>4 DEF Exists

\* The two together.
LEMMA CoreStep == Core /\ [Next]_vars => Core'
BY TypeStep, ExistsStep DEF Core

-----------------------------------------------------------------------------
(* Blocked tasks. *)

\* A step that leaves a task and the calls about it alone keeps what is known of it.
LEMMA Elsewhere ==
  ASSUME NEW t \in Task, InStep(t), BlockedBy(t), crashed \/ Freed(t),
         status'[t] = status[t], turn'[t] = turn[t], blockers'[t] = blockers[t],
         t \in sends' => t \in sends,
         \A u \in unblocks' : u.of = t => u \in unblocks,
         crashed' \/ \A u \in unblocks : u.of = t => u \in unblocks',
         crashed => crashed'
  PROVE  InStep(t)' /\ BlockedBy(t)' /\ (crashed' \/ Freed(t)')
<1>1. InStep(t)'
  BY DEF InStep
<1>2. BlockedBy(t)'
  BY DEF BlockedBy
<1>3. crashed' \/ Freed(t)'
  BY DEF Freed
<1> QED BY <1>1, <1>2, <1>3

\* A task without blockers whose status a turn or a verdict moves, to anything but blocked.
LEMMA Moves ==
  ASSUME NEW t \in Task, BlockedBy(t), InStep(t)', status'[t] # "blocked",
         blockers'[t] = {}, \A u \in unblocks' : u.of # t
  PROVE  InStep(t)' /\ BlockedBy(t)' /\ (crashed' \/ Freed(t)')
<1>1. BlockedBy(t)'
  BY DEF BlockedBy
<1>2. Freed(t)'
  BY DEF Freed
<1> QED BY <1>1, <1>2

\* The steps of the dispatch.
LEMMA TurnsQuiet ==
  ASSUME Core, [Next]_vars, NEW t \in Task, Childless(t)', InStep(t), BlockedBy(t),
         crashed \/ Freed(t),
         NEW x \in Task, Send(x) \/ Sweep(x) \/ Claim(x) \/ Answers(x) \/ Close(x)
  PROVE  InStep(t)' /\ BlockedBy(t)' /\ (crashed' \/ Freed(t)')
<1> USE GraphAssumption
<1>a. TypeOK /\ Exists
  BY DEF Core
<1>b. /\ turn[t] \in Turns
      /\ turn[t].pc \in {"idle", "queued", "working", "closing"}
      /\ turn[t] = Idle => turn[t].pc = "idle"
      /\ turn[t] = Queued => turn[t].pc = "queued"
  BY <1>a, TurnType DEF TypeOK, Idle, Queued
<1>c. Children(t)' = {}
  BY DEF Childless
<1>d. status[t] # "blocked" => blockers[t] = {} /\ \A u \in unblocks : u.of # t
  BY DEF BlockedBy
<1>1. CASE Send(x)
  <2>1. CASE x = t
    <3>1. /\ status'[t] = "todo" /\ t \notin sends' /\ turn'[t] = Queued
          /\ blockers' = blockers /\ unblocks' = unblocks
      BY <1>1, <2>1, <1>a, <1>b, TurnType DEF Send, InStep, TypeOK, Idle
    <3>2. InStep(t)'
      BY <3>1 DEF InStep, Queued
    <3> QED BY <3>1, <3>2, <1>d, <1>1, <2>1, Moves DEF InStep, Send
  <2>2. CASE x # t
    BY <1>1, <2>2, <1>a, Elsewhere DEF Send, TypeOK, bounds
  <2> QED BY <2>1, <2>2
<1>2. CASE Sweep(x)
  <2>1. CASE x = t
    <3>1. /\ status'[t] = "todo" /\ status[t] = "todo" /\ t \notin sends' /\ turn'[t] = Queued
          /\ blockers' = blockers /\ unblocks' = unblocks
      BY <1>2, <2>1, <1>a DEF Sweep, TypeOK, calls
    <3>2. InStep(t)'
      BY <3>1 DEF InStep, Queued
    <3> QED BY <3>1, <3>2, <1>d, Moves
  <2>2. CASE x # t
    BY <1>2, <2>2, <1>a, Elsewhere DEF Sweep, TypeOK, bounds, calls
  <2> QED BY <2>1, <2>2
<1>3. CASE Claim(x)
  <2>1. CASE x = t
    <3>1. /\ status'[t] = "in_progress" /\ status[t] = "todo" /\ t \notin sends'
          /\ turn'[t] = [pc |-> "working"]
          /\ blockers' = blockers /\ unblocks' = unblocks
      BY <1>3, <2>1, <1>a, <1>b DEF Claim, TypeOK, calls, InStep
    <3>2. InStep(t)'
      BY <3>1 DEF InStep
    <3> QED BY <3>1, <3>2, <1>d, Moves
  <2>2. CASE x # t
    BY <1>3, <2>2, <1>a, Elsewhere DEF Claim, TypeOK, bounds, calls
  <2> QED BY <2>1, <2>2
<1>4. ASSUME NEW delegated \in SUBSET {c \in Task : Parent[c] = x}, NEW on \in SUBSET MayBlockOn[x],
             NEW review \in BOOLEAN, Reply(x, delegated, on, review)
      PROVE  InStep(t)' /\ BlockedBy(t)' /\ (crashed' \/ Freed(t)')
  <2>0. on \in SUBSET Task
    BY <1>4
  <2>1. CASE x = t
    <3>1. delegated = {}
      BY <1>4, <2>1, <1>c DEF Reply, Children
    <3>2. PICK y \in Turns : /\ turn' = [turn EXCEPT ![t] = y] /\ y.pc = "closing"
                             /\ y.next = NextStatus(t, delegated, on, review) /\ y.on = on
      BY <1>4, <2>0, <2>1, <1>a, ReplyTurn DEF TypeOK
    <3>3. y.next = "blocked" <=> on # {}
      BY <3>2 DEF NextStatus
    <3>4. /\ status'[t] = "in_progress" /\ status[t] = "in_progress" /\ t \notin sends'
          /\ turn'[t] = y /\ blockers' = blockers /\ unblocks' = unblocks
      BY <1>4, <2>1, <3>1, <3>2, <1>a DEF Reply, TypeOK, InStep
    <3>5. InStep(t)'
      BY <3>2, <3>3, <3>4 DEF InStep
    <3> QED BY <3>4, <3>5, <1>d, Moves
  <2>2. CASE x # t
    <3>1. turn'[t] = turn[t]
      BY <1>4, <2>2, <1>a DEF Reply, TypeOK
    <3>2. CASE t \in delegated
      <4>1. status[t] = "none" /\ turn[t] = Idle
        BY <1>4, <3>2, <1>a DEF Reply, TypeOK
      <4>2. /\ status'[t] = "todo" /\ turn'[t].pc = "idle"
            /\ blockers' = blockers /\ unblocks' = unblocks
        BY <1>4, <3>1, <3>2, <4>1, <1>b DEF Reply
      <4>3. InStep(t)'
        BY <4>2 DEF InStep
      <4> QED BY <4>1, <4>2, <4>3, <1>d, Moves
    <3>3. CASE t \notin delegated
      BY <1>4, <3>1, <3>3, Elsewhere DEF Reply, bounds
    <3> QED BY <3>2, <3>3
  <2> QED BY <2>1, <2>2
<1>5. CASE Fail(x)
  <2>1. CASE x = t
    <3>1. /\ status'[t] = "error" /\ status[t] = "in_progress" /\ t \notin sends'
          /\ turn'[t] = Idle /\ blockers' = blockers /\ unblocks' = unblocks
      BY <1>5, <2>1, <1>a DEF Fail, TypeOK, calls, InStep
    <3>2. InStep(t)'
      BY <3>1 DEF InStep, Idle
    <3> QED BY <3>1, <3>2, <1>d, Moves
  <2>2. CASE x # t
    BY <1>5, <2>2, <1>a, Elsewhere DEF Fail, TypeOK, bounds, calls
  <2> QED BY <2>1, <2>2
<1>6. CASE Close(x)
  <2>1. CASE x = t
    <3>1. /\ status'[t] = turn[t].next /\ status[t] = "in_progress" /\ t \notin sends'
          /\ turn'[t] = Idle /\ unblocks' = unblocks
          /\ turn[t].next \in {"review", "blocked", "done"}
          /\ blockers'[t] = IF turn[t].on # {} THEN turn[t].on ELSE blockers[t]
          /\ turn[t].next = "blocked" <=> turn[t].on # {}
      BY <1>6, <2>1, <1>a, <1>b, TurnType DEF Close, TypeOK, InStep
    <3>2. InStep(t)'
      BY <3>1 DEF InStep, Idle
    <3>3. BlockedBy(t)' /\ Freed(t)'
      BY <3>1, <1>d DEF BlockedBy, Freed
    <3> QED BY <3>2, <3>3
  <2>2. CASE x # t
    BY <1>6, <2>2, <1>a, Elsewhere DEF Close, TypeOK, bounds
  <2> QED BY <2>1, <2>2
<1> QED BY <1>1, <1>2, <1>3, <1>4, <1>5, <1>6 DEF Answers

\* The steps of the calls of unblockDependents.
LEMMA UnblocksQuiet ==
  ASSUME Core, [Next]_vars, NEW t \in Task, InStep(t), BlockedBy(t), crashed \/ Freed(t),
         NEW u \in unblocks, UnblockOne(u) \/ Free(u)
  PROVE  InStep(t)' /\ BlockedBy(t)' /\ (crashed' \/ Freed(t)')
<1> USE GraphAssumption
<1>a. TypeOK /\ Exists
  BY DEF Core
<1>b. /\ u \in [by : Task, of : Task, was : Status, emptied : BOOLEAN] /\ u.of \in Task
      /\ Unblock(u).by = u.by /\ Unblock(u).of = u.of /\ Unblock(u).was = u.was
      /\ Unblock(u).emptied
  BY <1>a, CallTypes DEF TypeOK
<1>c. \A v \in unblocks : v \in [by : Task, of : Task, was : Status, emptied : BOOLEAN]
  BY <1>a DEF TypeOK
<1>1. CASE UnblockOne(u) /\ u.of = t
  <2>1. /\ status'[t] = "blocked" /\ status[t] = "blocked" /\ u.was = "blocked" /\ ~u.emptied
        /\ u.by \in blockers[t] /\ blockers'[t] = blockers[t] \ {u.by}
        /\ turn' = turn /\ sends' = sends /\ blockers[t] # {}
    BY <1>1, <1>a DEF UnblockOne, BlockedBy, TypeOK
  <2>2. \A v \in unblocks : v.of = t => ~v.emptied /\ v.by \in blockers[t] /\ v.was = "blocked"
    BY <2>1 DEF BlockedBy
  <2>3. \A v \in unblocks : v.of = t /\ v.by = u.by => v = u
    BY <2>1, <2>2, <1>b, <1>c, <1>1
  <2>4. InStep(t)'
    BY <2>1 DEF InStep
  <2>5. CASE blockers'[t] = {}
    <3>1. unblocks' = (unblocks \ {u}) \cup {Unblock(u)}
      BY <1>1, <2>1, <2>5 DEF UnblockOne
    <3>2. \A v \in unblocks' : v.of = t => v = Unblock(u)
      BY <2>1, <2>2, <2>3, <2>5, <3>1
    <3>3. BlockedBy(t)'
      BY <2>1, <2>5, <3>2, <1>b DEF BlockedBy
    <3>4. Freed(t)'
      BY <3>1, <1>b, <1>1 DEF Freed
    <3> QED BY <2>4, <3>3, <3>4
  <2>6. CASE blockers'[t] # {}
    <3>1. unblocks' = unblocks \ {u}
      BY <1>1, <2>6 DEF UnblockOne
    <3>2. BlockedBy(t)'
      BY <2>1, <2>2, <2>3, <3>1 DEF BlockedBy
    <3>3. Freed(t)'
      BY <2>6 DEF Freed
    <3> QED BY <2>4, <3>2, <3>3
  <2> QED BY <2>5, <2>6
<1>2. CASE Free(u) /\ u.of = t
  <2>1. /\ status'[t] = "todo" /\ status[t] = "blocked" /\ u.emptied /\ blockers[t] = {}
        /\ blockers' = blockers /\ turn' = turn /\ unblocks' = unblocks \ {u}
    BY <1>2, <1>a DEF Free, BlockedBy, TypeOK
  <2>2. \A v \in unblocks : v.of = t => v.emptied
    BY <2>1 DEF BlockedBy
  <2>3. \A v \in unblocks' : v.of # t
    BY <2>1, <2>2, <1>2 DEF BlockedBy
  <2>4. turn[t].pc = "idle"
    BY <2>1, <1>a, TurnType DEF InStep, TypeOK
  <2>5. InStep(t)'
    BY <2>1, <2>4 DEF InStep
  <2> QED BY <2>1, <2>3, <2>5, Moves
<1>3. CASE u.of # t
  <2>1. /\ status'[t] = status[t] /\ turn' = turn /\ blockers'[t] = blockers[t]
        /\ t \in sends' => t \in sends
    BY <1>3, <1>a, <1>b DEF UnblockOne, Free, TypeOK
  <2>2. /\ \A v \in unblocks' : v.of = t => v \in unblocks
        /\ \A v \in unblocks : v.of = t => v \in unblocks'
        /\ crashed' = crashed
    BY <1>3, <1>b DEF UnblockOne, Free, bounds
  <2> QED BY <2>1, <2>2, Elsewhere
<1> QED BY <1>1, <1>2, <1>3

\* The steps of the cascade, of reviewers and of users, and a restart.
LEMMA OthersQuiet ==
  ASSUME Core, [Next]_vars, NEW t \in Task, Childless(t)', InStep(t), BlockedBy(t),
         crashed \/ Freed(t),
         \/ \E c \in cascades : Cascade(c)
         \/ \E x \in Task : Approve(x) \/ Revise(x) \/ (\E to \in EditTo : Edit(x, to))
         \/ Restart \/ UNCHANGED vars
  PROVE  InStep(t)' /\ BlockedBy(t)' /\ (crashed' \/ Freed(t)')
<1> USE GraphAssumption
<1>a. TypeOK /\ Exists
  BY DEF Core
<1>b. turn[t] \in Turns /\ turn[t].pc \in {"idle", "queued", "working", "closing"}
  BY <1>a, TurnType DEF TypeOK
<1>c. Childless(t)
  BY Past
<1>d. status[t] # "blocked" => blockers[t] = {} /\ \A u \in unblocks : u.of # t
  BY DEF BlockedBy
<1>1. ASSUME NEW c \in cascades, CascadeStart(c)
      PROVE  InStep(t)' /\ BlockedBy(t)' /\ (crashed' \/ Freed(t)')
  <2>1. c.task \in Task
    BY <1>a DEF TypeOK
  <2>2. /\ unblocks \subseteq unblocks'
        /\ \A u \in unblocks' \ unblocks :
             u.by \in blockers[u.of] /\ u.was = status[u.of] /\ ~u.emptied
    BY <2>1, <1>1, <1>a, Listed
  <2>3. status' = status /\ turn' = turn /\ blockers' = blockers /\ sends' = sends /\ crashed' = crashed
    BY <1>1 DEF CascadeStart, bounds
  <2>4. InStep(t)'
    BY <2>3 DEF InStep
  <2>5. BlockedBy(t)'
    <3>1. \A u \in unblocks' : u.of = t =>
            /\ status[t] = "blocked" /\ u.was = "blocked"
            /\ IF u.emptied THEN blockers[t] = {} ELSE u.by \in blockers[t]
      <4> SUFFICES ASSUME NEW u \in unblocks', u.of = t
                   PROVE  /\ status[t] = "blocked" /\ u.was = "blocked"
                          /\ IF u.emptied THEN blockers[t] = {} ELSE u.by \in blockers[t]
        OBVIOUS
      <4>1. CASE u \in unblocks
        BY <4>1 DEF BlockedBy
      <4>2. CASE u \notin unblocks
        BY <4>2, <2>2 DEF BlockedBy
      <4> QED BY <4>1, <4>2
    <3>2. \A u, v \in unblocks' : u.of = t /\ v.of = t /\ u.emptied /\ v.emptied => u = v
      BY <2>2 DEF BlockedBy
    <3>3. blockers[t] # {} => status[t] = "blocked"
      BY DEF BlockedBy
    <3> QED BY <2>3, <3>1, <3>2, <3>3 DEF BlockedBy
  <2>6. crashed' \/ Freed(t)'
    BY <2>2, <2>3 DEF Freed
  <2> QED BY <2>4, <2>5, <2>6
<1>2. ASSUME NEW c \in cascades, CountSiblings(c) \/ LookAtParent(c)
      PROVE  InStep(t)' /\ BlockedBy(t)' /\ (crashed' \/ Freed(t)')
  BY <1>2, Elsewhere DEF CountSiblings, LookAtParent, bounds
<1>3. ASSUME NEW c \in cascades, WakeParent(c)
      PROVE  InStep(t)' /\ BlockedBy(t)' /\ (crashed' \/ Freed(t)')
  <2>1. Parent[c.task] # t
    BY <1>3, <1>a, <1>c DEF TypeOK, Exists, Childless, Children
  <2>2. status'[t] = status[t] /\ (t \in sends' => t \in sends)
    BY <1>3, <2>1, <1>a DEF WakeParent, TypeOK
  <2> QED BY <1>3, <2>2, Elsewhere DEF WakeParent, bounds
<1>4. ASSUME NEW x \in Task, Approve(x)
      PROVE  InStep(t)' /\ BlockedBy(t)' /\ (crashed' \/ Freed(t)')
  <2>1. CASE x = t
    <3>1. /\ status'[t] = "done" /\ status[t] = "review" /\ t \notin sends'
          /\ turn' = turn /\ blockers' = blockers /\ unblocks' = unblocks
      BY <1>4, <2>1, <1>a DEF Approve, Reviewed, TypeOK, InStep
    <3>2. InStep(t)'
      BY <3>1 DEF InStep
    <3> QED BY <3>1, <3>2, <1>d, Moves
  <2>2. CASE x # t
    BY <1>4, <2>2, <1>a, Elsewhere DEF Approve, TypeOK, bounds
  <2> QED BY <2>1, <2>2
<1>5. ASSUME NEW x \in Task, Revise(x)
      PROVE  InStep(t)' /\ BlockedBy(t)' /\ (crashed' \/ Freed(t)')
  <2>1. CASE x = t
    <3>1. /\ status'[t] = "todo" /\ status[t] = "review" /\ turn[t].pc = "idle"
          /\ turn' = turn /\ blockers' = blockers /\ unblocks' = unblocks
      BY <1>5, <2>1, <1>a, <1>b DEF Revise, Reviewed, TypeOK, InStep
    <3>2. InStep(t)'
      BY <3>1 DEF InStep
    <3> QED BY <3>1, <3>2, <1>d, Moves
  <2>2. CASE x # t
    BY <1>5, <2>2, <1>a, Elsewhere DEF Revise, TypeOK, Disturb
  <2> QED BY <2>1, <2>2
<1>6. ASSUME NEW x \in Task, NEW to \in EditTo, Edit(x, to)
      PROVE  InStep(t)' /\ BlockedBy(t)' /\ (crashed' \/ Freed(t)')
  <2>1. x # t
    BY <1>6 DEF Edit, Childless
  <2> QED BY <1>6, <2>1, <1>a, Elsewhere DEF Edit, TypeOK, calls
<1>7. CASE Restart
  <2>1. /\ unblocks' = {} /\ sends' = {} /\ crashed' /\ blockers' = blockers
        /\ turn'[t] = IF turn[t] # Idle THEN Queued ELSE Idle
        /\ status'[t] = IF status[t] = "in_progress" THEN "todo" ELSE status[t]
    BY <1>7, <1>a DEF Restart, Interrupted, TypeOK
  <2>2. turn[t] = Idle <=> turn[t].pc = "idle"
    BY <1>b, TurnType DEF Idle
  <2>3. InStep(t)'
    BY <2>1, <2>2, <1>b DEF InStep, Idle, Queued
  <2>4. BlockedBy(t)'
    BY <2>1 DEF BlockedBy
  <2> QED BY <2>1, <2>3, <2>4
<1>8. CASE UNCHANGED vars
  BY <1>8, Elsewhere DEF vars, calls, bounds
<1> QED BY <1>1, <1>2, <1>3, <1>4, <1>5, <1>6, <1>7, <1>8 DEF Cascade

\* Every step keeps both parts.
LEMMA QuietStep ==
  ASSUME Core, Quiet, FreedLast, [Next]_vars PROVE Quiet' /\ FreedLast'
<1>1. ASSUME NEW t \in Task, Childless(t)'
      PROVE  InStep(t)' /\ BlockedBy(t)' /\ (crashed' \/ Freed(t)')
  <2>1. InStep(t) /\ BlockedBy(t) /\ (crashed \/ Freed(t))
    BY <1>1, Past DEF Quiet, FreedLast
  <2>2. CASE \E x \in Task : Send(x) \/ Sweep(x) \/ Claim(x) \/ Answers(x) \/ Close(x)
    BY <1>1, <2>1, <2>2, TurnsQuiet
  <2>3. CASE \E u \in unblocks : UnblockOne(u) \/ Free(u)
    BY <2>1, <2>3, UnblocksQuiet
  <2>4. CASE \/ \E c \in cascades : Cascade(c)
             \/ \E x \in Task : Approve(x) \/ Revise(x) \/ (\E to \in EditTo : Edit(x, to))
             \/ Restart \/ UNCHANGED vars
    BY <1>1, <2>1, <2>4, OthersQuiet
  <2> QED BY <2>2, <2>3, <2>4 DEF Next
<1> QED BY <1>1 DEF Quiet, FreedLast

-----------------------------------------------------------------------------
(* Parents. *)

\* What pends goes on pending, whatever starts, fails, is approved or sent back.
LEMMA Pends ==
  ASSUME Core, NEW p \in Task,
         \A t \in Task : \/ status'[t] = status[t]
                         \/ status'[t] \in {"todo", "in_progress", "error"}
                         \/ status[t] = "review"
  PROVE  Pending(p) # {} => Pending(p)' # {}
BY DEF Pending, Children, Settled

\* The steps of the dispatch keep a parked parent in someone's sight.
LEMMA TurnsWake ==
  ASSUME Core, [Next]_vars, NEW p \in Task, Looked(p), Parking(p),
         NEW x \in Task, Send(x) \/ Sweep(x) \/ Claim(x) \/ Answers(x) \/ Close(x)
  PROVE  Looked(p)' /\ Parking(p)'
<1> USE GraphAssumption
<1>a. TypeOK
  BY DEF Core
<1>b. turn[x] \in Turns
  BY <1>a DEF TypeOK
<1>1. CASE Send(x) \/ Sweep(x) \/ Claim(x) \/ Fail(x)
  <2>1. \A t \in Task : status'[t] = status[t] \/ status'[t] \in {"in_progress", "error"}
    BY <1>1, <1>a DEF Send, Sweep, Claim, Fail, TypeOK
  <2>2. Pending(p) # {} => Pending(p)' # {}
    BY <2>1, Pends
  <2>3. waiting' = waiting /\ cascades' = cascades
    BY <1>1 DEF Send, Sweep, Claim, Fail, calls
  <2>4. turn'[p] = turn[p] \/ turn'[p].pc # "closing"
    BY <1>1, <1>a DEF Send, Sweep, Claim, Fail, TypeOK, Idle, Queued
  <2>5. Looked(p)'
    BY <2>1, <2>2, <2>3 DEF Looked
  <2>6. Parking(p)'
    BY <2>2, <2>4 DEF Parking
  <2> QED BY <2>5, <2>6
<1>2. ASSUME NEW delegated \in SUBSET {c \in Task : Parent[c] = x}, NEW on \in SUBSET MayBlockOn[x],
             NEW review \in BOOLEAN, Reply(x, delegated, on, review)
      PROVE  Looked(p)' /\ Parking(p)'
  <2>1. \A t \in Task : status'[t] = IF t \in delegated THEN "todo" ELSE status[t]
    BY <1>2 DEF Reply
  <2>2. Pending(p) # {} => Pending(p)' # {}
    BY <2>1, Pends
  <2>3. waiting' = waiting /\ cascades' = cascades
    BY <1>2 DEF Reply
  <2>4. Looked(p)'
    BY <2>1, <2>2, <2>3 DEF Looked
  <2>5. CASE x = p
    <3>0. on \in SUBSET Task
      BY <1>2
    <3>1. PICK y \in Turns :
            /\ turn' = [turn EXCEPT ![p] = y] /\ y.next = NextStatus(p, delegated, on, review)
            /\ y.waits = (y.next = "review" /\ (delegated # {} \/ ~review))
      BY <1>2, <2>5, <3>0, <1>a, ReplyTurn DEF TypeOK
    <3>2. turn'[p] = y
      BY <3>1, <1>a DEF TypeOK
    <3>3. ASSUME y.waits PROVE Pending(p)' # {}
      <4>1. CASE delegated # {}
        <5>1. PICK c \in delegated : TRUE
          BY <4>1
        <5>2. c \in Task /\ Parent[c] = p /\ status'[c] = "todo"
          BY <5>1, <2>1, <2>5
        <5> QED BY <5>2 DEF Pending, Children, Settled
      <4>2. CASE delegated = {}
        <5>1. ~review /\ NextStatus(p, delegated, on, review) = "review"
          BY <3>1, <3>3, <4>2
        <5>2. Pending(p) # {}
          BY <5>1, <4>2 DEF NextStatus
        <5> QED BY <5>2, <2>2
      <4> QED BY <4>1, <4>2
    <3> QED BY <2>4, <3>2, <3>3 DEF Parking
  <2>6. CASE x # p
    <3>1. turn'[p] = turn[p]
      BY <1>2, <2>6, <1>a DEF Reply, TypeOK
    <3> QED BY <2>2, <2>4, <3>1 DEF Parking
  <2> QED BY <2>5, <2>6
<1>3. CASE Close(x)
  <2>1. /\ turn[x].pc = "closing" /\ turn[x].next \in {"review", "blocked", "done"}
        /\ turn'[x] = Idle /\ status'[x] = turn[x].next /\ waiting'[x] = turn[x].waits
        /\ cascades \subseteq cascades'
        /\ turn[x].next # "blocked" => [task |-> x, at |-> "start"] \in cascades'
        /\ \A t \in Task \ {x} : turn'[t] = turn[t] /\ status'[t] = status[t] /\ waiting'[t] = waiting[t]
    BY <1>3, <1>a, <1>b, TurnType DEF Close, TypeOK, Settled
  <2>2. ASSUME Parent[x] # p PROVE Pending(p) # {} <=> Pending(p)' # {}
    BY <2>1, <2>2 DEF Pending, Children, Settled
  <2>3. Parent[x] = p => turn[p].pc # "closing"
    BY <1>3 DEF Close
  <2>4. Parking(p)'
    BY <2>1, <2>2, <2>3 DEF Parking, Idle
  <2>5. CASE x = p
    <3>1. Parent[x] # p
      BY <2>1, <2>3, <2>5
    <3>2. waiting'[p] => Pending(p) # {}
      BY <2>1, <2>5 DEF Parking
    <3> QED BY <3>1, <3>2, <2>2, <2>4 DEF Looked
  <2>6. CASE x # p /\ Parent[x] = p
    <3>1. CASE turn[x].next = "blocked"
      <4>1. x \in Pending(p)'
        BY <2>1, <2>6, <3>1 DEF Pending, Children, Settled
      <4> QED BY <2>4, <4>1 DEF Looked
    <3>2. CASE turn[x].next # "blocked"
      <4>1. \E c \in cascades' : Parent[c.task] = p
        BY <2>1, <2>6, <3>2
      <4> QED BY <2>4, <4>1 DEF Looked
    <3> QED BY <3>1, <3>2
  <2>7. CASE x # p /\ Parent[x] # p
    BY <2>1, <2>2, <2>4, <2>7 DEF Looked
  <2> QED BY <2>5, <2>6, <2>7
<1> QED BY <1>1, <1>2, <1>3 DEF Answers

\* A call of the cascade is over only when its parent is not waiting, or not for nothing.
LEMMA CascadesWake ==
  ASSUME Core, [Next]_vars, NEW p \in Task, Looked(p), Parking(p), NEW d \in cascades, Cascade(d)
  PROVE  Looked(p)' /\ Parking(p)'
<1> USE GraphAssumption
<1>a. TypeOK
  BY DEF Core
<1>b. /\ d.task \in Task
      /\ \A to \in CascadeAt : [d EXCEPT !.at = to].task = d.task
  BY <1>a, CallTypes DEF TypeOK
<1>1. CASE WakeParent(d)
  <2>1. Parent[d.task] \in Task
    <3>1. Parent[d.task] # NoTask
      BY <1>1 DEF Core, Exists, WakeParent
    <3> QED BY <3>1, <1>b
  <2>2. /\ status' = [status EXCEPT ![Parent[d.task]] = "todo"] /\ cascades' = cascades \ {d}
        /\ turn' = turn /\ \A t \in Task : waiting'[t] => waiting[t]
    BY <1>1, <2>1, <1>a DEF WakeParent, Leave, TypeOK
  <2>3. \A t \in Task : status'[t] = status[t] \/ status'[t] = "todo"
    BY <2>2, <1>a DEF TypeOK
  <2>4. Pending(p) # {} => Pending(p)' # {}
    BY <2>3, Pends
  <2>5. Parking(p)'
    BY <2>2, <2>4 DEF Parking
  <2>6. CASE Parent[d.task] = p
    <3>1. status'[p] = "todo"
      BY <2>2, <2>6, <1>a DEF TypeOK
    <3> QED BY <2>5, <3>1 DEF Looked
  <2>7. CASE Parent[d.task] # p
    BY <2>2, <2>3, <2>4, <2>5, <2>7 DEF Looked
  <2> QED BY <2>6, <2>7
<1>2. CASE CascadeStart(d) \/ CountSiblings(d) \/ LookAtParent(d)
  <2>1. status' = status /\ turn' = turn /\ waiting' = waiting
    BY <1>2 DEF CascadeStart, CountSiblings, LookAtParent
  <2>2. Pending(p)' = Pending(p)
    BY <2>1 DEF Pending, Children
  <2>3. Parking(p)'
    BY <2>1, <2>2 DEF Parking
  <2>4. \A c \in cascades : c # d => c \in cascades'
    BY <1>2 DEF CascadeStart, CountSiblings, LookAtParent, Leave, Move
  <2>5. ASSUME Parent[d.task] = p, Pending(p) = {}, status[p] = "review"
        PROVE  \E c \in cascades' : Parent[c.task] = p
    <3>1. p # NoTask
      OBVIOUS
    <3>2. \E to \in CascadeAt : Move(d, to)
      BY <1>2, <2>5, <3>1 DEF CascadeStart, CountSiblings, LookAtParent, CascadeAt
    <3> QED BY <3>2, <2>5, <1>b DEF Move
  <2>6. Looked(p)'
    BY <2>1, <2>2, <2>4, <2>5 DEF Looked
  <2> QED BY <2>3, <2>6
<1> QED BY <1>1, <1>2 DEF Cascade

\* Every step keeps parked parents in sight.
LEMMA WokenStep == Core /\ Woken /\ [Next]_vars => Woken'
<1> SUFFICES ASSUME Core, Woken, [Next]_vars, ~crashed', NEW p \in Task, Unmoved(p)'
             PROVE  Looked(p)' /\ Parking(p)'
  BY DEF Woken
<1> USE GraphAssumption
<1>a. TypeOK
  BY DEF Core
<1>b. Looked(p) /\ Parking(p)
  BY Grows, Past DEF Woken
<1>1. CASE \E x \in Task : Send(x) \/ Sweep(x) \/ Claim(x) \/ Answers(x) \/ Close(x)
  BY <1>1, <1>b, TurnsWake
<1>2. CASE \E c \in cascades : Cascade(c)
  BY <1>2, <1>b, CascadesWake
<1>3. CASE \/ \E x \in Task : Approve(x) \/ Revise(x)
           \/ \E u \in unblocks : UnblockOne(u) \/ Free(u)
           \/ UNCHANGED vars
  <2>1. /\ \A t \in Task : \/ status'[t] = status[t] \/ status'[t] = "todo"
                           \/ status[t] = "review" /\ status'[t] = "done"
        /\ cascades \subseteq cascades' /\ waiting' = waiting /\ turn' = turn
    BY <1>3, <1>a DEF Approve, Revise, Reviewed, UnblockOne, Free, TypeOK, vars, calls
  <2>2. Pending(p) # {} => Pending(p)' # {}
    BY <2>1, Pends
  <2>3. Looked(p)'
    BY <2>1, <2>2, <1>b DEF Looked
  <2> QED BY <2>1, <2>2, <2>3, <1>b DEF Parking
<1>4. ASSUME NEW x \in Task, NEW to \in EditTo, Edit(x, to) PROVE Looked(p)' /\ Parking(p)'
  <2>1. x # p /\ ~(Parent[x] = p /\ status[x] # "none" /\ status'[x] # "none")
    BY <1>4 DEF Unmoved, Edit, Children
  <2>2. status[x] # "none" /\ to # "none"
    BY <1>4 DEF Edit, UserMay
  <2>3. /\ \A t \in Task \ {x} : status'[t] = status[t]
        /\ status'[x] = to /\ turn' = turn /\ waiting' = waiting /\ cascades' = cascades
    BY <1>4, <1>a DEF Edit, TypeOK, calls
  <2>4. Pending(p)' = Pending(p)
    BY <2>1, <2>2, <2>3 DEF Pending, Children, Settled
  <2> QED BY <2>1, <2>3, <2>4, <1>b DEF Looked, Parking
<1>5. ~Restart
  BY DEF Restart
<1> QED BY <1>1, <1>2, <1>3, <1>4, <1>5 DEF Next

-----------------------------------------------------------------------------
(* Roots over writers. *)

\* A settled writer of such a root is left in peace.
LEMMA SettledStays ==
  ASSUME Core, Quiet, [Next]_vars, NEW p \in Task, FlatRoot(p)', NEW c \in Children(p),
         status[c] \in Settled
  PROVE  status'[c] \in Settled
<1> USE GraphAssumption
<1>a. TypeOK /\ Exists
  BY DEF Core
<1>b. c \in Task /\ Parent[c] = p /\ status[c] # "none"
  BY DEF Children
<1>c. c \in Children(p)' /\ FlatRoot(p)
  BY Past
<1>d. c \notin moved' /\ c \notin revised' /\ Childless(c)
  BY <1>b, <1>c, Grows DEF FlatRoot, Childless
<1>e. InStep(c) /\ BlockedBy(c) /\ turn[c] \in Turns
  BY <1>a, <1>b, <1>d DEF Quiet, TypeOK
<1>f. turn[c].pc = "idle"
  BY <1>e, TurnType DEF InStep, Settled
<1>1. ASSUME NEW x \in Task, Send(x) \/ Sweep(x) \/ Claim(x) \/ Fail(x) \/ Close(x)
      PROVE  status'[c] = status[c]
  BY <1>1, <1>a, <1>b, <1>f DEF Send, Sweep, Claim, Fail, Close, TypeOK, Queued
<1>2. ASSUME NEW x \in Task, NEW delegated, NEW on, NEW review, Reply(x, delegated, on, review)
      PROVE  status'[c] = status[c]
  BY <1>2, <1>b DEF Reply
<1>3. ASSUME NEW x \in Task, Approve(x) \/ Revise(x) \/ (\E to \in EditTo : Edit(x, to))
      PROVE  status'[c] \in {status[c], "done"}
  BY <1>3, <1>a, <1>b, <1>d DEF Approve, Revise, Edit, TypeOK
<1>4. ASSUME NEW d \in cascades, Cascade(d) PROVE status'[c] = status[c]
  <2>1. CASE WakeParent(d)
    <3>1. Parent[d.task] # c
      BY <1>a, <1>d DEF TypeOK, Exists, Childless, Children
    <3> QED BY <2>1, <3>1, <1>a, <1>b DEF WakeParent, TypeOK
  <2> QED BY <1>4, <2>1 DEF Cascade, CascadeStart, CountSiblings, LookAtParent
<1>5. ASSUME NEW u \in unblocks, UnblockOne(u) \/ Free(u) PROVE status'[c] = status[c]
  <2>1. u.of # c
    BY <1>e DEF BlockedBy, Settled
  <2> QED BY <1>5, <2>1, <1>a, <1>b DEF UnblockOne, Free, TypeOK
<1>6. ASSUME Restart \/ UNCHANGED vars PROVE status'[c] = status[c]
  BY <1>6, <1>a, <1>b DEF Restart, vars, TypeOK, Settled
<1> QED BY <1>1, <1>2, <1>3, <1>4, <1>5, <1>6 DEF Next, Answers, Settled

\* So nothing pends anew unless the root delegates.
LEMMA NothingPends ==
  ASSUME Core, Quiet, [Next]_vars, NEW p \in Task, FlatRoot(p)', Pending(p) = {},
         turn[p].pc # "working" \/ Children(p)' = Children(p)
  PROVE  Pending(p)' = {}
<1>1. ASSUME NEW c \in Children(p)' PROVE status'[c] \in Settled
  <2>0. c \in Task /\ Parent[c] = p /\ status'[c] # "none"
    BY DEF Children
  <2>1. c \in Children(p)
    <3>1. ASSUME status[c] = "none" PROVE turn[p].pc = "working"
      BY <2>0, <3>1, Born DEF Reply
    <3> QED BY <2>0, <3>1 DEF Children
  <2>2. status[c] \in Settled
    BY <2>1 DEF Pending, Children
  <2> QED BY <2>1, <2>2, SettledStays
<1> QED BY <1>1 DEF Pending, Children

\* Every step keeps such roots last.
LEMMA RootsStep == Core /\ Quiet /\ RootsLast /\ [Next]_vars => RootsLast'
<1> SUFFICES ASSUME Core, Quiet, RootsLast, [Next]_vars, NEW p \in Task, FlatRoot(p)'
             PROVE  DoneLast(p)'
  BY DEF RootsLast
<1> USE GraphAssumption
<1>a. TypeOK /\ Exists
  BY DEF Core
<1>b. FlatRoot(p) /\ DoneLast(p)
  BY Past DEF RootsLast
<1>c. Parent[p] = NoTask /\ p \notin moved'
  BY DEF FlatRoot
<1>d. turn[p] \in Turns
  BY <1>a DEF TypeOK
<1>1. CASE \E delegated \in SUBSET {c \in Task : Parent[c] = p} :
             \E on \in SUBSET MayBlockOn[p], review \in BOOLEAN : Reply(p, delegated, on, review)
  <2>1. PICK delegated \in SUBSET {c \in Task : Parent[c] = p}, on \in SUBSET MayBlockOn[p],
             review \in BOOLEAN : Reply(p, delegated, on, review)
    BY <1>1
  <2>2. on \in SUBSET Task
    BY <2>1
  <2>3. PICK y \in Turns : turn' = [turn EXCEPT ![p] = y] /\ y.next = NextStatus(p, delegated, on, review)
    BY <2>1, <2>2, <1>a, ReplyTurn DEF TypeOK
  <2>4. turn'[p] = y /\ turn[p].pc = "working" /\ status'[p] = status[p] /\ status[p] # "done"
    BY <2>1, <2>3, <1>a, <1>b, <1>c DEF TypeOK, Reply, DoneLast
  <2>5. ASSUME y.next = "done" PROVE Pending(p)' = {}
    <3>1. delegated = {} /\ Pending(p) = {}
      BY <2>3, <2>5 DEF NextStatus
    <3>2. status' = status
      BY <2>1, <3>1, <1>a DEF Reply, TypeOK
    <3> QED BY <3>1, <3>2 DEF Pending, Children
  <2> QED BY <2>4, <2>5 DEF DoneLast
<1>2. CASE ~ \E delegated \in SUBSET {c \in Task : Parent[c] = p} :
               \E on \in SUBSET MayBlockOn[p], review \in BOOLEAN : Reply(p, delegated, on, review)
  <2>1. Children(p)' = Children(p)
    <3>1. ASSUME NEW c \in Children(p)', status[c] = "none" PROVE FALSE
      BY <1>2, <3>1, Born DEF Children
    <3> QED BY <3>1, Past DEF Children
  <2>2. /\ \/ turn'[p] = turn[p]
           \/ turn'[p].pc \in {"idle", "queued"}
           \/ status'[p] = "in_progress" /\ turn'[p].pc = "working"
        /\ \/ status'[p] = "done" => status[p] = "done"
           \/ /\ turn[p].pc = "closing" /\ turn[p].next = "done"
              /\ turn'[p].pc = "idle"
    <3>1. ASSUME NEW x \in Task, Send(x) \/ Sweep(x) \/ Claim(x) \/ Fail(x) \/ Close(x) PROVE <2>2
      BY <3>1, <1>a DEF Send, Sweep, Claim, Fail, Close, TypeOK, Idle, Queued, calls
    <3>2. ASSUME NEW x \in Task, NEW delegated \in SUBSET {c \in Task : Parent[c] = x},
                 NEW on \in SUBSET MayBlockOn[x], NEW review \in BOOLEAN,
                 Reply(x, delegated, on, review)
          PROVE  <2>2
      BY <3>2, <1>2, <1>a DEF Reply, TypeOK
    <3>3. ASSUME NEW x \in Task, Approve(x) \/ Revise(x) \/ (\E to \in EditTo : Edit(x, to))
          PROVE  <2>2
      BY <3>3, <1>a, <1>c DEF Approve, Revise, Edit, Reviewed, TypeOK, calls
    <3>4. ASSUME NEW d \in cascades, Cascade(d) PROVE <2>2
      BY <3>4, <1>a DEF Cascade, CascadeStart, CountSiblings, LookAtParent, WakeParent, TypeOK
    <3>5. ASSUME NEW u \in unblocks, UnblockOne(u) \/ Free(u) PROVE <2>2
      BY <3>5, <1>a DEF UnblockOne, Free, TypeOK
    <3>6. CASE Restart
      BY <3>6, <1>a DEF Restart, TypeOK, Idle, Queued
    <3>7. CASE UNCHANGED vars
      BY <3>7 DEF vars
    <3> QED BY <3>1, <3>2, <3>3, <3>4, <3>5, <3>6, <3>7 DEF Next, Answers
  <2>3. Pending(p) = {} => Pending(p)' = {}
    BY <2>1, NothingPends
  <2> QED BY <2>2, <2>3, <1>b DEF DoneLast
<1> QED BY <1>1, <1>2

-----------------------------------------------------------------------------
(* The theorems. *)

\* Nothing is known to be wrong of the first tasks.
LEMMA InitIInv == Init => IInv
<1> SUFFICES ASSUME Init PROVE IInv
  OBVIOUS
<1> USE GraphAssumption
<1>1. Core
  <2>1. status \in [Task -> Status] /\ \A t \in Task : turn[t] = Idle
    BY DEF Init, Status
  <2>2. TypeOK
    <3>1. \A t \in Task : status[t] = "none" => turn[t] = Idle /\ t \notin sends
      BY <2>1 DEF Init
    <3>2. turn \in [Task -> Turns]
      BY TurnTypes DEF Init
    <3>3. /\ blockers \in [Task -> SUBSET Task] /\ waiting \in [Task -> BOOLEAN]
          /\ cascades = {} /\ unblocks = {} /\ sends \subseteq Task
      BY DEF Init
    <3>4. disturbances \in 0..MaxDisturbances
      BY DEF Init
    <3>5. revised \subseteq Task /\ moved \subseteq Task /\ crashed \in BOOLEAN
      BY Zenon DEF Init
    <3>6. /\ cascades \subseteq [task : Task, at : CascadeAt]
          /\ unblocks \subseteq [by : Task, of : Task, was : Status, emptied : BOOLEAN]
      BY <3>3, Zenon
    <3> QED BY <2>1, <3>1, <3>2, <3>3, <3>4, <3>5, <3>6, Zenon DEF TypeOK
  <2>3. Exists
    BY DEF Init, Exists
  <2> QED BY <2>2, <2>3 DEF Core
<1>2. \A t \in Task : InStep(t) /\ BlockedBy(t) /\ Freed(t)
  BY DEF Init, InStep, BlockedBy, Freed, Idle
<1>3. \A t \in Task : Looked(t) /\ Parking(t) /\ DoneLast(t)
  BY DEF Init, Looked, Parking, DoneLast, Idle
<1> QED BY <1>1, <1>2, <1>3 DEF IInv, Quiet, FreedLast, Woken, RootsLast

\* The invariant is inductive.
LEMMA Always == Spec => []IInv
<1>1. IInv /\ [Next]_vars => IInv'
  BY CoreStep, QuietStep, WokenStep, RootsStep DEF IInv
<1> QED BY InitIInv, <1>1, PTL DEF Spec

\* Every variable keeps its type; a task that was never created has no turn and is not
\* sent for, in any tree of parents.
THEOREM TypeCorrect == Spec => []TypeOK
<1>1. IInv => TypeOK
  BY DEF IInv, Core
<1> QED BY Always, <1>1, PTL

\* unblockDependents: the last of any number of blockers to be removed frees the task,
\* unless the task was moved by a user, has children, or the call was lost in a crash.
THEOREM LastBlockerAlways == Spec => []LastBlockerFrees
<1>1. IInv => LastBlockerFrees
  BY DEF IInv, FreedLast, LastBlockerFrees, Childless, Freed
<1> QED BY Always, <1>1, PTL

\* cascadeOnTaskDone: whichever of any number of children settles last, one cascade is
\* still to look at the parent that waits for them.
THEOREM WakeAlways == Spec => []SettledChildrenWakeParent
<1>1. IInv => SettledChildrenWakeParent
  BY DEF IInv, Woken, SettledChildrenWakeParent, Unmoved, Looked
<1> QED BY Always, <1>1, PTL

\* A root that delegates to any number of writers is done only when all are settled.
THEOREM ParentLastAlways == Spec => []ParentDoneLast
<1>1. IInv => ParentDoneLast
  BY DEF IInv, RootsLast, ParentDoneLast, FlatRoot, DoneLast
<1> QED BY Always, <1>1, PTL
=============================================================================
