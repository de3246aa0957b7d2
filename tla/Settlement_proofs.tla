-------------------------- MODULE Settlement_proofs --------------------------
(***************************************************************************)
(* Proofs about Settlement, for any number of tasks, lines, payout runs,   *)
(* transactions, faults and requests.                                      *)
(***************************************************************************)
EXTENDS Settlement, FiniteSetTheorems, TLAPS

-----------------------------------------------------------------------------
(* The inductive invariant. *)

\* The bound on the calls that bill a task holds for both kinds together.
CallsBounded == \A t \in Task : checks[t] + inserts[t] <= MaxCalls

\* A plan names each task once, and only tasks that have an invoice.
PlansDisjoint == \A r \in Run :
  /\ \A l \in run[r].lines : l \cap run[r].line = {}
  /\ \A l, k \in run[r].lines : l # k => l \cap k = {}

PlannedIsBilled == \A t \in Task :
  t \in HeldByRuns \/ t \in batch.covers => invoice[t].status # "none"

\* What a run and the batch know of the transaction they wait for or have seen.
RunSent(r) ==
  /\ run[r].sig \in DOMAIN tx
  /\ tx[run[r].sig].covers = run[r].line /\ ~ tx[run[r].sig].owner

RunKnows == \A r \in Run :
  /\ run[r].pc \in {"confirm", "mark"} => RunSent(r)
  /\ run[r].pc = "mark" => tx[run[r].sig].state = "landed"

BatchKnows ==
  /\ batch.pc = "none" => batch = NoBatch
  /\ batch.pc \in {"confirm", "mark"} => batch.sig # NoTx
  /\ batch.sig # NoTx =>
       /\ batch.sig \in DOMAIN tx /\ tx[batch.sig].owner
       /\ tx[batch.sig].covers = batch.covers
  /\ batch.pc = "mark" => tx[batch.sig].state # "sent"

\* A batch that is back in the browser with its signature was marked, or cut short by a crash.
BackIsMarked == \A t \in Task \ lost :
  batch.pc = "prepared" /\ batch.sig # NoTx /\ t \in batch.covers => invoice[t].status = "paid"

PaidHasSignature == \A t \in Task : invoice[t].status = "paid" => invoice[t].sig \in DOMAIN tx

\* A transaction that may yet move, or has moved, money for the task.
Alive(i, t) == i \in DOMAIN tx /\ tx[i].state \in {"sent", "landed"} /\ t \in tx[i].covers

\* Whoever sent it still waits for it or has marked the task.
Followed(i, t) ==
  \/ invoice[t].status = "paid"
  \/ \E r \in Run : run[r].pc \in {"confirm", "mark"} /\ run[r].sig = i /\ t \in run[r].line
  \/ batch.sig = i /\ t \in batch.covers

AliveIsFollowed == \A t \in Task \ lost : \A i \in Nat : Alive(i, t) => Followed(i, t)

\* A plan that has yet to send for the task.
Unsent(t) ==
  \/ \E r \in Run : t \in UNION run[r].lines
  \/ batch.sig = NoTx /\ t \in batch.covers

Clean == Task \ (overlap \cup lost)

OneHolder == \A t \in Clean :
  /\ \A r, q \in Run : t \in Held(r) /\ t \in Held(q) => r = q
  /\ \A r \in Run : t \in Held(r) => t \notin batch.covers

UnsentIsUnpaid == \A t \in Clean : Unsent(t) => \A i \in Nat : ~ Alive(i, t)

OneAlive == \A t \in Clean : \A i, j \in Nat : Alive(i, t) /\ Alive(j, t) => i = j

Knowledge == PlansDisjoint /\ PlannedIsBilled /\ RunKnows /\ BatchKnows /\ PaidHasSignature
Payment == BackIsMarked /\ AliveIsFollowed /\ OneHolder /\ UnsentIsUnpaid /\ OneAlive

IInv == TypeOK /\ CallsBounded /\ Knowledge /\ Payment

-----------------------------------------------------------------------------
(* Types. *)

\* What is billed or sent by a step is well typed.
LEMMA RecordTypes ==
  /\ Idle \in Runs /\ NoBatch \in Batches
  /\ \A t \in Task : NewInvoice(t) \in Invoices
BY SettlementAssumption DEF Idle, Runs, NoBatch, Batches, NewInvoice, Invoices, NoTx

\* What sending appends to the transactions.
LEMMA SentType ==
  ASSUME tx \in Seq(Txs), Len(tx) < MaxTx, NEW covers \in SUBSET Task, NEW owner,
         owner \in BOOLEAN, tx' = Sent(covers, owner)
  PROVE  /\ tx' \in Seq(Txs) /\ Len(tx') = Len(tx) + 1 /\ Len(tx') <= MaxTx
         /\ Len(tx) + 1 \in 0..MaxTx /\ Len(tx) + 1 # NoTx
         /\ Len(tx) + 1 \in DOMAIN tx' /\ Len(tx) + 1 \notin DOMAIN tx
         /\ DOMAIN tx' = DOMAIN tx \cup {Len(tx) + 1} /\ DOMAIN tx \subseteq Nat
         /\ \A i \in DOMAIN tx : tx'[i] = tx[i]
         /\ tx'[Len(tx) + 1].covers = covers /\ tx'[Len(tx) + 1].state = "sent"
         /\ tx'[Len(tx) + 1].owner = owner
<1> DEFINE rec == [covers |-> covers, state |-> "sent", owner |-> owner]
<1>1. rec \in Txs /\ rec.covers = covers /\ rec.state = "sent" /\ rec.owner = owner
  BY DEF Txs
<1>2. Len(tx) \in Nat /\ MaxTx \in Nat /\ tx' = Append(tx, rec)
  BY SettlementAssumption DEF Sent
<1> HIDE DEF rec
<1>3. tx' \in Seq(Txs) /\ Len(tx') = Len(tx) + 1 /\ tx'[Len(tx) + 1] = rec
      /\ \A i \in 1..Len(tx) : tx'[i] = tx[i]
  BY <1>1, <1>2
<1>4. DOMAIN tx = 1..Len(tx) /\ DOMAIN tx' = 1..(Len(tx) + 1)
  BY <1>3
<1> QED BY <1>1, <1>2, <1>3, <1>4 DEF NoTx

\* The run goes on or ends as a run.
LEMMA NextLineType ==
  ASSUME run \in [Run -> Runs], NEW r \in Run, NextLine(r)
  PROVE  /\ run' \in [Run -> Runs]
         /\ \A q \in Run \ {r} : run'[q] = run[q]
         /\ run'[r].pc \in {"idle", "next"} /\ run'[r].line = {} /\ run'[r].sig = NoTx
         /\ run'[r].lines = run[r].lines
<1>1. run[r].lines \in SUBSET SUBSET Task
  BY DEF Runs
<1>2. [pc |-> "next", lines |-> run[r].lines, line |-> {}, sig |-> NoTx] \in Runs
  BY <1>1, SettlementAssumption DEF Runs, NoTx
<1> QED BY <1>2, RecordTypes DEF NextLine, Idle

\* Marking leaves invoices; only those pending change, and they become paid.
LEMMA PaidType ==
  ASSUME invoice \in [Task -> Invoices], NEW covers, NEW sig \in 0..MaxTx
  PROVE  /\ Paid(covers, sig) \in [Task -> Invoices]
         /\ \A t \in Task : Paid(covers, sig)[t] = invoice[t] \/
              (invoice[t].status = "pending" /\ Paid(covers, sig)[t] = [status |-> "paid", sig |-> sig])
         /\ \A t \in Task : t \in covers /\ invoice[t].status \in {"pending", "paid"} =>
              Paid(covers, sig)[t].status = "paid"
BY DEF Paid, Invoices

\* The lines of a plan are sets of tasks with a pending invoice, each task in one.
LEMMA PayableLines ==
  /\ Payable \in SUBSET SUBSET Task
  /\ \A l \in Payable : \A t \in l : invoice[t].status = "pending"
  /\ \A l, k \in Payable : l # k => l \cap k = {}
BY DEF Payable, Pending

\* The types in two parts: what bills, and what pays.
CallTypes ==
  /\ status \in [Task -> {"open", "done"}]
  /\ checks \in [Task -> 0..MaxCalls] /\ inserts \in [Task -> 0..MaxCalls]
  /\ faults \in 0..MaxFaults /\ requests \in 0..MaxRequests
  /\ unbilled \subseteq Task
  /\ CallsBounded

PayTypes ==
  /\ invoice \in [Task -> Invoices]
  /\ run \in [Run -> Runs] /\ batch \in Batches
  /\ Len(tx) <= MaxTx /\ tx \in Seq(Txs)
  /\ overlap \subseteq Task /\ lost \subseteq Task

LEMMA TypesSplit == TypeOK /\ CallsBounded <=> CallTypes /\ PayTypes
BY DEF TypeOK, CallTypes, PayTypes

\* Every step keeps the types of what bills and the bound on the calls.
LEMMA CallTypesStep == CallTypes /\ [Next]_vars => CallTypes'
<1> SUFFICES ASSUME CallTypes, [Next]_vars PROVE CallTypes'
  OBVIOUS
<1> USE SettlementAssumption
<1>a. \A t \in Task : checks[t] \in 0..MaxCalls /\ inserts[t] \in 0..MaxCalls
                      /\ checks[t] + inserts[t] <= MaxCalls
  BY DEF CallTypes, CallsBounded
<1>1. ASSUME NEW t \in Task, Finish(t) PROVE CallTypes'
  <2>1. checks' \in [Task -> 0..MaxCalls] /\ \A u \in Task : checks'[u] + inserts[u] <= MaxCalls
    BY <1>1, <1>a DEF CallTypes, Finish, Call
  <2> QED BY <1>1, <2>1 DEF CallTypes, CallsBounded, Finish, history, bounds
<1>2. ASSUME NEW t \in Task, FinishAgain(t) PROVE CallTypes'
  <2>1. checks' \in [Task -> 0..MaxCalls] /\ \A u \in Task : checks'[u] + inserts[u] <= MaxCalls
    BY <1>2, <1>a DEF CallTypes, FinishAgain, Call
  <2> QED BY <1>2, <2>1 DEF CallTypes, CallsBounded, FinishAgain, Request, history
<1>3. ASSUME NEW t \in Task, Reopen(t) PROVE CallTypes'
  BY <1>3 DEF CallTypes, CallsBounded, Reopen, Request, history
<1>4. ASSUME NEW t \in Task, CheckTask(t) PROVE CallTypes'
  <2>1. /\ checks' \in [Task -> 0..MaxCalls] /\ inserts' \in [Task -> 0..MaxCalls]
        /\ \A u \in Task : checks'[u] + inserts'[u] <= MaxCalls
    BY <1>4, <1>a DEF CallTypes, CheckTask
  <2> QED BY <1>4, <2>1 DEF CallTypes, CallsBounded, CheckTask, history, bounds
<1>5. ASSUME NEW t \in Task, CreateInvoice(t) PROVE CallTypes'
  <2>1. /\ inserts' \in [Task -> 0..MaxCalls]
        /\ \A u \in Task : checks[u] + inserts'[u] <= MaxCalls
    BY <1>5, <1>a DEF CallTypes, CreateInvoice
  <2> QED BY <1>5, <2>1 DEF CallTypes, CallsBounded, CreateInvoice, history, bounds
<1>6. ASSUME NEW t \in Task, LoseBill(t) PROVE CallTypes'
  <2>1. /\ checks' \in [Task -> 0..MaxCalls] /\ inserts' \in [Task -> 0..MaxCalls]
        /\ \A u \in Task : checks'[u] + inserts'[u] <= MaxCalls
    BY <1>6, <1>a DEF CallTypes, LoseBill
  <2> QED BY <1>6, <2>1 DEF CallTypes, CallsBounded, LoseBill, Fault
<1>7. ASSUME NEW l \in Line, Reconcile(l) PROVE CallTypes'
  <2>1. /\ inserts' \in [Task -> 0..MaxCalls]
        /\ \A u \in Task : checks[u] + inserts'[u] <= MaxCalls
    BY <1>7, <1>a DEF CallTypes, Reconcile
  <2> QED BY <1>7, <2>1 DEF CallTypes, CallsBounded, Reconcile, Request, history
<1>8. CASE UNCHANGED <<billing, unbilled, bounds>>
  BY <1>8 DEF CallTypes, CallsBounded, billing, bounds
<1>9. ASSUME NEW r \in Run, MissConfirmation(r) PROVE CallTypes'
  BY <1>9 DEF CallTypes, CallsBounded, MissConfirmation, Fault, billing
<1>10. CASE Crash
  <2>1. checks' \in [Task -> 0..MaxCalls] /\ inserts' \in [Task -> 0..MaxCalls]
        /\ \A u \in Task : checks'[u] + inserts'[u] <= MaxCalls
    BY <1>10 DEF Crash
  <2> QED BY <1>10, <2>1 DEF CallTypes, CallsBounded, Crash, Fault
<1>11. ASSUME NEW r \in Run, Paying(r), ~ MissConfirmation(r) PROVE CallTypes'
  BY <1>11, <1>8 DEF Paying, Plan, Send, Confirm, Mark, history, bounds
<1>12. CASE Owner
  BY <1>12, <1>8 DEF Owner, Prepare, Submit, ConfirmBatch, MarkBatch, Abandon, history, bounds
<1>13. CASE \E i \in 1..MaxTx, s \in {"landed", "reverted", "dropped"} : Decide(i, s)
  BY <1>13, <1>8 DEF Decide, history
<1>14. CASE UNCHANGED vars
  BY <1>14, <1>8 DEF vars, history
<1> QED BY <1>1, <1>2, <1>3, <1>4, <1>5, <1>6, <1>7, <1>9, <1>10, <1>11, <1>12, <1>13,
           <1>14 DEF Next, Billing

\* Every step keeps the types of what pays.
LEMMA PayTypesStep == PayTypes /\ [Next]_vars => PayTypes'
<1> SUFFICES ASSUME PayTypes, [Next]_vars PROVE PayTypes'
  OBVIOUS
<1> USE SettlementAssumption
<1>a. ASSUME NEW r \in Run
      PROVE  /\ run[r] \in Runs
             /\ run[r].line \in SUBSET Task /\ run[r].lines \in SUBSET SUBSET Task
             /\ run[r].sig \in 0..MaxTx
  BY <1>a DEF PayTypes, Runs
<1>b. /\ batch.sig \in 0..MaxTx /\ batch.covers \in SUBSET Task
      /\ \A pc \in {"prepared", "confirm", "mark"} : [batch EXCEPT !.pc = pc] \in Batches
      /\ \A sig \in 0..MaxTx : [batch EXCEPT !.pc = "confirm", !.sig = sig] \in Batches
  <2>1. batch \in Batches
    BY DEF PayTypes
  <2> QED BY <2>1 DEF Batches
<1>1. ASSUME NEW t \in Task, CreateInvoice(t) PROVE PayTypes'
  <2>1. invoice' \in [Task -> Invoices]
    BY <1>1, RecordTypes DEF PayTypes, CreateInvoice, Inserted
  <2> QED BY <1>1, <2>1 DEF PayTypes, CreateInvoice, paying, history
<1>2. CASE UNCHANGED <<invoice, paying, overlap, lost>>
  BY <1>2 DEF PayTypes, paying
<1>3. ASSUME NEW t \in Task, Billing(t), ~ CreateInvoice(t) PROVE PayTypes'
  BY <1>3, <1>2 DEF Billing, Finish, FinishAgain, Reopen, CheckTask, LoseBill, history
<1>4. ASSUME NEW l \in Line, Reconcile(l) PROVE PayTypes'
  BY <1>4, <1>2 DEF Reconcile, history
<1>5. ASSUME NEW r \in Run, Plan(r) PROVE PayTypes'
  <2> DEFINE planned == [pc |-> "next", lines |-> Payable, line |-> {}, sig |-> NoTx]
  <2>1. planned \in Runs
    BY PayableLines DEF Runs, NoTx
  <2>2. run' \in [Run -> Runs]
    <3>1. run' = [run EXCEPT ![r] = planned] /\ run \in [Run -> Runs]
      BY <1>5 DEF Plan, PayTypes
    <3> HIDE DEF planned
    <3> QED BY <2>1, <3>1
  <2>3. overlap' \subseteq Task
    BY <1>5, PayableLines DEF Plan, PayTypes
  <2> QED BY <1>5, <2>2, <2>3 DEF PayTypes, Plan
<1>6. ASSUME NEW r \in Run, NEW line \in SUBSET Task, Send(r, line) PROVE PayTypes'
  <2>1. tx' \in Seq(Txs) /\ Len(tx') <= MaxTx /\ Len(tx) + 1 \in 0..MaxTx
    <3>1. tx \in Seq(Txs) /\ Len(tx) < MaxTx /\ tx' = Sent(line, FALSE)
      BY <1>6 DEF Send, PayTypes
    <3> QED BY <3>1, SentType
  <2> DEFINE asked == [pc |-> "confirm", lines |-> run[r].lines \ {line}, line |-> line,
                       sig |-> Len(tx) + 1]
  <2>2. asked \in Runs
    BY <2>1, <1>a DEF Runs
  <2>3. run' \in [Run -> Runs]
    <3>1. run' = [run EXCEPT ![r] = asked] /\ run \in [Run -> Runs]
      BY <1>6 DEF Send, PayTypes
    <3> HIDE DEF asked
    <3> QED BY <2>2, <3>1
  <2> QED BY <1>6, <2>1, <2>3 DEF PayTypes, Send, history
<1>7. ASSUME NEW r \in Run, Confirm(r) PROVE PayTypes'
  <2>1. [run[r] EXCEPT !.pc = "mark"] \in Runs
    BY <1>a DEF Runs
  <2>2. run' \in [Run -> Runs]
    BY <1>7, <2>1, NextLineType DEF Confirm, PayTypes
  <2> QED BY <1>7, <2>2 DEF PayTypes, Confirm, history
<1>8. ASSUME NEW r \in Run, MissConfirmation(r) PROVE PayTypes'
  <2>1. run' \in [Run -> Runs]
    BY <1>8, NextLineType DEF MissConfirmation, PayTypes
  <2>2. lost' \subseteq Task
    BY <1>8, <1>a DEF MissConfirmation, PayTypes
  <2> QED BY <1>8, <2>1, <2>2 DEF PayTypes, MissConfirmation
<1>9. ASSUME NEW r \in Run, Mark(r) PROVE PayTypes'
  <2>1. run' \in [Run -> Runs]
    BY <1>9, NextLineType DEF Mark, PayTypes
  <2>2. invoice' \in [Task -> Invoices]
    BY <1>9, <1>a, PaidType DEF Mark, Marked, PayTypes
  <2> QED BY <1>9, <2>1, <2>2 DEF PayTypes, Mark, history
<1>10. CASE Prepare
  <2>1. batch' = [pc |-> "prepared", covers |-> UNION Payable, sig |-> NoTx]
    BY <1>10 DEF Prepare
  <2>2. overlap' \subseteq Task
    BY <1>10, PayableLines DEF Prepare, PayTypes
  <2>3. batch' \in Batches
    <3>1. UNION Payable \in SUBSET Task /\ NoTx \in 0..MaxTx
      BY PayableLines DEF NoTx
    <3> QED BY <2>1, <3>1 DEF Batches
  <2> QED BY <1>10, <2>2, <2>3 DEF PayTypes, Prepare
<1>11. CASE Submit
  <2>1. CASE batch.sig = NoTx
    <3>0. tx \in Seq(Txs) /\ Len(tx) < MaxTx /\ tx' = Sent(batch.covers, TRUE)
      BY <1>11, <2>1 DEF Submit, PayTypes
    <3>1. tx' \in Seq(Txs) /\ Len(tx') <= MaxTx /\ Len(tx) + 1 \in 0..MaxTx
      BY <3>0, <1>b, SentType
    <3>2. batch' = [batch EXCEPT !.pc = "confirm", !.sig = Len(tx) + 1]
      BY <1>11, <2>1 DEF Submit
    <3>4. batch' \in Batches
      BY <3>1, <3>2, <1>b
    <3> QED BY <1>11, <3>1, <3>4 DEF PayTypes, Submit, history
  <2>2. CASE batch.sig # NoTx
    BY <1>11, <2>2, <1>b DEF PayTypes, Submit, history
  <2> QED BY <2>1, <2>2
<1>12. CASE ConfirmBatch
  BY <1>12, <1>b, RecordTypes DEF PayTypes, ConfirmBatch, history
<1>13. ASSUME NEW again \in BOOLEAN, MarkBatch(again) PROVE PayTypes'
  <2>1. invoice' \in [Task -> Invoices]
    BY <1>13, <1>b, PaidType DEF MarkBatch, PayTypes
  <2> QED BY <1>13, <2>1, <1>b, RecordTypes DEF PayTypes, MarkBatch, history
<1>14. CASE Abandon
  BY <1>14, RecordTypes DEF PayTypes, Abandon, history
<1>15. ASSUME NEW i \in 1..MaxTx, NEW s \in {"landed", "reverted", "dropped"}, Decide(i, s)
       PROVE  PayTypes'
  <2>1. i \in 1..Len(tx) /\ tx[i] \in Txs
    BY <1>15 DEF Decide, PayTypes
  <2>2. [tx[i] EXCEPT !.state = s] \in Txs
    BY <2>1 DEF Txs
  <2>3. tx' \in Seq(Txs) /\ Len(tx') = Len(tx)
    BY <1>15, <2>1, <2>2 DEF Decide, PayTypes
  <2> QED BY <1>15, <2>3 DEF PayTypes, Decide, history
<1>16. CASE Crash
  <2>1. run' \in [Run -> Runs]
    BY <1>16, RecordTypes DEF Crash
  <2>2. batch' \in Batches
    <3>1. batch' = [batch EXCEPT !.pc = "prepared"] \/ batch' = batch
      BY <1>16 DEF Crash
    <3> QED BY <3>1, <1>b DEF PayTypes
  <2>3. lost' \subseteq Task
    <3>1. UNION {run[r].line : r \in Run} \subseteq Task
      BY <1>a
    <3> QED BY <1>16, <3>1, <1>b DEF Crash, PayTypes
  <2> QED BY <1>16, <2>1, <2>2, <2>3 DEF PayTypes, Crash
<1>17. CASE UNCHANGED vars
  BY <1>17, <1>2 DEF vars, history
<1> QED BY <1>1, <1>3, <1>4, <1>5, <1>6, <1>7, <1>8, <1>9, <1>10, <1>11, <1>12, <1>13,
           <1>14, <1>15, <1>16, <1>17 DEF Next, Paying, Owner

\* Every step keeps the types.
LEMMA TypeStep == TypeOK /\ CallsBounded /\ [Next]_vars => TypeOK' /\ CallsBounded'
<1>1. CallTypes' /\ PayTypes' => TypeOK' /\ CallsBounded'
  BY DEF TypeOK, CallTypes, PayTypes
<1> QED BY <1>1, TypesSplit, CallTypesStep, PayTypesStep

-----------------------------------------------------------------------------
(* The invariant is kept: what bills, and the payout runs. *)

\* A step that leaves the payments alone, and of the invoices makes none or new ones.
LEMMA QuietStep ==
  ASSUME IInv, UNCHANGED <<paying, overlap, lost>>,
         \A t \in Task : invoice'[t] = invoice[t] \/
           (invoice[t].status = "none" /\ invoice'[t].status = "pending")
  PROVE  Knowledge' /\ Payment'
<1> USE DEF IInv, Knowledge, Payment, paying
<1>1. Knowledge'
  BY DEF PlansDisjoint, PlannedIsBilled, RunKnows, RunSent, BatchKnows, PaidHasSignature,
         HeldByRuns, Held
<1>2. \A i \in Nat, t \in Task : Alive(i, t)' = Alive(i, t) /\ (Followed(i, t) => Followed(i, t)')
  BY DEF Alive, Followed
<1>3. BackIsMarked' /\ AliveIsFollowed'
  BY <1>2 DEF BackIsMarked, AliveIsFollowed
<1>4. OneHolder' /\ UnsentIsUnpaid' /\ OneAlive'
  BY <1>2 DEF OneHolder, UnsentIsUnpaid, OneAlive, Clean, Held, Unsent
<1> QED BY <1>1, <1>3, <1>4

\* A plan takes the pending invoices, of which those that nobody holds are not being paid.
LEMMA PlanStep ==
  ASSUME IInv, NEW r \in Run, Plan(r)
  PROVE  Knowledge' /\ Payment'
<1> USE DEF IInv, Knowledge, Payment
<1>1. /\ run' = [run EXCEPT ![r] = [pc |-> "next", lines |-> Payable, line |-> {}, sig |-> NoTx]]
      /\ run \in [Run -> Runs] /\ run[r] = Idle
      /\ UNCHANGED <<invoice, batch, tx, lost>>
      /\ overlap' = overlap \cup ((UNION Payable) \cap (HeldByRuns \cup batch.covers))
  BY DEF Plan, TypeOK
<1>2. /\ \A q \in Run \ {r} : run'[q] = run[q]
      /\ run'[r].pc = "next" /\ run'[r].lines = Payable /\ run'[r].line = {}
  BY <1>1
<1>3. \A t \in UNION Payable : invoice[t].status = "pending" /\ t \in Task
  BY PayableLines
<1>4. /\ \A q \in Run \ {r} : Held(q)' = Held(q)
      /\ Held(r)' = UNION Payable
  BY <1>2 DEF Held
<1>5. Clean' \subseteq Clean
      /\ \A t \in Clean' : t \in UNION Payable =>
           (\A q \in Run : t \notin Held(q)) /\ t \notin batch.covers
  BY <1>1 DEF Clean, HeldByRuns
<1>6. Knowledge'
  <2>1. PlansDisjoint'
    BY <1>2, PayableLines DEF PlansDisjoint
  <2>2. PlannedIsBilled'
    BY <1>1, <1>3, <1>4 DEF PlannedIsBilled, HeldByRuns
  <2>3. RunKnows'
    BY <1>1, <1>2 DEF RunKnows, RunSent
  <2> QED BY <1>1, <2>1, <2>2, <2>3 DEF BatchKnows, PaidHasSignature
<1>7. \A i \in Nat, t \in Task : Alive(i, t)' = Alive(i, t)
  BY <1>1 DEF Alive
<1>8. \A i \in Nat, t \in Task : Followed(i, t) => Followed(i, t)'
  <2>1. run[r].pc = "idle"
    BY <1>1 DEF Idle
  <2> QED BY <1>1, <1>2, <2>1 DEF Followed
<1>9. BackIsMarked' /\ AliveIsFollowed'
  BY <1>1, <1>7, <1>8 DEF BackIsMarked, AliveIsFollowed
<1>10. OneHolder'
  BY <1>1, <1>4, <1>5 DEF OneHolder
<1>11. UnsentIsUnpaid'
  <2> SUFFICES ASSUME NEW t \in Clean', Unsent(t)', NEW i \in Nat, Alive(i, t) PROVE FALSE
    BY <1>7 DEF UnsentIsUnpaid, Clean
  <2>1. t \in Task /\ t \in Clean /\ t \notin lost
    BY <1>1, <1>5 DEF Clean
  <2>2. CASE t \in UNION Payable
    <3>1. Followed(i, t) /\ invoice[t].status = "pending"
      BY <1>3, <2>1, <2>2 DEF AliveIsFollowed
    <3>2. (\A q \in Run : t \notin Held(q)) /\ t \notin batch.covers
      BY <1>5, <2>2
    <3> QED BY <3>1, <3>2 DEF Followed, Held
  <2>3. CASE t \notin UNION Payable
    BY <1>1, <1>2, <2>1, <2>3 DEF Unsent, UnsentIsUnpaid
  <2> QED BY <2>2, <2>3
<1>12. OneAlive'
  BY <1>5, <1>7 DEF OneAlive, Clean
<1> QED BY <1>6, <1>9, <1>10, <1>11, <1>12

\* A line that is sent had no transaction alive.
LEMMA SendStep ==
  ASSUME IInv, NEW r \in Run, NEW line \in SUBSET Task, Send(r, line)
  PROVE  Knowledge' /\ Payment'
<1> USE DEF IInv, Knowledge, Payment
<1> DEFINE new == Len(tx) + 1
<1>1. /\ run' = [run EXCEPT ![r] = [pc |-> "confirm", lines |-> run[r].lines \ {line},
                                    line |-> line, sig |-> new]]
      /\ run \in [Run -> Runs] /\ run[r].pc = "next" /\ line \in run[r].lines
      /\ UNCHANGED <<invoice, batch, overlap, lost>>
      /\ tx \in Seq(Txs) /\ Len(tx) < MaxTx /\ tx' = Sent(line, FALSE)
  BY DEF Send, TypeOK, history
<1>2. /\ \A q \in Run \ {r} : run'[q] = run[q]
      /\ run'[r].pc = "confirm" /\ run'[r].lines = run[r].lines \ {line}
      /\ run'[r].line = line /\ run'[r].sig = new
  BY <1>1
<1>3. /\ new \in DOMAIN tx' /\ new \notin DOMAIN tx /\ new # NoTx
      /\ DOMAIN tx' = DOMAIN tx \cup {new} /\ DOMAIN tx \subseteq Nat /\ new \in Nat
      /\ \A i \in DOMAIN tx : tx'[i] = tx[i]
      /\ tx'[new].covers = line /\ tx'[new].state = "sent" /\ tx'[new].owner = FALSE
  <2>1. Len(tx) + 1 \in Nat
    BY <1>1, SettlementAssumption
  <2> QED BY <1>1, <2>1, SentType
<1> HIDE DEF new
<1>4. /\ \A q \in Run \ {r} : Held(q)' = Held(q)
      /\ Held(r)' \subseteq Held(r) /\ \A t \in line : Unsent(t) /\ t \in Held(r)
  <2>1. \A t \in line : t \in UNION run[r].lines
    BY <1>1
  <2>2. \A t \in UNION run'[r].lines : t \in UNION run[r].lines
    BY <1>2
  <2> QED BY <1>2, <2>1, <2>2 DEF Held, Unsent
<1>5. Clean' = Clean
  BY <1>1 DEF Clean
<1>6. Knowledge'
  <2>1. PlansDisjoint'
    BY <1>1, <1>2 DEF PlansDisjoint
  <2>2. PlannedIsBilled'
    BY <1>1, <1>4 DEF PlannedIsBilled, HeldByRuns
  <2>3. RunKnows'
    <3> SUFFICES ASSUME NEW q \in Run
                 PROVE  /\ run'[q].pc \in {"confirm", "mark"} => RunSent(q)'
                        /\ run'[q].pc = "mark" => tx'[run'[q].sig].state = "landed"
      BY DEF RunKnows
    <3>1. CASE q = r
      BY <1>2, <1>3, <3>1 DEF RunSent
    <3>2. CASE q # r
      BY <1>2, <1>3, <3>2 DEF RunKnows, RunSent
    <3> QED BY <3>1, <3>2
  <2>4. BatchKnows'
    BY <1>1, <1>3 DEF BatchKnows
  <2>5. PaidHasSignature'
    BY <1>1, <1>3 DEF PaidHasSignature
  <2> QED BY <2>1, <2>2, <2>3, <2>4, <2>5
<1>7. \A i \in Nat, t \in Task : Alive(i, t)' <=> Alive(i, t) \/ (i = new /\ t \in line)
  BY <1>3 DEF Alive
<1>8. ASSUME NEW i \in Nat, NEW t \in Task, Followed(i, t) PROVE Followed(i, t)'
  <2>1. \A q \in Run : run[q].pc \in {"confirm", "mark"} => run'[q] = run[q]
    BY <1>1, <1>2
  <2> QED BY <1>1, <1>8, <2>1 DEF Followed
<1>9. \A i \in Nat, t \in line : i = new => Followed(i, t)'
  BY <1>2 DEF Followed
<1>10. BackIsMarked' /\ AliveIsFollowed'
  BY <1>1, <1>3, <1>7, <1>8, <1>9 DEF BackIsMarked, AliveIsFollowed
<1>11. OneHolder'
  BY <1>1, <1>4, <1>5 DEF OneHolder
<1>12. UnsentIsUnpaid'
  <2> SUFFICES ASSUME NEW t \in Clean, Unsent(t)', NEW i \in Nat, Alive(i, t)' PROVE FALSE
    BY <1>5 DEF UnsentIsUnpaid, Clean
  <2>1. Unsent(t) /\ t \in Task
    BY <1>1, <1>2 DEF Unsent, Clean
  <2>2. i = new /\ t \in line
    BY <1>7, <2>1 DEF UnsentIsUnpaid
  <2>3. t \notin batch.covers /\ \A q \in Run \ {r} : t \notin Held(q)
    BY <1>4, <2>2 DEF OneHolder
  <2>4. t \notin UNION run'[r].lines
    BY <1>1, <1>2, <2>2 DEF PlansDisjoint
  <2> QED BY <1>1, <1>2, <2>3, <2>4 DEF Unsent, Held
<1>13. OneAlive'
  <2> SUFFICES ASSUME NEW t \in Clean, NEW i \in Nat, NEW j \in Nat, Alive(i, t)', Alive(j, t)'
               PROVE  i = j
    BY <1>5 DEF OneAlive, Clean
  <2>1. t \in Task
    BY DEF Clean
  <2>2. CASE t \in line
    BY <1>4, <1>7, <2>1, <2>2 DEF UnsentIsUnpaid
  <2>3. CASE t \notin line
    BY <1>7, <2>1, <2>3 DEF OneAlive
  <2> QED BY <2>2, <2>3
<1> QED BY <1>6, <1>10, <1>11, <1>12, <1>13

\* A run that has its answer goes on to mark the line if it landed, else leaves it unpaid.
LEMMA ConfirmStep ==
  ASSUME IInv, NEW r \in Run, Confirm(r)
  PROVE  Knowledge' /\ Payment'
<1> USE DEF IInv, Knowledge, Payment
<1>1. /\ run[r].pc = "confirm" /\ RunSent(r) /\ tx[run[r].sig].state # "sent"
      /\ UNCHANGED <<invoice, batch, tx, overlap, lost>> /\ run \in [Run -> Runs]
  BY DEF Confirm, TypeOK, history, RunKnows
<1>2. CASE tx[run[r].sig].state = "landed"
  <2>1. run' = [run EXCEPT ![r].pc = "mark"]
    BY <1>2 DEF Confirm, Succeeded
  <2>2. /\ \A q \in Run \ {r} : run'[q] = run[q]
        /\ run'[r].pc = "mark" /\ run'[r].lines = run[r].lines
        /\ run'[r].line = run[r].line /\ run'[r].sig = run[r].sig
    BY <1>1, <2>1 DEF Runs
  <2>3. \A q \in Run : Held(q)' = Held(q)
    BY <2>2 DEF Held
  <2>4. Knowledge'
    <3>1. PlansDisjoint' /\ PlannedIsBilled'
      BY <1>1, <2>2, <2>3 DEF PlansDisjoint, PlannedIsBilled, HeldByRuns
    <3>2. RunKnows'
      BY <1>1, <1>2, <2>2 DEF RunKnows, RunSent
    <3> QED BY <1>1, <3>1, <3>2 DEF BatchKnows, PaidHasSignature
  <2>5. \A i \in Nat, t \in Task : Alive(i, t)' = Alive(i, t)
    BY <1>1 DEF Alive
  <2>6. ASSUME NEW i \in Nat, NEW t \in Task, Followed(i, t) PROVE Followed(i, t)'
    BY <1>1, <2>2, <2>6 DEF Followed
  <2>7. \A t \in Task : Unsent(t)' = Unsent(t)
    BY <1>1, <2>2 DEF Unsent
  <2>8. BackIsMarked' /\ AliveIsFollowed'
    BY <1>1, <2>5, <2>6 DEF BackIsMarked, AliveIsFollowed
  <2>9. OneHolder' /\ UnsentIsUnpaid' /\ OneAlive'
    BY <1>1, <2>3, <2>5, <2>7 DEF OneHolder, UnsentIsUnpaid, OneAlive, Clean
  <2> QED BY <2>4, <2>8, <2>9
<1>3. CASE tx[run[r].sig].state # "landed"
  <2>1. NextLine(r)
    BY <1>3 DEF Confirm, Succeeded
  <2>2. /\ \A q \in Run \ {r} : run'[q] = run[q]
        /\ run'[r].pc \in {"idle", "next"} /\ run'[r].lines = run[r].lines /\ run'[r].line = {}
    BY <1>1, <2>1, NextLineType
  <2>3. /\ \A q \in Run \ {r} : Held(q)' = Held(q)
        /\ Held(r)' \subseteq Held(r)
    BY <2>2 DEF Held
  <2>4. Knowledge'
    <3>1. PlansDisjoint' /\ PlannedIsBilled'
      BY <1>1, <2>2, <2>3 DEF PlansDisjoint, PlannedIsBilled, HeldByRuns
    <3>2. RunKnows'
      BY <1>1, <2>2 DEF RunKnows, RunSent
    <3> QED BY <1>1, <3>1, <3>2 DEF BatchKnows, PaidHasSignature
  <2>5. \A i \in Nat, t \in Task : Alive(i, t)' = Alive(i, t)
    BY <1>1 DEF Alive
  <2>6. ASSUME NEW i \in Nat, NEW t \in Task, Alive(i, t), Followed(i, t) PROVE Followed(i, t)'
    <3>1. i # run[r].sig
      BY <1>1, <1>3, <2>6 DEF Alive
    <3> QED BY <1>1, <2>2, <2>6, <3>1 DEF Followed
  <2>7. \A t \in Task : Unsent(t)' = Unsent(t)
    BY <1>1, <2>2 DEF Unsent
  <2>8. BackIsMarked' /\ AliveIsFollowed'
    BY <1>1, <2>5, <2>6 DEF BackIsMarked, AliveIsFollowed
  <2>9. OneHolder' /\ UnsentIsUnpaid' /\ OneAlive'
    BY <1>1, <2>3, <2>5, <2>7 DEF OneHolder, UnsentIsUnpaid, OneAlive, Clean
  <2> QED BY <2>4, <2>8, <2>9
<1> QED BY <1>2, <1>3

\* A payment whose confirmation is lost is no longer followed, and is counted among the lost.
LEMMA MissStep ==
  ASSUME IInv, NEW r \in Run, MissConfirmation(r)
  PROVE  Knowledge' /\ Payment'
<1> USE DEF IInv, Knowledge, Payment
<1>1. /\ run[r].pc = "confirm" /\ run \in [Run -> Runs] /\ NextLine(r)
      /\ UNCHANGED <<invoice, batch, tx, overlap>> /\ lost' = lost \cup run[r].line
  BY DEF MissConfirmation, TypeOK
<1>2. /\ \A q \in Run \ {r} : run'[q] = run[q]
      /\ run'[r].pc \in {"idle", "next"} /\ run'[r].lines = run[r].lines /\ run'[r].line = {}
  BY <1>1, NextLineType
<1>3. /\ \A q \in Run \ {r} : Held(q)' = Held(q)
      /\ Held(r)' \subseteq Held(r)
  BY <1>2 DEF Held
<1>4. Knowledge'
  <2>1. PlansDisjoint' /\ PlannedIsBilled'
    BY <1>1, <1>2, <1>3 DEF PlansDisjoint, PlannedIsBilled, HeldByRuns
  <2>2. RunKnows'
    BY <1>1, <1>2 DEF RunKnows, RunSent
  <2> QED BY <1>1, <2>1, <2>2 DEF BatchKnows, PaidHasSignature
<1>5. \A i \in Nat, t \in Task : Alive(i, t)' = Alive(i, t)
  BY <1>1 DEF Alive
<1>6. ASSUME NEW i \in Nat, NEW t \in Task \ lost', Followed(i, t) PROVE Followed(i, t)'
  BY <1>1, <1>2, <1>6 DEF Followed
<1>7. \A t \in Task : Unsent(t)' = Unsent(t)
  BY <1>1, <1>2 DEF Unsent
<1>8. BackIsMarked' /\ AliveIsFollowed'
  BY <1>1, <1>5, <1>6 DEF BackIsMarked, AliveIsFollowed
<1>9. OneHolder' /\ UnsentIsUnpaid' /\ OneAlive'
  BY <1>1, <1>3, <1>5, <1>7 DEF OneHolder, UnsentIsUnpaid, OneAlive, Clean
<1> QED BY <1>4, <1>8, <1>9

\* The invoices that a run marks are those of the transaction it saw land.
LEMMA MarkStep ==
  ASSUME IInv, NEW r \in Run, Mark(r)
  PROVE  Knowledge' /\ Payment'
<1> USE DEF IInv, Knowledge, Payment
<1>1. /\ run[r].pc = "mark" /\ run \in [Run -> Runs] /\ NextLine(r) /\ RunSent(r)
      /\ UNCHANGED <<batch, tx, overlap, lost>> /\ invoice \in [Task -> Invoices]
      /\ invoice' = Paid(run[r].line, run[r].sig) /\ run[r].sig \in 0..MaxTx
  BY DEF Mark, Marked, TypeOK, RunKnows, history, Runs
<1>2. /\ \A q \in Run \ {r} : run'[q] = run[q]
      /\ run'[r].pc \in {"idle", "next"} /\ run'[r].lines = run[r].lines /\ run'[r].line = {}
  BY <1>1, NextLineType
<1>3. /\ \A q \in Run \ {r} : Held(q)' = Held(q)
      /\ Held(r)' \subseteq Held(r)
  BY <1>2 DEF Held
<1>4. /\ \A t \in Task : invoice'[t] = invoice[t] \/
           (invoice[t].status = "pending" /\ invoice'[t].status = "paid"
            /\ invoice'[t].sig = run[r].sig)
      /\ \A t \in run[r].line : invoice'[t].status = "paid"
  <2>1. \A t \in Task : invoice'[t] = invoice[t] \/
          (invoice[t].status = "pending" /\ invoice'[t] = [status |-> "paid", sig |-> run[r].sig])
    BY <1>1, PaidType
  <2>2. ASSUME NEW t \in run[r].line PROVE invoice'[t].status = "paid"
    <3>1. t \in Task /\ t \in HeldByRuns
      BY <1>1, <2>2 DEF HeldByRuns, Held, Runs
    <3>2. invoice[t].status \in {"pending", "paid"}
      BY <1>1, <3>1 DEF PlannedIsBilled, Invoices
    <3> QED BY <1>1, <2>2, <3>1, <3>2 DEF Paid
  <2> QED BY <2>1, <2>2
<1>5. Knowledge'
  <2>1. PlansDisjoint'
    BY <1>2 DEF PlansDisjoint
  <2>2. PlannedIsBilled'
    BY <1>1, <1>3, <1>4 DEF PlannedIsBilled, HeldByRuns
  <2>3. RunKnows'
    BY <1>1, <1>2 DEF RunKnows, RunSent
  <2>4. PaidHasSignature'
    BY <1>1, <1>4 DEF PaidHasSignature, RunSent
  <2> QED BY <1>1, <2>1, <2>2, <2>3, <2>4 DEF BatchKnows
<1>6. \A i \in Nat, t \in Task : Alive(i, t)' = Alive(i, t)
  BY <1>1 DEF Alive
<1>7. ASSUME NEW i \in Nat, NEW t \in Task, Followed(i, t) PROVE Followed(i, t)'
  BY <1>1, <1>2, <1>4, <1>7 DEF Followed
<1>8. \A t \in Task : Unsent(t)' = Unsent(t)
  BY <1>1, <1>2 DEF Unsent
<1>9. BackIsMarked' /\ AliveIsFollowed'
  BY <1>1, <1>4, <1>6, <1>7 DEF BackIsMarked, AliveIsFollowed
<1>10. OneHolder' /\ UnsentIsUnpaid' /\ OneAlive'
  BY <1>1, <1>3, <1>6, <1>8 DEF OneHolder, UnsentIsUnpaid, OneAlive, Clean
<1> QED BY <1>5, <1>9, <1>10

-----------------------------------------------------------------------------
(* The invariant is kept: the owner's batch, the chain, and crashes. *)

\* The batch takes the pending invoices, of which those no run holds are not being paid.
LEMMA PrepareStep == IInv /\ Prepare => Knowledge' /\ Payment'
<1> SUFFICES ASSUME IInv, Prepare PROVE Knowledge' /\ Payment'
  OBVIOUS
<1> USE DEF IInv, Knowledge, Payment
<1>1. /\ batch = NoBatch
      /\ batch' = [pc |-> "prepared", covers |-> UNION Payable, sig |-> NoTx]
      /\ UNCHANGED <<invoice, run, tx, lost>>
      /\ overlap' = overlap \cup ((UNION Payable) \cap HeldByRuns)
  BY DEF Prepare, BatchKnows
<1>2. /\ batch.covers = {} /\ batch'.pc = "prepared" /\ batch'.covers = UNION Payable
      /\ batch'.sig = NoTx
  BY <1>1 DEF NoBatch
<1>3. \A t \in UNION Payable : invoice[t].status = "pending" /\ t \in Task
  BY PayableLines
<1>4. Clean' \subseteq Clean
      /\ \A t \in Clean' : t \in UNION Payable => \A q \in Run : t \notin Held(q)
  BY <1>1 DEF Clean, HeldByRuns
<1>5. \A q \in Run : Held(q)' = Held(q)
  BY <1>1 DEF Held
<1>6. Knowledge'
  <2>1. PlansDisjoint' /\ RunKnows' /\ PaidHasSignature'
    BY <1>1 DEF PlansDisjoint, RunKnows, RunSent, PaidHasSignature
  <2>2. PlannedIsBilled'
    BY <1>1, <1>2, <1>3, <1>5 DEF PlannedIsBilled, HeldByRuns
  <2>3. BatchKnows'
    BY <1>2 DEF BatchKnows
  <2> QED BY <2>1, <2>2, <2>3
<1>7. \A i \in Nat, t \in Task : Alive(i, t)' = Alive(i, t)
  BY <1>1 DEF Alive
<1>8. \A i \in Nat, t \in Task : Followed(i, t) => Followed(i, t)'
  BY <1>1, <1>2 DEF Followed
<1>9. BackIsMarked' /\ AliveIsFollowed'
  BY <1>1, <1>2, <1>7, <1>8 DEF BackIsMarked, AliveIsFollowed
<1>10. OneHolder'
  BY <1>1, <1>2, <1>4, <1>5 DEF OneHolder
<1>11. UnsentIsUnpaid'
  <2> SUFFICES ASSUME NEW t \in Clean', Unsent(t)', NEW i \in Nat, Alive(i, t) PROVE FALSE
    BY <1>7 DEF UnsentIsUnpaid, Clean
  <2>1. t \in Task /\ t \in Clean /\ t \notin lost
    BY <1>1, <1>4 DEF Clean
  <2>2. CASE t \in UNION Payable
    <3>1. Followed(i, t) /\ invoice[t].status = "pending"
      BY <1>3, <2>1, <2>2 DEF AliveIsFollowed
    <3>2. \A q \in Run : t \notin Held(q)
      BY <1>4, <2>2
    <3> QED BY <1>2, <3>1, <3>2 DEF Followed, Held
  <2>3. CASE t \notin UNION Payable
    BY <1>1, <1>2, <2>1, <2>3 DEF Unsent, UnsentIsUnpaid
  <2> QED BY <2>2, <2>3
<1>12. OneAlive'
  BY <1>4, <1>7 DEF OneAlive, Clean
<1> QED BY <1>6, <1>9, <1>10, <1>11, <1>12

\* A batch that is signed had no transaction alive; a second submit sends nothing.
LEMMA SubmitStep == IInv /\ Submit => Knowledge' /\ Payment'
<1> SUFFICES ASSUME IInv, Submit PROVE Knowledge' /\ Payment'
  OBVIOUS
<1> USE DEF IInv, Knowledge, Payment
<1>1. /\ batch.pc = "prepared" /\ batch \in Batches
      /\ UNCHANGED <<invoice, run, overlap, lost>>
      /\ tx \in Seq(Txs) /\ batch.covers \in SUBSET Task
  BY DEF Submit, TypeOK, history, Batches
<1>2. \A q \in Run : Held(q)' = Held(q)
  BY <1>1 DEF Held
<1>3. Clean' = Clean
  BY <1>1 DEF Clean
<1>4. CASE batch.sig = NoTx
  <2> DEFINE new == Len(tx) + 1
  <2>1. batch' = [batch EXCEPT !.pc = "confirm", !.sig = new]
        /\ Len(tx) < MaxTx /\ tx' = Sent(batch.covers, TRUE)
    BY <1>4 DEF Submit
  <2>2. batch'.pc = "confirm" /\ batch'.sig = new /\ batch'.covers = batch.covers
    BY <1>1, <2>1 DEF Batches
  <2>3. /\ new \in DOMAIN tx' /\ new \notin DOMAIN tx /\ new # NoTx
        /\ DOMAIN tx' = DOMAIN tx \cup {new} /\ DOMAIN tx \subseteq Nat /\ new \in Nat
        /\ \A i \in DOMAIN tx : tx'[i] = tx[i]
        /\ tx'[new].covers = batch.covers /\ tx'[new].state = "sent" /\ tx'[new].owner = TRUE
    <3>1. Len(tx) + 1 \in Nat
      BY <1>1, SettlementAssumption
    <3> QED BY <1>1, <2>1, <3>1, SentType
  <2> HIDE DEF new
  <2>4. Knowledge'
    <3>1. PlansDisjoint'
      BY <1>1 DEF PlansDisjoint
    <3>2. PlannedIsBilled'
      BY <1>1, <1>2, <2>2 DEF PlannedIsBilled, HeldByRuns
    <3>3. RunKnows'
      BY <1>1, <2>3 DEF RunKnows, RunSent
    <3>4. BatchKnows'
      BY <2>2, <2>3 DEF BatchKnows
    <3>5. PaidHasSignature'
      BY <1>1, <2>3 DEF PaidHasSignature
    <3> QED BY <3>1, <3>2, <3>3, <3>4, <3>5
  <2>5. \A i \in Nat, t \in Task : Alive(i, t)' <=> Alive(i, t) \/ (i = new /\ t \in batch.covers)
    BY <2>3 DEF Alive
  <2>6. ASSUME NEW i \in Nat, NEW t \in Task, Alive(i, t), Followed(i, t) PROVE Followed(i, t)'
    <3>1. i # NoTx
      BY <1>1, <2>6 DEF Alive, NoTx
    <3> QED BY <1>1, <1>4, <2>6, <3>1 DEF Followed
  <2>7. \A i \in Nat, t \in batch.covers : i = new => Followed(i, t)'
    BY <2>2 DEF Followed
  <2>8. BackIsMarked' /\ AliveIsFollowed'
    BY <1>1, <2>2, <2>5, <2>6, <2>7 DEF BackIsMarked, AliveIsFollowed
  <2>9. OneHolder'
    BY <1>2, <1>3, <2>2 DEF OneHolder
  <2>10. \A t \in batch.covers : Unsent(t)
    BY <1>4 DEF Unsent
  <2>11. UnsentIsUnpaid'
    <3> SUFFICES ASSUME NEW t \in Clean, Unsent(t)', NEW i \in Nat, Alive(i, t)' PROVE FALSE
      BY <1>3 DEF UnsentIsUnpaid, Clean
    <3>1. PICK q \in Run : t \in UNION run[q].lines
      BY <1>1, <2>2, <2>3 DEF Unsent
    <3>2. t \notin batch.covers
      BY <3>1 DEF OneHolder, Held
    <3>3. Alive(i, t) /\ Unsent(t)
      BY <2>5, <3>1, <3>2 DEF Unsent, Clean
    <3> QED BY <3>3 DEF UnsentIsUnpaid
  <2>12. OneAlive'
    <3> SUFFICES ASSUME NEW t \in Clean, NEW i \in Nat, NEW j \in Nat, Alive(i, t)', Alive(j, t)'
                 PROVE  i = j
      BY <1>3 DEF OneAlive, Clean
    <3>1. t \in Task
      BY DEF Clean
    <3>2. CASE t \in batch.covers
      BY <2>5, <2>10, <3>1, <3>2 DEF UnsentIsUnpaid
    <3>3. CASE t \notin batch.covers
      BY <2>5, <3>1, <3>3 DEF OneAlive
    <3> QED BY <3>2, <3>3
  <2> QED BY <2>4, <2>8, <2>9, <2>11, <2>12
<1>5. CASE batch.sig # NoTx
  <2>1. batch' = [batch EXCEPT !.pc = "confirm"] /\ tx' = tx
    BY <1>5 DEF Submit
  <2>2. batch'.pc = "confirm" /\ batch'.sig = batch.sig /\ batch'.covers = batch.covers
    BY <1>1, <2>1 DEF Batches
  <2>3. Knowledge'
    BY <1>1, <1>2, <1>5, <2>1, <2>2 DEF PlansDisjoint, PlannedIsBilled, RunKnows, RunSent,
       BatchKnows, PaidHasSignature, HeldByRuns
  <2>4. \A i \in Nat, t \in Task : Alive(i, t)' = Alive(i, t) /\ Followed(i, t)' = Followed(i, t)
    BY <1>1, <2>1, <2>2 DEF Alive, Followed
  <2>5. \A t \in Task : Unsent(t)' = Unsent(t)
    BY <1>1, <2>2 DEF Unsent
  <2>6. BackIsMarked' /\ AliveIsFollowed'
    BY <1>1, <2>2, <2>4 DEF BackIsMarked, AliveIsFollowed
  <2>7. OneHolder' /\ UnsentIsUnpaid' /\ OneAlive'
    BY <1>2, <1>3, <2>2, <2>4, <2>5 DEF OneHolder, UnsentIsUnpaid, OneAlive, Clean
  <2> QED BY <2>3, <2>6, <2>7
<1> QED BY <1>4, <1>5
\* A batch that expired is dropped with its transaction; one that was decided is marked next.
LEMMA ConfirmBatchStep == IInv /\ ConfirmBatch => Knowledge' /\ Payment'
<1> SUFFICES ASSUME IInv, ConfirmBatch PROVE Knowledge' /\ Payment'
  OBVIOUS
<1> USE DEF IInv, Knowledge, Payment
<1>1. /\ batch.pc = "confirm" /\ batch \in Batches /\ tx[batch.sig].state # "sent"
      /\ UNCHANGED <<invoice, run, tx, overlap, lost>>
      /\ batch.sig # NoTx /\ batch.sig \in DOMAIN tx /\ tx[batch.sig].owner
      /\ tx[batch.sig].covers = batch.covers
  BY DEF ConfirmBatch, TypeOK, history, BatchKnows
<1>2. /\ \A q \in Run : Held(q)' = Held(q)
      /\ Clean' = Clean /\ HeldByRuns' = HeldByRuns
  BY <1>1 DEF Held, Clean, HeldByRuns
<1>3. PlansDisjoint' /\ RunKnows' /\ PaidHasSignature'
  BY <1>1 DEF PlansDisjoint, RunKnows, RunSent, PaidHasSignature
<1>4. \A i \in Nat, t \in Task : Alive(i, t)' = Alive(i, t)
  BY <1>1 DEF Alive
<1>5. CASE tx[batch.sig].state = "dropped"
  <2>1. batch' = NoBatch /\ batch'.pc = "none" /\ batch'.covers = {} /\ batch'.sig = NoTx
    BY <1>5 DEF ConfirmBatch, NoBatch
  <2>2. PlannedIsBilled' /\ BatchKnows'
    BY <1>1, <1>2, <2>1 DEF PlannedIsBilled, BatchKnows
  <2>3. ASSUME NEW i \in Nat, NEW t \in Task, Alive(i, t), Followed(i, t) PROVE Followed(i, t)'
    <3>1. i # batch.sig
      BY <1>5, <2>3 DEF Alive
    <3> QED BY <1>1, <2>3, <3>1 DEF Followed
  <2>4. \A t \in Task : Unsent(t)' => Unsent(t)
    BY <1>1, <2>1 DEF Unsent
  <2>5. BackIsMarked' /\ AliveIsFollowed'
    BY <1>1, <1>4, <2>1, <2>3 DEF BackIsMarked, AliveIsFollowed
  <2>6. OneHolder' /\ UnsentIsUnpaid' /\ OneAlive'
    BY <1>2, <1>4, <2>1, <2>4 DEF OneHolder, UnsentIsUnpaid, OneAlive, Clean
  <2> QED BY <1>3, <2>2, <2>5, <2>6
<1>6. CASE tx[batch.sig].state # "dropped"
  <2>1. batch' = [batch EXCEPT !.pc = "mark"]
    BY <1>6 DEF ConfirmBatch
  <2>2. batch'.pc = "mark" /\ batch'.covers = batch.covers /\ batch'.sig = batch.sig
    BY <1>1, <2>1 DEF Batches
  <2>3. PlannedIsBilled' /\ BatchKnows'
    BY <1>1, <1>2, <2>2 DEF PlannedIsBilled, BatchKnows
  <2>4. \A i \in Nat, t \in Task : Followed(i, t)' = Followed(i, t)
    BY <1>1, <2>2 DEF Followed
  <2>5. \A t \in Task : Unsent(t)' = Unsent(t)
    BY <1>1, <2>2 DEF Unsent
  <2>6. BackIsMarked' /\ AliveIsFollowed'
    BY <1>1, <1>4, <2>2, <2>4 DEF BackIsMarked, AliveIsFollowed
  <2>7. OneHolder' /\ UnsentIsUnpaid' /\ OneAlive'
    BY <1>2, <1>4, <2>2, <2>5 DEF OneHolder, UnsentIsUnpaid, OneAlive, Clean
  <2> QED BY <1>3, <2>3, <2>6, <2>7
<1> QED BY <1>5, <1>6

\* What the batch covers is marked, whether or not the browser keeps the batch.
LEMMA MarkBatchStep ==
  ASSUME IInv, NEW again \in BOOLEAN, MarkBatch(again)
  PROVE  Knowledge' /\ Payment'
<1> USE DEF IInv, Knowledge, Payment
<1>1. /\ batch.pc = "mark" /\ batch \in Batches /\ invoice \in [Task -> Invoices]
      /\ UNCHANGED <<run, tx, overlap, lost>> /\ invoice' = Paid(batch.covers, batch.sig)
      /\ batch.sig # NoTx /\ batch.sig \in DOMAIN tx /\ tx[batch.sig].owner
      /\ tx[batch.sig].covers = batch.covers /\ tx[batch.sig].state # "sent"
      /\ batch.sig \in 0..MaxTx /\ batch.covers \in SUBSET Task
  BY DEF MarkBatch, TypeOK, history, BatchKnows, Batches
<1>2. \/ batch'.pc = "none" /\ batch' = NoBatch /\ batch'.covers = {} /\ batch'.sig = NoTx
      \/ batch'.pc = "prepared" /\ batch'.covers = batch.covers /\ batch'.sig = batch.sig
  <2>1. batch' = NoBatch \/ batch' = [batch EXCEPT !.pc = "prepared"]
    BY DEF MarkBatch
  <2> QED BY <1>1, <2>1 DEF NoBatch, Batches
<1>3. /\ \A q \in Run : Held(q)' = Held(q)
      /\ Clean' = Clean /\ HeldByRuns' = HeldByRuns
  BY <1>1 DEF Held, Clean, HeldByRuns
<1>4. /\ \A t \in Task : invoice'[t] = invoice[t] \/
           (invoice[t].status = "pending" /\ invoice'[t].status = "paid"
            /\ invoice'[t].sig = batch.sig)
      /\ \A t \in batch.covers : invoice'[t].status = "paid"
  <2>1. \A t \in Task : invoice'[t] = invoice[t] \/
          (invoice[t].status = "pending" /\ invoice'[t] = [status |-> "paid", sig |-> batch.sig])
    BY <1>1, PaidType
  <2>2. ASSUME NEW t \in batch.covers PROVE invoice'[t].status = "paid"
    <3>1. t \in Task
      BY <1>1
    <3>2. invoice[t].status \in {"pending", "paid"}
      BY <1>1, <3>1 DEF PlannedIsBilled, Invoices
    <3> QED BY <1>1, <2>2, <3>1, <3>2 DEF Paid
  <2> QED BY <2>1, <2>2
<1>5. Knowledge'
  <2>1. PlansDisjoint' /\ RunKnows'
    BY <1>1 DEF PlansDisjoint, RunKnows, RunSent
  <2>2. PlannedIsBilled'
    BY <1>2, <1>3, <1>4 DEF PlannedIsBilled
  <2>3. BatchKnows'
    BY <1>1, <1>2 DEF BatchKnows
  <2>4. PaidHasSignature'
    BY <1>1, <1>4 DEF PaidHasSignature
  <2> QED BY <2>1, <2>2, <2>3, <2>4
<1>6. \A i \in Nat, t \in Task : Alive(i, t)' = Alive(i, t)
  BY <1>1 DEF Alive
<1>7. ASSUME NEW i \in Nat, NEW t \in Task, Followed(i, t) PROVE Followed(i, t)'
  BY <1>1, <1>4, <1>7 DEF Followed
<1>8. \A t \in Task : Unsent(t)' => Unsent(t)
  BY <1>1, <1>2 DEF Unsent
<1>9. BackIsMarked' /\ AliveIsFollowed'
  BY <1>1, <1>2, <1>4, <1>6, <1>7 DEF BackIsMarked, AliveIsFollowed
<1>10. OneHolder' /\ UnsentIsUnpaid' /\ OneAlive'
  BY <1>2, <1>3, <1>6, <1>8 DEF OneHolder, UnsentIsUnpaid, OneAlive, Clean
<1> QED BY <1>5, <1>9, <1>10

\* A batch the browser drops was never sent, was marked, or is counted among the lost.
LEMMA AbandonStep == IInv /\ Abandon => Knowledge' /\ Payment'
<1> SUFFICES ASSUME IInv, Abandon PROVE Knowledge' /\ Payment'
  OBVIOUS
<1> USE DEF IInv, Knowledge, Payment
<1>1. /\ batch.pc = "prepared" /\ UNCHANGED <<invoice, run, tx, overlap, lost>>
      /\ batch' = NoBatch /\ batch'.pc = "none" /\ batch'.covers = {} /\ batch'.sig = NoTx
  BY DEF Abandon, NoBatch, history
<1>2. Knowledge'
  BY <1>1 DEF PlansDisjoint, RunKnows, RunSent, PaidHasSignature, BatchKnows, PlannedIsBilled,
     HeldByRuns, Held
<1>3. \A i \in Nat, t \in Task : Alive(i, t)' = Alive(i, t)
  BY <1>1 DEF Alive
<1>4. ASSUME NEW i \in Nat, NEW t \in Task \ lost, Alive(i, t), Followed(i, t)
      PROVE  Followed(i, t)'
  <2>1. i # NoTx
    BY <1>4 DEF Alive, NoTx, TypeOK
  <2>2. CASE batch.sig = i /\ t \in batch.covers
    BY <1>1, <2>1, <2>2 DEF BackIsMarked, Followed
  <2>3. CASE ~ (batch.sig = i /\ t \in batch.covers)
    BY <1>1, <1>4, <2>3 DEF Followed
  <2> QED BY <2>2, <2>3
<1>5. \A t \in Task : Unsent(t)' => Unsent(t)
  BY <1>1 DEF Unsent
<1>6. BackIsMarked' /\ AliveIsFollowed'
  BY <1>1, <1>3, <1>4 DEF BackIsMarked, AliveIsFollowed
<1>7. OneHolder' /\ UnsentIsUnpaid' /\ OneAlive'
  BY <1>1, <1>3, <1>5 DEF OneHolder, UnsentIsUnpaid, OneAlive, Clean, Held
<1> QED BY <1>2, <1>6, <1>7

\* The chain decides only what is still out: what was seen to land stays so.
LEMMA DecideStep ==
  ASSUME IInv, NEW n \in 1..MaxTx, NEW s \in {"landed", "reverted", "dropped"}, Decide(n, s)
  PROVE  Knowledge' /\ Payment'
<1> USE DEF IInv, Knowledge, Payment
<1>1. /\ n \in DOMAIN tx /\ tx[n].state = "sent" /\ tx' = [tx EXCEPT ![n].state = s]
      /\ UNCHANGED <<invoice, run, batch, overlap, lost>> /\ tx \in Seq(Txs)
  BY DEF Decide, TypeOK, history
<1>2. /\ DOMAIN tx' = DOMAIN tx
      /\ \A i \in DOMAIN tx : tx'[i].covers = tx[i].covers /\ tx'[i].owner = tx[i].owner
      /\ \A i \in DOMAIN tx \ {n} : tx'[i] = tx[i]
      /\ tx'[n].state = s
  <2>1. \A i \in DOMAIN tx : tx[i] \in Txs
    BY <1>1
  <2> QED BY <1>1, <2>1 DEF Txs
<1>3. Knowledge'
  <2>1. PlansDisjoint' /\ PlannedIsBilled'
    BY <1>1 DEF PlansDisjoint, PlannedIsBilled, HeldByRuns, Held
  <2>2. RunKnows'
    BY <1>1, <1>2 DEF RunKnows, RunSent
  <2>3. BatchKnows'
    BY <1>1, <1>2 DEF BatchKnows
  <2>4. PaidHasSignature'
    BY <1>1, <1>2 DEF PaidHasSignature
  <2> QED BY <2>1, <2>2, <2>3, <2>4
<1>4. \A i \in Nat, t \in Task : Alive(i, t)' => Alive(i, t)
  BY <1>1, <1>2 DEF Alive
<1>5. \A i \in Nat, t \in Task : Followed(i, t)' = Followed(i, t)
  BY <1>1 DEF Followed
<1>6. BackIsMarked' /\ AliveIsFollowed'
  BY <1>1, <1>4, <1>5 DEF BackIsMarked, AliveIsFollowed
<1>7. OneHolder' /\ UnsentIsUnpaid' /\ OneAlive'
  BY <1>1, <1>4 DEF OneHolder, UnsentIsUnpaid, OneAlive, Clean, Held, Unsent
<1> QED BY <1>3, <1>6, <1>7

\* A crash forgets the runs; what they and the batch had sent is counted among the lost.
LEMMA CrashStep == IInv /\ Crash => Knowledge' /\ Payment'
<1> SUFFICES ASSUME IInv, Crash PROVE Knowledge' /\ Payment'
  OBVIOUS
<1> USE DEF IInv, Knowledge, Payment
<1>1. /\ run' = [r \in Run |-> Idle] /\ UNCHANGED <<invoice, tx, overlap>>
      /\ lost' = lost \cup (UNION {run[r].line : r \in Run})
                      \cup (IF batch.sig # NoTx THEN batch.covers ELSE {})
      /\ batch' = IF batch.pc \in {"confirm", "mark"} THEN [batch EXCEPT !.pc = "prepared"]
                  ELSE batch
      /\ batch \in Batches
  BY DEF Crash, TypeOK
<1>2. \A r \in Run : run'[r].pc = "idle" /\ run'[r].lines = {} /\ run'[r].line = {}
  BY <1>1 DEF Idle
<1>3. /\ batch'.covers = batch.covers /\ batch'.sig = batch.sig
      /\ batch' = batch \/ batch'.pc = "prepared"
  BY <1>1 DEF Batches
<1>4. /\ \A r \in Run : Held(r)' = {}
      /\ HeldByRuns' = {} /\ Clean' \subseteq Clean
      /\ \A t \in Task \ lost' : t \notin lost /\ (\A r \in Run : t \notin run[r].line)
                                 /\ (batch.sig # NoTx => t \notin batch.covers)
  BY <1>1, <1>2 DEF Held, HeldByRuns, Clean
<1>5. Knowledge'
  <2>1. PlansDisjoint' /\ RunKnows' /\ PaidHasSignature'
    BY <1>1, <1>2 DEF PlansDisjoint, RunKnows, PaidHasSignature
  <2>2. PlannedIsBilled'
    BY <1>1, <1>3, <1>4 DEF PlannedIsBilled
  <2>3. BatchKnows'
    BY <1>1, <1>3 DEF BatchKnows
  <2> QED BY <2>1, <2>2, <2>3
<1>6. \A i \in Nat, t \in Task : Alive(i, t)' = Alive(i, t)
  BY <1>1 DEF Alive
<1>7. ASSUME NEW i \in Nat, NEW t \in Task \ lost', Alive(i, t), Followed(i, t)
      PROVE  Followed(i, t)'
  <2>1. i # NoTx
    BY <1>7 DEF Alive, NoTx, TypeOK
  <2> QED BY <1>1, <1>4, <1>7, <2>1 DEF Followed
<1>8. \A t \in Task : Unsent(t)' => Unsent(t)
  BY <1>2, <1>3 DEF Unsent
<1>9. BackIsMarked' /\ AliveIsFollowed'
  BY <1>1, <1>3, <1>4, <1>6, <1>7 DEF BackIsMarked, AliveIsFollowed
<1>10. OneHolder' /\ UnsentIsUnpaid' /\ OneAlive'
  BY <1>4, <1>6, <1>8 DEF OneHolder, UnsentIsUnpaid, OneAlive, Clean
<1> QED BY <1>5, <1>9, <1>10

-----------------------------------------------------------------------------
(* The theorems. *)

\* The invariant holds at the start and is kept by every step.
LEMMA Inductive == Spec => []IInv
<1>1. Init => IInv
  <2> SUFFICES ASSUME Init PROVE IInv
    OBVIOUS
  <2> USE SettlementAssumption DEF Init
  <2>1. TypeOK /\ CallsBounded
    <3>1. invoice \in [Task -> Invoices]
      BY DEF Invoices, NoTx
    <3>2. run \in [Run -> Runs] /\ batch \in Batches
      BY RecordTypes
    <3>3. tx \in Seq(Txs) /\ Len(tx) = 0
      OBVIOUS
    <3>4. CallTypes
      BY DEF CallTypes, CallsBounded
    <3>5. PayTypes
      BY <3>1, <3>2, <3>3 DEF PayTypes
    <3> QED BY <3>4, <3>5, TypesSplit
  <2>2. /\ \A r \in Run : run[r].pc = "idle" /\ run[r].lines = {} /\ run[r].line = {}
        /\ batch = NoBatch /\ batch.pc = "none" /\ batch.covers = {} /\ batch.sig = NoTx
        /\ DOMAIN tx = {} /\ \A t \in Task : invoice[t].status = "none"
    BY DEF Idle, NoBatch
  <2>3. Knowledge
    BY <2>2 DEF Knowledge, PlansDisjoint, PlannedIsBilled, RunKnows, BatchKnows, PaidHasSignature,
       HeldByRuns, Held
  <2>4. Payment
    BY <2>2 DEF Payment, BackIsMarked, AliveIsFollowed, OneHolder, UnsentIsUnpaid, OneAlive, Alive,
       Held
  <2> QED BY <2>1, <2>3, <2>4 DEF IInv
<1>2. IInv /\ [Next]_vars => IInv'
  <2> SUFFICES ASSUME IInv, [Next]_vars PROVE Knowledge' /\ Payment'
    BY TypeStep DEF IInv
  <2>1. ASSUME NEW t \in Task, Billing(t) PROVE Knowledge' /\ Payment'
    <3>1. UNCHANGED <<paying, overlap, lost>>
      BY <2>1 DEF Billing, Finish, FinishAgain, Reopen, CheckTask, CreateInvoice, LoseBill,
         history, paying
    <3>2. invoice \in [Task -> Invoices]
      BY DEF IInv, TypeOK
    <3>3. invoice' = invoice \/ (invoice[t].status = "none" /\
            invoice' = [invoice EXCEPT ![t] = NewInvoice(t)])
      BY <2>1 DEF Billing, Finish, FinishAgain, Reopen, CheckTask, CreateInvoice, LoseBill,
         Inserted, history, paying
    <3>4. \A u \in Task : invoice'[u] = invoice[u] \/
            (invoice[u].status = "none" /\ invoice'[u].status = "pending")
      BY <3>2, <3>3 DEF NewInvoice
    <3> QED BY <3>1, <3>4, QuietStep
  <2>2. ASSUME NEW l \in Line, Reconcile(l) PROVE Knowledge' /\ Payment'
    BY <2>2, QuietStep DEF Reconcile, history, paying
  <2>3. ASSUME NEW r \in Run, Paying(r) PROVE Knowledge' /\ Payment'
    BY <2>3, PlanStep, SendStep, ConfirmStep, MissStep, MarkStep DEF Paying
  <2>4. CASE Owner
    BY <2>4, PrepareStep, SubmitStep, ConfirmBatchStep, MarkBatchStep, AbandonStep DEF Owner
  <2>5. ASSUME NEW i \in 1..MaxTx, NEW s \in {"landed", "reverted", "dropped"}, Decide(i, s)
        PROVE  Knowledge' /\ Payment'
    BY <2>5, DecideStep
  <2>6. CASE UNCHANGED vars
    BY <2>6, QuietStep DEF vars, history
  <2> QED BY <2>1, <2>2, <2>3, <2>4, <2>5, <2>6, CrashStep DEF Next
<1> QED BY <1>1, <1>2, PTL DEF Spec

\* Every variable keeps its type.
THEOREM TypeCorrect == Spec => []TypeOK
<1>1. IInv => TypeOK
  BY DEF IInv
<1> QED BY <1>1, Inductive, PTL

\* Whatever is finished twice, reopened, reconciled, reverted, expired or confirmed twice, the
\* invoice of a task is paid out once, unless two plans held it or a confirmation was lost.
THEOREM PaidOnceAlways == Spec => []PaidOnce
<1>1. IInv => PaidOnce
  <2> SUFFICES ASSUME IInv, NEW t \in Task \ (overlap \cup lost) PROVE Transfers(t) <= 1
    BY DEF PaidOnce
  <2> DEFINE S == {i \in DOMAIN tx : tx[i].state = "landed" /\ t \in tx[i].covers}
  <2>1. \A i \in S : i \in Nat /\ Alive(i, t)
    BY DEF Alive, IInv, TypeOK
  <2>2. \A i, j \in S : i = j
    BY <2>1 DEF IInv, Payment, OneAlive, Clean
  <2>0. Transfers(t) = Cardinality(S)
    BY DEF Transfers
  <2> HIDE DEF S
  <2>3. CASE S = {}
    BY <2>0, <2>3, FS_EmptySet
  <2>4. ASSUME NEW i \in S PROVE Transfers(t) <= 1
    <3>1. S = {i}
      BY <2>2
    <3>2. Cardinality({i}) = 1
      BY FS_Singleton
    <3> QED BY <2>0, <3>1, <3>2
  <2> QED BY <2>3, <2>4
<1> QED BY <1>1, Inductive, PTL

\* What was paid is marked as paid once the run or the batch that paid it is over.
THEOREM PaidIsMarkedAlways == Spec => []PaidIsMarked
<1>1. IInv => PaidIsMarked
  <2> SUFFICES ASSUME IInv, NEW t \in Task \ lost, Transfers(t) > 0
               PROVE  invoice[t].status = "paid" \/ t \in HeldByRuns \/ t \in batch.covers
    BY DEF PaidIsMarked
  <2> DEFINE S == {i \in DOMAIN tx : tx[i].state = "landed" /\ t \in tx[i].covers}
  <2>1. S # {}
    BY FS_EmptySet DEF Transfers
  <2>2. PICK i \in S : TRUE
    BY <2>1
  <2>3. i \in Nat /\ Alive(i, t)
    BY DEF Alive, IInv, TypeOK
  <2>4. Followed(i, t)
    BY <2>3 DEF IInv, Payment, AliveIsFollowed
  <2> QED BY <2>4 DEF Followed, HeldByRuns, Held
<1> QED BY <1>1, Inductive, PTL
\* What a payout run has marked as paid was paid, by the transaction the row is stamped with.
THEOREM SignatureOfRunLandedAlways == Spec => []SignatureOfRunLanded
<1>1. Init => SignatureOfRunLanded
  BY DEF Init, SignatureOfRunLanded
<1>2. IInv /\ SignatureOfRunLanded /\ [Next]_vars => SignatureOfRunLanded'
  <2> SUFFICES ASSUME IInv, SignatureOfRunLanded, [Next]_vars, NEW t \in Task,
                      invoice'[t].status = "paid", ~ tx'[invoice'[t].sig].owner
               PROVE  /\ tx'[invoice'[t].sig].state = "landed"
                      /\ t \in tx'[invoice'[t].sig].covers
    BY DEF SignatureOfRunLanded
  <2> USE DEF IInv, Knowledge
  <2>a. /\ invoice \in [Task -> Invoices] /\ tx \in Seq(Txs)
        /\ \A i \in DOMAIN tx : tx[i] \in Txs
    BY DEF TypeOK
  <2>b. invoice[t].status = "paid" => invoice[t].sig \in DOMAIN tx
    BY DEF PaidHasSignature
  <2>1. CASE invoice'[t] = invoice[t] /\ \A i \in DOMAIN tx : tx'[i] = tx[i]
    BY <2>1, <2>b DEF SignatureOfRunLanded
  <2>2. ASSUME NEW u \in Task, Billing(u) PROVE invoice'[t] = invoice[t] /\ tx' = tx
    <3>1. tx' = tx /\ (invoice' = invoice \/ invoice' = [invoice EXCEPT ![u] = NewInvoice(u)])
      BY <2>2 DEF Billing, Finish, FinishAgain, Reopen, CheckTask, CreateInvoice, LoseBill,
         Inserted, history, paying
    <3>2. NewInvoice(u).status # "paid"
      BY DEF NewInvoice
    <3> QED BY <2>a, <3>1, <3>2
  <2>3. ASSUME NEW l \in Line, Reconcile(l) PROVE invoice' = invoice /\ tx' = tx
    BY <2>3 DEF Reconcile, paying
  <2>4. ASSUME NEW r \in Run, Plan(r) \/ Confirm(r) \/ MissConfirmation(r)
        PROVE  invoice' = invoice /\ tx' = tx
    BY <2>4 DEF Plan, Confirm, MissConfirmation
  <2>5. ASSUME NEW r \in Run, NEW line \in SUBSET Task, Send(r, line)
        PROVE  invoice' = invoice /\ \A i \in DOMAIN tx : tx'[i] = tx[i]
    BY <2>5, <2>a, SentType DEF Send
  <2>6. ASSUME NEW r \in Run, Mark(r), invoice'[t] # invoice[t]
        PROVE  tx'[invoice'[t].sig].state = "landed" /\ t \in tx'[invoice'[t].sig].covers
    <3>1. run[r].sig \in 0..MaxTx /\ RunSent(r) /\ tx[run[r].sig].state = "landed" /\ tx' = tx
      BY <2>6 DEF Mark, RunKnows, TypeOK, Runs
    <3>2. t \in run[r].line /\ invoice'[t] = [status |-> "paid", sig |-> run[r].sig]
      BY <2>6, <2>a DEF Mark, Marked, Paid
    <3> QED BY <3>1, <3>2 DEF RunSent
  <2>7. ASSUME NEW r \in Run, Mark(r), invoice'[t] = invoice[t]
        PROVE  \A i \in DOMAIN tx : tx'[i] = tx[i]
    BY <2>7 DEF Mark
  <2>8. CASE Prepare \/ ConfirmBatch \/ Abandon
    BY <2>1, <2>8 DEF Prepare, ConfirmBatch, Abandon
  <2>9. CASE Submit
    <3>1. batch.covers \in SUBSET Task
      BY DEF TypeOK, Batches
    <3>2. invoice' = invoice /\ (tx' = tx \/ (Len(tx) < MaxTx /\ tx' = Sent(batch.covers, TRUE)))
      BY <2>9 DEF Submit
    <3>3. \A i \in DOMAIN tx : tx'[i] = tx[i]
      BY <2>a, <3>1, <3>2, SentType
    <3> QED BY <2>1, <3>2, <3>3
  <2>10. ASSUME NEW again \in BOOLEAN, MarkBatch(again) PROVE invoice'[t] = invoice[t] /\ tx' = tx
    <3>1. tx' = tx /\ tx[batch.sig].owner
      BY <2>10 DEF MarkBatch, BatchKnows
    <3>2. invoice'[t] = invoice[t] \/ invoice'[t] = [status |-> "paid", sig |-> batch.sig]
      BY <2>10, <2>a DEF MarkBatch, Paid
    <3>3. invoice'[t].sig # batch.sig
      BY <3>1
    <3> QED BY <3>1, <3>2, <3>3
  <2>11. ASSUME NEW n \in 1..MaxTx, NEW s \in {"landed", "reverted", "dropped"}, Decide(n, s)
         PROVE  /\ tx'[invoice'[t].sig].state = "landed"
                /\ t \in tx'[invoice'[t].sig].covers
    <3>1. /\ n \in DOMAIN tx /\ tx[n].state = "sent" /\ tx' = [tx EXCEPT ![n].state = s]
          /\ invoice' = invoice
      BY <2>11 DEF Decide
    <3>2. tx'[n].owner = tx[n].owner
      BY <2>a, <3>1 DEF Txs
    <3>3. invoice[t].sig # n
      BY <2>b, <3>1, <3>2 DEF SignatureOfRunLanded
    <3>4. invoice[t].sig \in DOMAIN tx /\ tx'[invoice[t].sig] = tx[invoice[t].sig]
      BY <2>a, <2>b, <3>1, <3>3
    <3> QED BY <3>1, <3>4 DEF SignatureOfRunLanded
  <2>12. CASE Crash \/ UNCHANGED vars
    BY <2>1, <2>12 DEF Crash, vars, paying
  <2> QED BY <2>1, <2>2, <2>3, <2>4, <2>5, <2>6, <2>7, <2>8, <2>9, <2>10, <2>11, <2>12
          DEF Next, Paying, Owner
<1> QED BY <1>1, <1>2, Inductive, PTL DEF Spec

\* A task that is done is billed, or is about to be, unless a call that bills it was lost.
THEOREM DoneIsBilledAlways == Spec => []DoneIsBilled
<1>1. Init => DoneIsBilled
  BY DEF Init, DoneIsBilled
<1>2. IInv /\ DoneIsBilled /\ [Next]_vars => DoneIsBilled'
  <2> SUFFICES ASSUME IInv, DoneIsBilled, [Next]_vars PROVE DoneIsBilled'
    OBVIOUS
  <2> USE SettlementAssumption DEF DoneIsBilled
  <2>a. /\ checks \in [Task -> 0..MaxCalls] /\ inserts \in [Task -> 0..MaxCalls]
        /\ status \in [Task -> {"open", "done"}] /\ invoice \in [Task -> Invoices]
    BY DEF IInv, TypeOK
  <2>1. ASSUME NEW t \in Task, Finish(t) \/ FinishAgain(t) PROVE DoneIsBilled'
    BY <2>1, <2>a DEF Finish, FinishAgain, Call, history
  <2>2. ASSUME NEW t \in Task, Reopen(t) PROVE DoneIsBilled'
    BY <2>2, <2>a DEF Reopen, history
  <2>3. ASSUME NEW t \in Task, CheckTask(t) PROVE DoneIsBilled'
    BY <2>3, <2>a DEF CheckTask, Billable, history
  <2>4. ASSUME NEW t \in Task, CreateInvoice(t) PROVE DoneIsBilled'
    <3>1. invoice'[t].status # "none" /\ \A u \in Task \ {t} : invoice'[u] = invoice[u]
      BY <2>4, <2>a DEF CreateInvoice, Inserted, NewInvoice
    <3> QED BY <2>4, <2>a, <3>1 DEF CreateInvoice, history
  <2>5. ASSUME NEW t \in Task, LoseBill(t) PROVE DoneIsBilled'
    BY <2>5, <2>a DEF LoseBill
  <2>6. ASSUME NEW l \in Line, Reconcile(l) PROVE DoneIsBilled'
    BY <2>6, <2>a DEF Reconcile, history
  <2>7. CASE UNCHANGED <<billing, unbilled>> /\
             \A u \in Task : invoice[u].status # "none" => invoice'[u].status # "none"
    BY <2>7 DEF billing
  <2>8. ASSUME NEW r \in Run, Plan(r) \/ (\E line \in SUBSET Task : Send(r, line)) \/ Confirm(r)
                              \/ MissConfirmation(r)
        PROVE  DoneIsBilled'
    BY <2>7, <2>8 DEF Plan, Send, Confirm, MissConfirmation, history
  <2>9. ASSUME NEW r \in Run, Mark(r) PROVE DoneIsBilled'
    BY <2>7, <2>9, <2>a DEF Mark, Marked, Paid, history
  <2>10. CASE Prepare \/ Submit \/ ConfirmBatch \/ Abandon
    BY <2>7, <2>10 DEF Prepare, Submit, ConfirmBatch, Abandon, history
  <2>11. ASSUME NEW again \in BOOLEAN, MarkBatch(again) PROVE DoneIsBilled'
    BY <2>7, <2>11, <2>a DEF MarkBatch, Paid, history
  <2>12. ASSUME NEW n \in 1..MaxTx, NEW s \in {"landed", "reverted", "dropped"}, Decide(n, s)
         PROVE  DoneIsBilled'
    BY <2>7, <2>12 DEF Decide, history
  <2>13. CASE Crash
    BY <2>13, <2>a DEF Crash
  <2>14. CASE UNCHANGED vars
    BY <2>7, <2>14 DEF vars, history
  <2> QED BY <2>1, <2>2, <2>3, <2>4, <2>5, <2>6, <2>8, <2>9, <2>10, <2>11, <2>12, <2>13, <2>14
          DEF Next, Billing, Paying, Owner
<1> QED BY <1>1, <1>2, Inductive, PTL DEF Spec
=============================================================================
