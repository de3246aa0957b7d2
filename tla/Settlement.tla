------------------------------ MODULE Settlement ------------------------------
(***************************************************************************)
(* What a finished task is owed, and how it is paid: the invoice that a    *)
(* completion creates, the routine payout run (one transaction for each    *)
(* payable line), the batch that the owner signs in the browser, and the   *)
(* chain that may land, revert or drop what it is sent.                    *)
(*                                                                         *)
(* A line of a payout is the set of its invoices, and an invoice is named  *)
(* by its task: the unique index leaves one for each.                      *)
(***************************************************************************)
EXTENDS Integers, Sequences, FiniteSets

CONSTANTS
  Task, Line,      \* a line is an agent's invoices in one mint
  LineOf,          \* the line of each task
  Unset,           \* the lines whose agent has no receiving address
  Run,             \* bound: payout requests served at once
  MaxTx,           \* bound: transactions sent
  MaxCalls,        \* bound: calls that bill one task, at one time
  MaxFaults,       \* bound: crashes, calls and confirmations that get lost
  MaxRequests      \* bound: tasks finished twice, reopened, reconciled

ASSUME SettlementAssumption ==
  /\ LineOf \in [Task -> Line] /\ Unset \subseteq Line
  /\ {MaxTx, MaxCalls, MaxFaults, MaxRequests} \subseteq Nat

VARIABLES
  status,    \* of each task
  checks,    \* calls of ensureInvoiceForCompletedTask that have yet to read the task
  inserts,   \* calls of createInvoiceForTask in flight
  invoice,   \* the row: its status and its txSignature, an index into tx
  run,       \* the payout runs
  batch,     \* the owner's batch, as the browser holds it
  tx,        \* the transactions, in the order they were sent
  unbilled,  \* tasks one of whose billing calls was lost (history)
  overlap,   \* tasks planned for payment while another plan held them (history)
  lost,      \* tasks a payment of which was sent and not followed up (history)
  faults, requests

billing == <<status, checks, inserts>>
paying == <<run, batch, tx>>
history == <<unbilled, overlap, lost>>
bounds == <<faults, requests>>
vars == <<billing, invoice, paying, history, bounds>>

-----------------------------------------------------------------------------
(* Vocabulary. *)

NoTx == 0
Invoices == [status : {"none", "pending", "paid"}, sig : 0..MaxTx]

Idle == [pc |-> "idle", lines |-> {}, line |-> {}, sig |-> NoTx]
Runs == [pc : {"idle", "next", "confirm", "mark"}, lines : SUBSET SUBSET Task,
         line : SUBSET Task, sig : 0..MaxTx]

NoBatch == [pc |-> "none", covers |-> {}, sig |-> NoTx]
Batches == [pc : {"none", "prepared", "confirm", "mark"}, covers : SUBSET Task, sig : 0..MaxTx]

Txs == [covers : SUBSET Task, state : {"sent", "landed", "reverted", "dropped"},
        owner : BOOLEAN]

Fault == faults < MaxFaults /\ faults' = faults + 1 /\ UNCHANGED requests
Request == requests < MaxRequests /\ requests' = requests + 1 /\ UNCHANGED faults

Held(r) == run[r].line \cup UNION run[r].lines
HeldByRuns == UNION {Held(r) : r \in Run}

Sent(covers, owner) == Append(tx, [covers |-> covers, state |-> "sent", owner |-> owner])

Init ==
  /\ status = [t \in Task |-> "open"]
  /\ checks = [t \in Task |-> 0] /\ inserts = [t \in Task |-> 0]
  /\ invoice = [t \in Task |-> [status |-> "none", sig |-> NoTx]]
  /\ run = [r \in Run |-> Idle] /\ batch = NoBatch
  /\ tx = <<>>
  /\ unbilled = {} /\ overlap = {} /\ lost = {}
  /\ faults = 0 /\ requests = 0

-----------------------------------------------------------------------------
(* Billing. *)

Call(t) == checks[t] + inserts[t] < MaxCalls /\ checks' = [checks EXCEPT ![t] = @ + 1]

\* slip: a done that does not bill
FinishUnbilled(t) ==
  /\ status[t] = "open"
  /\ status' = [status EXCEPT ![t] = "done"]
  /\ UNCHANGED <<checks, inserts, invoice, paying, history, bounds>>

\* The close of a dispatch, the approval of a review, or a user's done: each bills.
Finish(t) ==
  /\ status[t] = "open"
  /\ status' = [status EXCEPT ![t] = "done"]
  /\ Call(t)
  /\ UNCHANGED <<inserts, invoice, paying, history, bounds>>

\* finalizeTaskDone of a task that is done: only the flip is left out.
FinishAgain(t) ==
  /\ status[t] = "done"
  /\ Call(t)
  /\ Request
  /\ UNCHANGED <<status, inserts, invoice, paying, history>>

Reopen(t) ==
  /\ status[t] = "done"
  /\ Request
  /\ status' = [status EXCEPT ![t] = "open"]
  /\ UNCHANGED <<checks, inserts, invoice, paying, history>>

Billable(t) == status[t] = "done"

\* ensureInvoiceForCompletedTask reads the task ...
CheckTask(t) ==
  /\ checks[t] > 0
  /\ checks' = [checks EXCEPT ![t] = @ - 1]
  /\ inserts' = IF Billable(t) THEN [inserts EXCEPT ![t] = @ + 1] ELSE inserts
  /\ UNCHANGED <<status, invoice, paying, history, bounds>>

NewApproved(t) == [status |-> "approved", sig |-> NoTx]   \* slip: a status no plan selects
NewInvoice(t) == [status |-> "pending", sig |-> NoTx]

Upserted(t) == [invoice EXCEPT ![t] = NewInvoice(t)]   \* slip: on conflict do update
Inserted(t) == IF invoice[t].status = "none" THEN [invoice EXCEPT ![t] = NewInvoice(t)] ELSE invoice

\* ... and createInvoiceForTask inserts: the unique index absorbs all but one.
CreateInvoice(t) ==
  /\ inserts[t] > 0
  /\ inserts' = [inserts EXCEPT ![t] = @ - 1]
  /\ invoice' = Inserted(t)
  /\ UNCHANGED <<status, checks, paying, history, bounds>>

\* reconcileInvoicesForDeployment, when a rate is set or a wallet is looked at.
Reconcile(l) ==
  LET orphans == {t \in Task : LineOf[t] = l /\ status[t] = "done" /\ invoice[t].status = "none"} IN
  /\ orphans # {}
  /\ \A t \in orphans : checks[t] + inserts[t] < MaxCalls
  /\ Request
  /\ inserts' = [t \in Task |-> IF t \in orphans THEN inserts[t] + 1 ELSE inserts[t]]
  /\ UNCHANGED <<status, checks, invoice, paying, history>>

\* Best effort: a detached call that throws is logged.
LoseBill(t) ==
  /\ checks[t] + inserts[t] > 0
  /\ Fault
  /\ \/ checks[t] > 0 /\ checks' = [checks EXCEPT ![t] = @ - 1] /\ UNCHANGED inserts
     \/ inserts[t] > 0 /\ inserts' = [inserts EXCEPT ![t] = @ - 1] /\ UNCHANGED checks
  /\ unbilled' = unbilled \cup {t}
  /\ UNCHANGED <<status, invoice, paying, overlap, lost>>

-----------------------------------------------------------------------------
(* The plan: pending invoices by line, those of a line without an address apart. *)

Pending == {t \in Task : invoice[t].status = "pending"}

Payable == {{t \in Pending : LineOf[t] = l} : l \in Line \ Unset} \ {{}}

-----------------------------------------------------------------------------
(* runRoutinePayouts. *)

Plan(r) ==
  /\ run[r] = Idle
  /\ Payable # {}
  /\ run' = [run EXCEPT ![r] = [pc |-> "next", lines |-> Payable, line |-> {}, sig |-> NoTx]]
  /\ overlap' = overlap \cup ((UNION Payable) \cap (HeldByRuns \cup batch.covers))
  /\ UNCHANGED <<billing, invoice, batch, tx, unbilled, lost, bounds>>

\* executeOnePayout, up to the send.
Send(r, line) ==
  /\ run[r].pc = "next" /\ line \in run[r].lines
  /\ Len(tx) < MaxTx
  /\ tx' = Sent(line, FALSE)
  /\ run' = [run EXCEPT ![r] = [pc |-> "confirm", lines |-> @.lines \ {line}, line |-> line,
                                sig |-> Len(tx) + 1]]
  /\ UNCHANGED <<billing, invoice, batch, history, bounds>>

\* The loop goes on with the next line, or the run ends.
NextLine(r) ==
  run' = [run EXCEPT ![r] = IF @.lines = {} THEN Idle
                            ELSE [pc |-> "next", lines |-> @.lines, line |-> {}, sig |-> NoTx]]

RevertUnseen(state) == state \in {"landed", "reverted"}   \* slip: err of the confirmation is not read
Succeeded(state) == state = "landed"

\* A revert is returned as an error, a transaction that has expired throws: the line is left.
Confirm(r) ==
  LET state == tx[run[r].sig].state IN
  /\ run[r].pc = "confirm" /\ state # "sent"
  /\ IF Succeeded(state) THEN run' = [run EXCEPT ![r].pc = "mark"] ELSE NextLine(r)
  /\ UNCHANGED <<billing, invoice, batch, tx, history, bounds>>

\* The transaction has landed, its confirmation never arrives: it is taken for a failure.
MissConfirmation(r) ==
  /\ run[r].pc = "confirm" /\ tx[run[r].sig].state = "landed"
  /\ Fault
  /\ NextLine(r)
  /\ lost' = lost \cup run[r].line
  /\ UNCHANGED <<billing, invoice, batch, tx, unbilled, overlap>>

\* markInvoicesPaid: only the rows still pending.
Paid(covers, sig) ==
  [t \in Task |-> IF t \in covers /\ invoice[t].status = "pending"
                  THEN [status |-> "paid", sig |-> sig] ELSE invoice[t]]

MarkNothing(r) == invoice     \* slip: the invoices of a paid line are left pending
Marked(r) == Paid(run[r].line, run[r].sig)

Mark(r) ==
  /\ run[r].pc = "mark"
  /\ invoice' = Marked(r)
  /\ NextLine(r)
  /\ UNCHANGED <<billing, batch, tx, history, bounds>>

-----------------------------------------------------------------------------
(* The owner's batch: prepared, signed in the browser, and confirmed. *)

Prepare ==
  /\ batch.pc = "none" /\ Payable # {}
  /\ batch' = [pc |-> "prepared", covers |-> UNION Payable, sig |-> NoTx]
  /\ overlap' = overlap \cup ((UNION Payable) \cap HeldByRuns)
  /\ UNCHANGED <<billing, invoice, run, tx, unbilled, lost, bounds>>

\* submitSignedTx: the signature is the transaction's, so a second submit sends nothing new.
Submit ==
  /\ batch.pc = "prepared"
  /\ IF batch.sig = NoTx
     THEN /\ Len(tx) < MaxTx
          /\ tx' = Sent(batch.covers, TRUE)
          /\ batch' = [batch EXCEPT !.pc = "confirm", !.sig = Len(tx) + 1]
     ELSE /\ batch' = [batch EXCEPT !.pc = "confirm"]
          /\ UNCHANGED tx
  /\ UNCHANGED <<billing, invoice, run, history, bounds>>

\* What confirmTransaction returns is not looked at: only a transaction that expired throws.
ConfirmBatch ==
  LET state == tx[batch.sig].state IN
  /\ batch.pc = "confirm" /\ state # "sent"
  /\ batch' = IF state = "dropped" THEN NoBatch ELSE [batch EXCEPT !.pc = "mark"]
  /\ UNCHANGED <<billing, invoice, run, tx, history, bounds>>

\* The invoices that prepare named are settled; the browser may confirm a second time.
MarkBatch(again) ==
  /\ batch.pc = "mark"
  /\ invoice' = Paid(batch.covers, batch.sig)
  /\ batch' = IF again THEN [batch EXCEPT !.pc = "prepared"] ELSE NoBatch
  /\ UNCHANGED <<billing, run, tx, history, bounds>>

\* The owner does not sign, or comes back after the blockhash has expired.
Abandon ==
  /\ batch.pc = "prepared"
  /\ batch' = NoBatch
  /\ UNCHANGED <<billing, invoice, run, tx, history, bounds>>

-----------------------------------------------------------------------------
(* The chain, and crashes. *)

Decide(i, state) ==
  /\ i \in DOMAIN tx /\ tx[i].state = "sent"
  /\ tx' = [tx EXCEPT ![i].state = state]
  /\ UNCHANGED <<billing, invoice, run, batch, history, bounds>>

\* The server dies: runs and calls are gone, the browser keeps its batch.
Crash ==
  /\ Fault
  /\ unbilled' = unbilled \cup {t \in Task : checks[t] + inserts[t] > 0}
  /\ checks' = [t \in Task |-> 0] /\ inserts' = [t \in Task |-> 0]
  /\ lost' = lost \cup (UNION {run[r].line : r \in Run})
                  \cup (IF batch.sig # NoTx THEN batch.covers ELSE {})
  /\ run' = [r \in Run |-> Idle]
  /\ batch' = IF batch.pc \in {"confirm", "mark"} THEN [batch EXCEPT !.pc = "prepared"] ELSE batch
  /\ UNCHANGED <<status, invoice, tx, overlap>>

Billing(t) == Finish(t) \/ FinishAgain(t) \/ Reopen(t) \/ CheckTask(t) \/ CreateInvoice(t)
              \/ LoseBill(t)

Paying(r) == Plan(r) \/ (\E line \in SUBSET Task : Send(r, line)) \/ Confirm(r)
             \/ MissConfirmation(r) \/ Mark(r)

Owner == Prepare \/ Submit \/ ConfirmBatch \/ (\E again \in BOOLEAN : MarkBatch(again)) \/ Abandon

Next ==
  \/ \E t \in Task : Billing(t)
  \/ \E l \in Line : Reconcile(l)
  \/ \E r \in Run : Paying(r)
  \/ Owner
  \/ \E i \in 1..MaxTx, s \in {"landed", "reverted", "dropped"} : Decide(i, s)
  \/ Crash

Spec == Init /\ [][Next]_vars

-----------------------------------------------------------------------------
(* Properties. *)

TypeOK ==
  /\ status \in [Task -> {"open", "done"}]
  /\ checks \in [Task -> 0..MaxCalls] /\ inserts \in [Task -> 0..MaxCalls]
  /\ invoice \in [Task -> Invoices]
  /\ run \in [Run -> Runs] /\ batch \in Batches
  /\ Len(tx) <= MaxTx /\ tx \in Seq(Txs)
  /\ unbilled \subseteq Task /\ overlap \subseteq Task /\ lost \subseteq Task
  /\ faults \in 0..MaxFaults /\ requests \in 0..MaxRequests

Transfers(t) == Cardinality({i \in DOMAIN tx : tx[i].state = "landed" /\ t \in tx[i].covers})

\* However often a task is finished, reopened, reconciled and billed, and whatever reverts,
\* expires or is confirmed twice, its invoice is paid out once: only two plans made at one
\* time, or a payment whose confirmation was lost, pay it again.
PaidOnce == \A t \in Task \ (overlap \cup lost) : Transfers(t) <= 1

\* What a payout run has marked as paid was paid, by the transaction the row is stamped with.
SignatureOfRunLanded == \A t \in Task :
  LET sig == invoice[t].sig IN
  invoice[t].status = "paid" /\ ~ tx[sig].owner => tx[sig].state = "landed" /\ t \in tx[sig].covers

\* What was paid is marked as paid once the run or the batch that paid it is over.
PaidIsMarked == \A t \in Task \ lost :
  Transfers(t) > 0 => invoice[t].status = "paid" \/ t \in HeldByRuns \/ t \in batch.covers

\* A task that is done is billed, or is about to be, unless a call that bills it was lost:
\* a call that finds the task reopened may give up, for the next done brings another.
DoneIsBilled == \A t \in Task \ unbilled :
  status[t] = "done" => invoice[t].status # "none" \/ checks[t] + inserts[t] > 0

\* An invoice marked as paid was paid.
PaidMeansTransferred == \A t \in Task : invoice[t].status = "paid" => Transfers(t) > 0
=============================================================================
