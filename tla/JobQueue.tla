------------------------------- MODULE JobQueue -------------------------------
(***************************************************************************)
(* What the server takes for granted of a pg-boss queue created with the   *)
(* policy `exclusive`: a job waits, is fetched by one handler, and ends by *)
(* its handler's return, or is given up and retried so many times at most; *)
(* no two jobs share a singleton key.  A row of the queue table is reused. *)
(***************************************************************************)
EXTENDS Integers

CONSTANTS
  Row,          \* rows of the queue table
  Handler,      \* calls of the worker's handler
  Key, NoKey,   \* singleton keys; a job sent without one, or with a fresh one
  RetryLimit

VARIABLES
  job,       \* each row: waiting or active under a key, or free
  holders    \* for each row, the handlers that can still complete it

queue == <<job, holders>>

Free == [state |-> "free", key |-> NoKey, tries |-> 0]
Waiting(k, n) == [state |-> "waiting", key |-> k, tries |-> n]
Active(k, n) == [state |-> "active", key |-> k, tries |-> n]

Init ==
  /\ job \in [Row -> {Free} \cup {Waiting(k, 0) : k \in Key}]
  /\ \A i, j \in Row : job[i] # Free /\ job[i] = job[j] => i = j
  /\ holders = [j \in Row |-> {}]

-----------------------------------------------------------------------------
(* What may become of one row. *)

Idles(j) == job'[j] = job[j] /\ holders'[j] = holders[j]

\* Dropped by the queue, without an error, if another row has the key.
Sent(j) ==
  /\ job[j] = Free /\ holders'[j] = {}
  /\ \E k \in Key \cup {NoKey} :
       /\ job'[j] = Waiting(k, 0)
       /\ k # NoKey => \A i \in Row \ {j} : job[i].key # k /\ job'[i].key # k

Fetched(j, h) ==
  /\ job[j].state = "waiting"
  /\ job'[j] = Active(job[j].key, job[j].tries)
  /\ holders'[j] = {h}
  /\ \A i \in Row : h \notin holders[i]
  /\ \A i \in Row \ {j} : h \notin holders'[i]

\* Fetched, and completed before anything else happens.
Passed(j) ==
  /\ job[j].state = "waiting"
  /\ job'[j] = Free /\ holders'[j] = {}

Completed(j) ==
  /\ job[j].state = "active" /\ holders[j] # {}
  /\ job'[j] = Free /\ holders'[j] = {}

\* Its handler threw, or the job expired, with or without a handler at work.
GivenUp(j) ==
  /\ job[j].state = "active" /\ holders'[j] = {}
  /\ job'[j] = IF job[j].tries < RetryLimit THEN Waiting(job[j].key, job[j].tries + 1) ELSE Free

\* The handler died with its process: the row does not know yet.
Orphaned(j) == job'[j] = job[j] /\ holders'[j] = {}

RowStep(j) ==
  \/ Idles(j) \/ Sent(j) \/ (\E h \in Handler : Fetched(j, h)) \/ Passed(j)
  \/ Completed(j) \/ GivenUp(j) \/ Orphaned(j)

\* A tick may send several jobs, a restart give up several.
Next ==
  /\ job' = [j \in Row |-> job'[j]] /\ holders' = [j \in Row |-> holders'[j]]
  /\ \A j \in Row : RowStep(j)

Spec == Init /\ [][Next]_queue

-----------------------------------------------------------------------------
\* A job has one handler at most, and only while it is active; a handler has one
\* job at most; no two jobs have one key; and no job is retried beyond the limit.
Exclusive ==
  /\ \A j \in Row : holders[j] # {} => job[j].state = "active"
  /\ \A j \in Row : \A g, h \in holders[j] : g = h
  /\ \A i, j \in Row : i # j => holders[i] \cap holders[j] = {}
  /\ \A i, j \in Row : i # j /\ job[i].key # NoKey => job[i].key # job[j].key
  /\ \A j \in Row : job[j].tries <= RetryLimit
=============================================================================
