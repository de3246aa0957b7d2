---------------------------- MODULE JobQueue_proofs ----------------------------
(***************************************************************************)
(* What every use of an exclusive queue may rely on, for any number of     *)
(* rows, handlers, keys and retries.                                       *)
(***************************************************************************)
EXTENDS JobQueue, TLAPS

\* The rows a queue may hold.
Rows == {Free} \cup [state : {"waiting", "active"}, key : Key \cup {NoKey}, tries : Nat]

\* What Exclusive says, with the types.
Inv ==
  /\ job \in [Row -> Rows]
  /\ holders \in [Row -> SUBSET Handler]
  /\ Exclusive

\* A row is free, waiting or active, and says so by its state.
LEMMA RowFacts ==
  /\ Free \in Rows
  /\ \A k \in Key \cup {NoKey}, n \in Nat : Waiting(k, n) \in Rows /\ Active(k, n) \in Rows
  /\ \A x \in Rows : x.tries \in Nat /\ x.key \in Key \cup {NoKey}
  /\ \A x \in Rows : x.state = "free" => x = Free
BY DEF Rows, Free, Waiting, Active

\* At first each key has a row of its own, and nobody holds any.
LEMMA InvInit ==
  ASSUME RetryLimit \in Nat
  PROVE  Init => Inv
<1> SUFFICES ASSUME Init PROVE Inv
  OBVIOUS
<1>1. \A j \in Row : job[j] = Free \/ \E k \in Key : job[j] = Waiting(k, 0)
  BY DEF Init
<1>2. job \in [Row -> Rows]
  BY RowFacts DEF Init
<1>3. \A i, j \in Row : i # j /\ job[i].key # NoKey => job[i].key # job[j].key
  BY <1>1 DEF Init, Free, Waiting
<1>4. \A j \in Row : job[j].tries <= RetryLimit
  <2> SUFFICES ASSUME NEW j \in Row PROVE job[j].tries <= RetryLimit
    OBVIOUS
  <2>1. job[j].tries = 0
    <3>1. CASE job[j] = Free
      BY <3>1 DEF Free
    <3>2. ASSUME NEW k \in Key, job[j] = Waiting(k, 0) PROVE job[j].tries = 0
      BY <3>2 DEF Waiting
    <3> QED BY <1>1, <3>1, <3>2
  <2> QED BY <2>1
<1> QED BY <1>2, <1>3, <1>4 DEF Init, Inv, Exclusive

\* What a step of a row may do to its key and to its handlers.
LEMMA RowMoves ==
  ASSUME RetryLimit \in Nat, Inv, NEW j \in Row, RowStep(j)
  PROVE  /\ job'[j] \in Rows /\ job'[j].tries <= RetryLimit
         /\ holders'[j] \subseteq Handler
         /\ holders'[j] # {} => job'[j].state = "active"
         /\ \A g, h \in holders'[j] : g = h
         /\ \/ job'[j].key \in {job[j].key, NoKey}
            \/ \A i \in Row \ {j} : job[i].key # job'[j].key /\ job'[i].key # job'[j].key
         /\ \/ holders'[j] \subseteq holders[j]
            \/ \A i \in Row \ {j} : holders'[i] \cap holders'[j] = {}
<1> USE RowFacts
<1>1. CASE Idles(j) \/ Orphaned(j)
  BY <1>1 DEF Idles, Orphaned, Inv, Exclusive
<1>2. CASE Sent(j)
  <2>1. PICK k \in Key \cup {NoKey} :
          /\ job'[j] = Waiting(k, 0)
          /\ k # NoKey => \A i \in Row \ {j} : job[i].key # k /\ job'[i].key # k
    BY <1>2 DEF Sent
  <2>2. job'[j].key = k /\ job'[j].tries = 0
    BY <2>1 DEF Waiting
  <2>3. job'[j] \in Rows
    BY <2>1
  <2>4. holders'[j] = {}
    BY <1>2 DEF Sent
  <2> QED BY <2>1, <2>2, <2>3, <2>4
<1>3. CASE \E h \in Handler : Fetched(j, h)
  <2>1. PICK h \in Handler : Fetched(j, h)
    BY <1>3
  <2>2. /\ job'[j].key = job[j].key /\ job'[j].tries = job[j].tries
        /\ job'[j].state = "active"
    BY <2>1 DEF Fetched, Active
  <2> QED BY <2>1, <2>2 DEF Fetched, Inv, Exclusive
<1>4. CASE Passed(j) \/ Completed(j)
  BY <1>4 DEF Passed, Completed, Free
<1>5. CASE GivenUp(j)
  <2>1. CASE job[j].tries < RetryLimit
    <3>1. /\ job'[j].key = job[j].key /\ job'[j].tries = job[j].tries + 1
          /\ job'[j] = Waiting(job[j].key, job[j].tries + 1)
      BY <1>5, <2>1 DEF GivenUp, Waiting
    <3>2. job[j].tries \in Nat /\ job[j].key \in Key \cup {NoKey}
      BY DEF Inv
    <3> QED BY <1>5, <2>1, <3>1, <3>2 DEF GivenUp
  <2>2. CASE ~(job[j].tries < RetryLimit)
    BY <1>5, <2>2 DEF GivenUp, Free
  <2> QED BY <2>1, <2>2
<1> QED BY <1>1, <1>2, <1>3, <1>4, <1>5 DEF RowStep

\* Rows that each do what they may keep each other's keys and handlers apart.
LEMMA InvStep ==
  ASSUME RetryLimit \in Nat
  PROVE  Inv /\ [Next]_queue => Inv'
<1> SUFFICES ASSUME Inv, Next PROVE Inv'
  BY DEF Inv, Exclusive, queue
<1>1. \A j \in Row : RowStep(j)
  BY DEF Next
<1>2. job' \in [Row -> Rows] /\ holders' \in [Row -> SUBSET Handler]
  <2>1. \A j \in Row : job'[j] \in Rows /\ holders'[j] \in SUBSET Handler
    BY <1>1, RowMoves
  <2> QED BY <2>1 DEF Next
<1>3. \A i, j \in Row : i # j => holders'[i] \cap holders'[j] = {}
  <2> SUFFICES ASSUME NEW i \in Row, NEW j \in Row, i # j
               PROVE  holders'[i] \cap holders'[j] = {}
    OBVIOUS
  <2>1. holders[i] \cap holders[j] = {}
    BY DEF Inv, Exclusive
  <2> QED BY <1>1, <2>1, RowMoves
<1>4. \A i, j \in Row : i # j /\ job'[i].key # NoKey => job'[i].key # job'[j].key
  <2> SUFFICES ASSUME NEW i \in Row, NEW j \in Row, i # j, job'[i].key # NoKey,
                      job'[i].key = job'[j].key
               PROVE  FALSE
    OBVIOUS
  <2>1. job[i].key # NoKey => job[i].key # job[j].key
    BY DEF Inv, Exclusive
  <2>2. /\ job'[i].key \in {job[i].key, NoKey} \/ job'[j].key # job'[i].key
        /\ job'[j].key \in {job[j].key, NoKey} \/ job'[i].key # job'[j].key
    BY <1>1, RowMoves
  <2> QED BY <2>1, <2>2
<1>5. /\ \A j \in Row : holders'[j] # {} => job'[j].state = "active"
      /\ \A j \in Row : \A g, h \in holders'[j] : g = h
      /\ \A j \in Row : job'[j].tries <= RetryLimit
  BY <1>1, RowMoves
<1> QED BY <1>2, <1>3, <1>4, <1>5 DEF Inv, Exclusive

\* A queue used as JobQueue says keeps its jobs apart: one handler for a job, one job
\* for a handler and for a key, and no retry beyond the limit.
THEOREM ExclusiveAlways ==
  ASSUME RetryLimit \in Nat
  PROVE  Spec => []Exclusive
<1>1. Init => Inv
  BY InvInit
<1>2. Inv /\ [Next]_queue => Inv'
  BY InvStep
<1>3. Inv => Exclusive
  BY DEF Inv
<1> QED BY <1>1, <1>2, <1>3, PTL DEF Spec
=============================================================================
