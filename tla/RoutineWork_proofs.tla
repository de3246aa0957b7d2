-------------------------- MODULE RoutineWork_proofs --------------------------
(***************************************************************************)
(* Proofs about RoutineWork, for any number of fires, retries,             *)
(* continuations, faults and requests.                                     *)
(***************************************************************************)
EXTENDS RoutineWork, FiniteSetTheorems, TLAPS

-----------------------------------------------------------------------------
(* The inductive invariant. *)

\* The types, without the bound on how many traces there are and the ranges of their counts.
Rows == [of : Wrapper, status : Live \cup {"succeeded", "failed", "cancelled"},
         retry : Int, continuation : Int, outcome : {"none"} \cup Accepted \cup Stalled \cup Failed]

After == {"sync", "delegate", "nudge", "continue"}   \* a turn that was accepted or stalled
Amiss == {"retry", "fail", "park"}                   \* a turn that failed

WeakTypes ==
  /\ firing \in {"idle", "claimed", "created"}
  /\ wrapper \in Seq(Wrappers) /\ Len(wrapper) <= MaxFires
  /\ trace \in Seq(Rows)
  /\ work \in [Trace -> {"idle", "start", "ask"} \cup After \cup Amiss]
  /\ server \in [Wrapper -> {"idle", "queued", "working"}]

\* What is at work has a trace, whose turn has ended well or badly by the step it is at.
Outcomes == \A i \in Working :
  /\ i \in DOMAIN trace
  /\ work[i] \in After => trace[i].status \notin Live /\ trace[i].outcome \in Accepted \cup Stalled
  /\ work[i] \in After /\ trace[i].outcome = "stalled_delegating" => trace[i].of \in nudged
  /\ work[i] \in Amiss => trace[i].status \notin Live /\ trace[i].outcome \in Failed

\* Traces and turns of the server belong to wrappers that exist.
Owned ==
  /\ \A i \in DOMAIN trace : trace[i].of \in Created
  /\ \A w \in Wrapper \ Created : server[w] = "idle"

\* A trace is running because the worker is at it, or it was left behind.
RunningIsWorked == \A i \in DOMAIN trace :
  trace[i].status = "running" => i \in Working \/ trace[i].of \in asleep

\* A trace that is or may yet be worked on.
Token(i, w) == i \in DOMAIN trace /\ trace[i].of = w /\ (trace[i].status \in Live \/ i \in Working)

OneToken == \A w \in Created : \A i, j \in DOMAIN trace : Token(i, w) /\ Token(j, w) => i = j

\* The wake of a wrapper that was just created is its first.
FreshWrapper == firing = "created" =>
  /\ Len(wrapper) \in Created
  /\ \A i \in DOMAIN trace : trace[i].of # Len(wrapper)
  /\ server[Len(wrapper)] = "idle" /\ wrapper[Len(wrapper)].children = "none"
  /\ wrapper[Len(wrapper)].status \notin {"todo", "error"}

\* Once the server has a wrapper, or it is parked, the worker is through with it.
Through(w) ==
  server[w] # "idle" \/ wrapper[w].children # "none" \/ wrapper[w].status \in {"todo", "error"}

HandedOver == \A w \in Created \ nudged : Through(w) => \A i \in DOMAIN trace : ~ Token(i, w)

\* A turn that ended the wrapper is no cause for it to be in progress.
Helps(i, w) ==
  /\ i \in Working /\ i \in DOMAIN trace /\ trace[i].of = w
  /\ ~ (work[i] = "delegate" /\ trace[i].outcome \in {"done", "review"})

Cause(w) ==
  \/ \E i \in DOMAIN trace : Helps(i, w) \/ (trace[i].of = w /\ trace[i].status \in Live)
  \/ server[w] # "idle" \/ wrapper[w].children = "pending"
  \/ firing = "created" /\ w = Len(wrapper)
  \/ w \in asleep

Caused == \A w \in Created : wrapper[w].status = "in_progress" => Cause(w)

IInv == /\ WeakTypes /\ Outcomes /\ Owned
        /\ RunningIsWorked /\ OneToken /\ FreshWrapper /\ HandedOver /\ Caused
-----------------------------------------------------------------------------
(* Types. *)

\* The set of the values of work.
Pcs == {"idle", "start", "ask"} \cup After \cup Amiss

\* What a wake does to the traces.
LEMMA WakeType ==
  ASSUME trace \in Seq(Rows), NEW w \in Wrapper, NEW retry \in Int, NEW continuation \in Int,
         Wakeup(w, retry, continuation)
  PROVE  \/ HasLiveTrace(w) /\ trace' = trace
         \/ /\ ~ HasLiveTrace(w)
            /\ trace' \in Seq(Rows) /\ Len(trace) + 1 \notin DOMAIN trace
            /\ DOMAIN trace' = DOMAIN trace \cup {Len(trace) + 1}
            /\ \A i \in DOMAIN trace : trace'[i] = trace[i]
            /\ trace'[Len(trace) + 1].of = w /\ trace'[Len(trace) + 1].status = "queued"
<1> DEFINE rec == Queued(w, retry, continuation)
<1>1. rec \in Rows /\ rec.of = w /\ rec.status = "queued"
  BY DEF Queued, Rows, Live
<1>2. HasLiveTrace(w) => trace' = trace
  BY DEF Wakeup
<1>3. ~ HasLiveTrace(w) => trace' = Append(trace, rec)
  BY DEF Wakeup
<1> HIDE DEF rec
<1>4. ASSUME trace' = Append(trace, rec)
      PROVE  /\ trace' \in Seq(Rows) /\ Len(trace') = Len(trace) + 1 /\ Len(trace) \in Nat
             /\ trace'[Len(trace) + 1] = rec
             /\ \A i \in 1..Len(trace) : trace'[i] = trace[i]
             /\ DOMAIN trace = 1..Len(trace) /\ DOMAIN trace' = 1..(Len(trace) + 1)
  <2>1. trace' \in Seq(Rows) /\ Len(trace') = Len(trace) + 1 /\ Len(trace) \in Nat
    BY <1>1, <1>4
  <2> QED BY <1>1, <1>4, <2>1
<1>5. ASSUME trace' = Append(trace, rec)
      PROVE  /\ Len(trace) + 1 \notin DOMAIN trace
             /\ DOMAIN trace' = DOMAIN trace \cup {Len(trace) + 1}
  BY <1>4, <1>5
<1> QED BY <1>1, <1>2, <1>3, <1>4, <1>5

\* A change of one wrapper's row.
LEMMA RowType ==
  ASSUME wrapper \in Seq(Wrappers), NEW w \in DOMAIN wrapper, NEW row \in Wrappers,
         wrapper' = [wrapper EXCEPT ![w] = row]
  PROVE  /\ wrapper' \in Seq(Wrappers) /\ Len(wrapper') = Len(wrapper)
         /\ DOMAIN wrapper' = DOMAIN wrapper
         /\ wrapper'[w] = row /\ \A v \in DOMAIN wrapper \ {w} : wrapper'[v] = wrapper[v]
OBVIOUS

\* The same for its status, its archiving and its children.
LEMMA RowFields ==
  ASSUME wrapper \in Seq(Wrappers), NEW w \in DOMAIN wrapper
  PROVE  /\ wrapper[w] \in Wrappers
         /\ \A status \in {"todo", "in_progress", "review", "done", "error"} :
              /\ [wrapper[w] EXCEPT !.status = status] \in Wrappers
              /\ [wrapper[w] EXCEPT !.status = status].status = status
              /\ [wrapper[w] EXCEPT !.status = status].children = wrapper[w].children
         /\ [wrapper[w] EXCEPT !.archived = TRUE] \in Wrappers
         /\ [wrapper[w] EXCEPT !.archived = TRUE].status = wrapper[w].status
         /\ [wrapper[w] EXCEPT !.archived = TRUE].children = wrapper[w].children
         /\ \A children \in {"none", "pending", "settled"} :
              /\ [wrapper[w] EXCEPT !.children = children] \in Wrappers
              /\ [wrapper[w] EXCEPT !.children = children].status = wrapper[w].status
              /\ [wrapper[w] EXCEPT !.children = children].children = children
<1>1. wrapper[w] \in Wrappers
  OBVIOUS
<1>2. ASSUME NEW status \in {"todo", "in_progress", "review", "done", "error"}
      PROVE  /\ [wrapper[w] EXCEPT !.status = status] \in Wrappers
             /\ [wrapper[w] EXCEPT !.status = status].status = status
             /\ [wrapper[w] EXCEPT !.status = status].children = wrapper[w].children
  BY <1>1 DEF Wrappers
<1>3. /\ [wrapper[w] EXCEPT !.archived = TRUE] \in Wrappers
      /\ [wrapper[w] EXCEPT !.archived = TRUE].status = wrapper[w].status
      /\ [wrapper[w] EXCEPT !.archived = TRUE].children = wrapper[w].children
  BY <1>1 DEF Wrappers
<1>4. ASSUME NEW children \in {"none", "pending", "settled"}
      PROVE  /\ [wrapper[w] EXCEPT !.children = children] \in Wrappers
             /\ [wrapper[w] EXCEPT !.children = children].status = wrapper[w].status
             /\ [wrapper[w] EXCEPT !.children = children].children = children
  BY <1>1 DEF Wrappers
<1> QED BY <1>1, <1>2, <1>3, <1>4

\* Row writes the status of one wrapper.
LEMMA RowWrites ==
  ASSUME wrapper \in Seq(Wrappers), NEW w \in DOMAIN wrapper,
         NEW status \in {"todo", "in_progress", "review", "done", "error"}, Row(w, status)
  PROVE  /\ wrapper' \in Seq(Wrappers) /\ Len(wrapper') = Len(wrapper)
         /\ DOMAIN wrapper' = DOMAIN wrapper
         /\ wrapper'[w].status = status /\ wrapper'[w].children = wrapper[w].children
         /\ \A v \in DOMAIN wrapper \ {w} : wrapper'[v] = wrapper[v]
<1>1. wrapper' = [wrapper EXCEPT ![w] = [wrapper[w] EXCEPT !.status = status]]
  BY DEF Row
<1> QED BY <1>1, RowType, RowFields

\* A change of one trace's status.
LEMMA TraceWrites ==
  ASSUME trace \in Seq(Rows), NEW i \in DOMAIN trace,
         NEW status \in Live \cup {"succeeded", "failed", "cancelled"},
         trace' = [trace EXCEPT ![i].status = status]
  PROVE  /\ trace' \in Seq(Rows) /\ DOMAIN trace' = DOMAIN trace
         /\ trace'[i].of = trace[i].of /\ trace'[i].status = status
         /\ \A j \in DOMAIN trace \ {i} : trace'[j] = trace[j]
<1> DEFINE row == [trace[i] EXCEPT !.status = status]
<1>1. trace[i] \in Rows
  OBVIOUS
<1>2. row \in Rows /\ row.of = trace[i].of /\ row.status = status
  BY <1>1 DEF Rows
<1>3. trace' = [trace EXCEPT ![i] = row]
  BY <1>1, <1>2
<1> HIDE DEF row
<1> QED BY <1>2, <1>3
-----------------------------------------------------------------------------
(* The invariant is kept. *)

\* An action that moves the work on a trace, and may write the row of its wrapper: the row may
\* be handed over only as the work ends, and be in progress only with a cause.
LEMMA MoveStep ==
  ASSUME IInv, NEW i \in Working, NEW pc \in Pcs, At(i, pc),
         UNCHANGED <<trace, server, firing, nudged>>, asleep \subseteq asleep',
         wrapper' \in Seq(Wrappers), Len(wrapper') = Len(wrapper),
         DOMAIN wrapper' = DOMAIN wrapper,
         \A v \in Created \ {trace[i].of} : wrapper'[v] = wrapper[v],
         pc = "idle" => work[i] \in After \cup Amiss,
         pc \in After => work[i] \in After, pc \in Amiss => work[i] \in Amiss,
         trace[i].of \notin nudged /\ pc # "idle" =>
           wrapper'[trace[i].of].status \notin {"todo", "error"}
           /\ wrapper'[trace[i].of].children = "none",
         wrapper'[trace[i].of].status = "in_progress" =>
           \/ pc # "idle" /\ ~ (pc = "delegate" /\ trace[i].outcome \in {"done", "review"})
           \/ trace[i].of \in asleep' \/ wrapper'[trace[i].of].children = "pending"
           \/ HasLiveTrace(trace[i].of)
           \/ /\ wrapper'[trace[i].of] = wrapper[trace[i].of] /\ work[i] = "delegate"
              /\ trace[i].outcome \in {"done", "review"}
  PROVE  IInv'
<1> USE DEF IInv
<1>0. i \in Trace /\ i \in DOMAIN trace /\ trace[i].of \in Created /\ trace[i].of \in Wrapper
  <2>1. i \in DOMAIN trace /\ trace[i] \in Rows
    BY DEF Outcomes, WeakTypes
  <2> QED BY <2>1 DEF Owned, Working, Rows
<1>1. PICK w : w = trace[i].of /\ w \in Created /\ w \in Wrapper
  BY <1>0
<1>2. /\ i \in Trace /\ i \in DOMAIN trace
      /\ work \in [Trace -> Pcs] /\ work' = [work EXCEPT ![i] = pc] /\ work'[i] = pc
      /\ \A j \in Trace \ {i} : work'[j] = work[j]
      /\ trace' = trace /\ server' = server /\ firing' = firing /\ nudged' = nudged
      /\ work[i] # "idle" /\ Token(i, w)
  BY <1>0, <1>1 DEF WeakTypes, Pcs, At, Working, Token
<1>3. /\ \A j \in Trace \ {i} : j \in Working' <=> j \in Working
      /\ i \in Working' <=> pc # "idle"
      /\ Working \subseteq Trace /\ Working' \subseteq Trace
  BY <1>2 DEF Working
<1>4. pc = "idle" => trace[i].status \notin Live
  BY DEF Outcomes
<1>5. /\ \A v \in Created \ {w} : wrapper'[v] = wrapper[v]
      /\ w \notin nudged /\ pc # "idle" =>
           wrapper'[w].status \notin {"todo", "error"} /\ wrapper'[w].children = "none"
      /\ wrapper'[w].status = "in_progress" =>
           \/ pc # "idle" /\ ~ (pc = "delegate" /\ trace[i].outcome \in {"done", "review"})
           \/ w \in asleep' \/ wrapper'[w].children = "pending" \/ HasLiveTrace(w)
           \/ /\ wrapper'[w] = wrapper[w] /\ work[i] = "delegate"
              /\ trace[i].outcome \in {"done", "review"}
  BY <1>1
<1>a. Created \subseteq Wrapper /\ Created' = Created
  BY RoutineAssumption DEF WeakTypes, Wrapper, Created
<1>6. WeakTypes'
  BY <1>2 DEF WeakTypes, Pcs
<1>7. Outcomes'
  <2> SUFFICES ASSUME NEW j \in Working'
               PROVE  /\ j \in DOMAIN trace
                      /\ work'[j] \in After => trace[j].status \notin Live
                                               /\ trace[j].outcome \in Accepted \cup Stalled
                      /\ work'[j] \in After /\ trace[j].outcome = "stalled_delegating" =>
                           trace[j].of \in nudged
                      /\ work'[j] \in Amiss => trace[j].status \notin Live
                                               /\ trace[j].outcome \in Failed
    BY <1>2 DEF Outcomes
  <2>1. CASE j = i
    BY <1>2, <2>1 DEF Outcomes
  <2>2. CASE j # i
    <3>1. j \in Working /\ work'[j] = work[j]
      BY <1>2, <1>3, <2>2
    <3> QED BY <3>1 DEF Outcomes
  <2> QED BY <2>1, <2>2
<1>8. Owned'
  BY <1>2, <1>a DEF Owned
<1>9. RunningIsWorked'
  <2> SUFFICES ASSUME NEW j \in DOMAIN trace, trace[j].status = "running"
               PROVE  j \in Working' \/ trace[j].of \in asleep'
    BY <1>2 DEF RunningIsWorked
  <2> QED BY <1>2, <1>3, <1>4 DEF RunningIsWorked, Live
<1>10. \A v \in Wrapper, j \in DOMAIN trace : Token(j, v)' => Token(j, v)
  BY <1>1, <1>2, <1>3 DEF Token
<1>11. OneToken'
  BY <1>2, <1>10, <1>a DEF OneToken
<1>12. FreshWrapper'
  <2>1. firing = "created" => w # Len(wrapper)
    BY <1>1, <1>2 DEF FreshWrapper
  <2> QED BY <1>2, <1>5, <1>a, <2>1 DEF FreshWrapper
<1>13. HandedOver'
  <2> SUFFICES ASSUME NEW v \in Created \ nudged, Through(v)', NEW j \in DOMAIN trace, Token(j, v)'
               PROVE  FALSE
    BY <1>2, <1>a DEF HandedOver
  <2>1. v \in Wrapper
    BY <1>a
  <2>2. Token(j, v) /\ ~ Through(v)
    BY <1>10, <2>1 DEF HandedOver
  <2>3. v = w
    BY <1>2, <1>5, <2>2 DEF Through
  <2>4. j = i
    BY <1>1, <1>2, <2>2, <2>3 DEF OneToken
  <2>5. CASE pc # "idle"
    BY <1>2, <1>5, <2>2, <2>3, <2>5 DEF Through
  <2>6. CASE pc = "idle"
    BY <1>2, <1>3, <1>4, <2>4, <2>6 DEF Token
  <2> QED BY <2>5, <2>6
<1>14. Caused'
  <2> SUFFICES ASSUME NEW v \in Created, wrapper'[v].status = "in_progress" PROVE Cause(v)'
    BY <1>a DEF Caused
  <2>1. ASSUME NEW j \in DOMAIN trace, Helps(j, v), j # i PROVE Cause(v)'
    BY <1>2, <1>3, <2>1 DEF Helps, Cause
  <2>2. CASE v # w
    <3>1. wrapper[v].status = "in_progress" /\ Cause(v) /\ ~ Helps(i, v)
      BY <1>1, <1>5, <2>2 DEF Caused, Helps
    <3>2. wrapper'[v] = wrapper[v]
      BY <1>5, <2>2
    <3> QED BY <1>2, <2>1, <3>1, <3>2 DEF Cause
  <2>3. CASE v = w
    <3>1. CASE pc # "idle" /\ ~ (pc = "delegate" /\ trace[i].outcome \in {"done", "review"})
      <4>1. Helps(i, w)'
        BY <1>1, <1>2, <1>3, <3>1 DEF Helps
      <4> QED BY <1>2, <2>3, <4>1 DEF Cause
    <3>2. CASE w \in asleep' \/ wrapper'[w].children = "pending"
      BY <2>3, <3>2 DEF Cause
    <3>3. CASE /\ wrapper'[w] = wrapper[w] /\ work[i] = "delegate"
               /\ trace[i].outcome \in {"done", "review"}
      <4>1. Cause(w) /\ ~ Helps(i, w)
        BY <1>1, <2>3, <3>3 DEF Caused, Helps
      <4> QED BY <1>2, <2>1, <2>3, <3>3, <4>1 DEF Cause
    <3>4. CASE HasLiveTrace(w)
      BY <1>2, <2>3, <3>4 DEF HasLiveTrace, LiveTraces, Cause
    <3> QED BY <1>5, <2>3, <3>1, <3>2, <3>3, <3>4
  <2> QED BY <2>2, <2>3
<1> QED BY <1>6, <1>7, <1>8, <1>9, <1>11, <1>12, <1>13, <1>14

\* What is known of the wrapper of a trace that is at work.
LEMMA AtWork ==
  ASSUME IInv, NEW i \in Trace, work[i] # "idle"
  PROVE  /\ i \in Working /\ i \in DOMAIN trace /\ trace[i] \in Rows
         /\ trace[i].of \in Created /\ trace[i].of \in Wrapper
         /\ Token(i, trace[i].of)
         /\ wrapper \in Seq(Wrappers) /\ wrapper[trace[i].of] \in Wrappers
         /\ trace[i].of \notin nudged =>
              wrapper[trace[i].of].children = "none"
              /\ wrapper[trace[i].of].status \notin {"todo", "error"}
         /\ work[i] \in After => trace[i].outcome \in Accepted \cup Stalled
         /\ work[i] \in Amiss => trace[i].outcome \in Failed
<1> USE DEF IInv
<1>1. i \in Working
  BY DEF Working
<1>2. i \in DOMAIN trace /\ trace[i] \in Rows /\ wrapper \in Seq(Wrappers)
  BY <1>1 DEF Outcomes, WeakTypes
<1>3. trace[i].of \in Created /\ trace[i].of \in Wrapper
  BY <1>2 DEF Owned, Rows
<1>4. Token(i, trace[i].of)
  BY <1>1, <1>2 DEF Token
<1>5. trace[i].of \notin nudged => ~ Through(trace[i].of)
  BY <1>2, <1>3, <1>4 DEF HandedOver
<1>6. wrapper[trace[i].of] \in Wrappers
  BY <1>2, <1>3 DEF Created
<1> QED BY <1>1, <1>2, <1>3, <1>4, <1>5, <1>6 DEF Through, Outcomes

\* The actions that move the work on without a change to the traces.
LEMMA WorkSteps ==
  ASSUME IInv, NEW i \in Trace,
         \/ Start(i) \/ SyncSucceeded(i) \/ Delegate(i) \/ LookForContinuation(i)
         \/ SyncFailed(i) \/ Park(i) \/ CallThrows(i)
  PROVE  IInv'
<1>0. work[i] # "idle"
  BY DEF Start, SyncSucceeded, Delegate, LookForContinuation, SyncFailed, Park, CallThrows
<1>1. /\ i \in Working /\ i \in DOMAIN trace /\ trace[i] \in Rows
      /\ trace[i].of \in Created /\ trace[i].of \in DOMAIN wrapper
      /\ wrapper \in Seq(Wrappers) /\ wrapper[trace[i].of] \in Wrappers
      /\ trace[i].of \notin nudged =>
           wrapper[trace[i].of].children = "none"
           /\ wrapper[trace[i].of].status \notin {"todo", "error"}
      /\ work[i] \in After => trace[i].outcome \in Accepted \cup Stalled
      /\ work[i] \in Amiss => trace[i].outcome \in Failed
  BY <1>0, AtWork DEF Created
<1>2. CASE Start(i)
  <2>1. /\ work[i] = "start" /\ At(i, "ask") /\ UNCHANGED <<trace, server, firing, nudged, asleep>>
        /\ wrapper' = wrapper \/ Row(trace[i].of, "in_progress")
    BY <1>2 DEF Start
  <2>2. CASE wrapper' = wrapper
    BY <1>1, <2>1, <2>2, MoveStep DEF Pcs, After, Amiss
  <2>3. CASE Row(trace[i].of, "in_progress")
    <3>1. /\ wrapper' \in Seq(Wrappers) /\ Len(wrapper') = Len(wrapper)
          /\ DOMAIN wrapper' = DOMAIN wrapper
          /\ wrapper'[trace[i].of].status = "in_progress"
          /\ wrapper'[trace[i].of].children = wrapper[trace[i].of].children
          /\ \A v \in Created \ {trace[i].of} : wrapper'[v] = wrapper[v]
      BY <1>1, <2>3, RowWrites DEF Created
    <3> QED BY <1>1, <2>1, <3>1, MoveStep DEF Pcs, After, Amiss
  <2> QED BY <2>1, <2>2, <2>3
<1>3. CASE SyncSucceeded(i)
  <2>1. /\ work[i] = "sync" /\ At(i, "delegate")
        /\ UNCHANGED <<trace, server, firing, nudged, asleep>>
    BY <1>3 DEF SyncSucceeded
  <2>2. CASE wrapper' = wrapper /\ (wrapper[trace[i].of].status = "in_progress" =>
                                      trace[i].outcome \in Stalled \cup {"silent"})
    <3>1. wrapper[trace[i].of].status = "in_progress" => trace[i].outcome \notin {"done", "review"}
      BY <2>2 DEF Stalled
    <3> QED BY <1>1, <2>1, <2>2, <3>1, MoveStep DEF Pcs, After, Amiss
  <2>3. CASE Row(trace[i].of, Target(trace[i].outcome))
    <3>1. /\ Target(trace[i].outcome) \in {"done", "review", "in_progress"}
          /\ trace[i].outcome \in {"done", "review"} =>
               Target(trace[i].outcome) # "in_progress"
      BY DEF Target
    <3>2. /\ wrapper' \in Seq(Wrappers) /\ Len(wrapper') = Len(wrapper)
          /\ DOMAIN wrapper' = DOMAIN wrapper
          /\ wrapper'[trace[i].of].status = Target(trace[i].outcome)
          /\ wrapper'[trace[i].of].children = wrapper[trace[i].of].children
          /\ \A v \in Created \ {trace[i].of} : wrapper'[v] = wrapper[v]
      BY <1>1, <2>3, <3>1, RowWrites DEF Created
    <3> QED BY <1>1, <2>1, <3>1, <3>2, MoveStep DEF Pcs, After, Amiss
  <2> QED BY <1>3, <2>2, <2>3 DEF SyncSucceeded
<1>4. CASE Delegate(i)
  <2> DEFINE o == trace[i].outcome
  <2>1. /\ work[i] = "delegate" /\ UNCHANGED <<trace, server, firing, nudged>>
        /\ asleep \subseteq asleep'
        /\ o \in {"refused", "silent"} => trace[i].of \in asleep'
        /\ o \in Accepted \cup Stalled
    BY <1>1, <1>4 DEF Delegate, After
  <2>2. CASE o \notin Delegating /\ wrapper' = wrapper
    <3>1. CASE o \in Stalled
      BY <1>1, <1>4, <2>1, <2>2, <3>1, MoveStep DEF Delegate, Nudged, Pcs, After, Amiss
    <3>2. CASE o \notin Stalled
      <4>1. At(i, "idle") /\ o \in {"done", "review", "refused", "silent"}
        BY <1>4, <2>1, <2>2, <3>2 DEF Delegate, Nudged, Accepted, Delegating
      <4> QED BY <1>1, <2>1, <2>2, <4>1, MoveStep DEF Pcs, After, Amiss
    <3> QED BY <3>1, <3>2
  <2>3. CASE o \in Delegating /\ wrapper' = [wrapper EXCEPT ![trace[i].of].children = "pending"]
    <3>1. /\ wrapper' \in Seq(Wrappers) /\ Len(wrapper') = Len(wrapper)
          /\ DOMAIN wrapper' = DOMAIN wrapper
          /\ wrapper'[trace[i].of].status = wrapper[trace[i].of].status
          /\ wrapper'[trace[i].of].children = "pending"
          /\ \A v \in Created \ {trace[i].of} : wrapper'[v] = wrapper[v]
      <4>1. wrapper' = [wrapper EXCEPT
                          ![trace[i].of] = [wrapper[trace[i].of] EXCEPT !.children = "pending"]]
        BY <2>3
      <4> QED BY <1>1, <4>1, RowType, RowFields DEF Created
    <3>2. CASE o = "delegated"
      <4>1. At(i, "idle")
        BY <1>4, <3>2 DEF Delegate, Nudged, Stalled
      <4> QED BY <1>1, <2>1, <3>1, <4>1, MoveStep DEF Pcs, After, Amiss
    <3>3. CASE o = "stalled_delegating"
      <4>1. At(i, "nudge")
        BY <1>4, <3>3 DEF Delegate, Nudged, Stalled
      <4>2. trace[i].of \in nudged
        BY <1>1, <2>1, <3>3 DEF IInv, Outcomes, After
      <4> QED BY <1>1, <2>1, <3>1, <4>1, <4>2, MoveStep DEF Pcs, After, Amiss
    <3> QED BY <2>3, <3>2, <3>3 DEF Delegating
  <2> QED BY <1>4, <2>2, <2>3 DEF Delegate
<1>5. CASE LookForContinuation(i)
  <2>1. /\ work[i] = "nudge" /\ UNCHANGED <<wrapper, trace, server, firing, nudged>>
        /\ \/ At(i, "continue") /\ asleep' = asleep
           \/ At(i, "idle") /\ asleep' = asleep \cup {trace[i].of}
    BY <1>5 DEF LookForContinuation
  <2>2. CASE At(i, "continue") /\ asleep' = asleep
    BY <1>1, <2>1, <2>2, MoveStep DEF Pcs, After, Amiss
  <2>3. CASE At(i, "idle") /\ asleep' = asleep \cup {trace[i].of}
    BY <1>1, <2>1, <2>3, MoveStep DEF Pcs, After, Amiss
  <2> QED BY <2>1, <2>2, <2>3
<1>6. CASE SyncFailed(i)
  <2>1. /\ work[i] = "fail" /\ UNCHANGED <<wrapper, trace, server, firing, nudged, asleep>>
        /\ \/ At(i, "park")
           \/ At(i, "idle") /\ wrapper[trace[i].of].status = "done"
    BY <1>1, <1>6 DEF SyncFailed, Synced, Amiss
  <2>2. CASE At(i, "park")
    BY <1>1, <2>1, <2>2, MoveStep DEF Pcs, After, Amiss
  <2>3. CASE At(i, "idle") /\ wrapper[trace[i].of].status = "done"
    BY <1>1, <2>1, <2>3, MoveStep DEF Pcs, After, Amiss
  <2> QED BY <2>1, <2>2, <2>3
<1>7. CASE Park(i)
  <2>1. /\ work[i] = "park" /\ At(i, "idle") /\ Row(trace[i].of, "error")
        /\ UNCHANGED <<trace, server, firing, nudged, asleep>>
    BY <1>7 DEF Park
  <2>2. /\ wrapper' \in Seq(Wrappers) /\ Len(wrapper') = Len(wrapper)
        /\ DOMAIN wrapper' = DOMAIN wrapper
        /\ wrapper'[trace[i].of].status = "error"
        /\ \A v \in Created \ {trace[i].of} : wrapper'[v] = wrapper[v]
    BY <1>1, <2>1, RowWrites DEF Created
  <2> QED BY <1>1, <2>1, <2>2, MoveStep DEF Pcs, After, Amiss
<1>8. CASE CallThrows(i)
  <2>1. /\ work[i] \in {"sync", "delegate", "continue", "retry", "fail", "park"}
        /\ UNCHANGED <<wrapper, trace, server, firing, nudged>>
        /\ asleep' = asleep \cup {trace[i].of}
        /\ \/ work[i] = "sync" /\ At(i, "delegate")
           \/ work[i] = "delegate" /\ At(i, "nudge")
           \/ work[i] = "retry" /\ At(i, "fail")
           \/ At(i, "idle")
    BY <1>8 DEF CallThrows
  <2> QED BY <1>1, <2>1, MoveStep DEF Pcs, After, Amiss
<1> QED BY <1>2, <1>3, <1>4, <1>5, <1>6, <1>7, <1>8

\* An action that ends a trace: its turn is answered, it is given up, or it is cancelled.
LEMMA TraceStep ==
  ASSUME IInv, NEW i \in Trace, i \in DOMAIN trace,
         UNCHANGED <<wrapper, server, firing>>, asleep \subseteq asleep', nudged \subseteq nudged',
         trace' \in Seq(Rows), DOMAIN trace' = DOMAIN trace,
         trace'[i].of = trace[i].of, trace'[i].status \notin Live,
         \A j \in DOMAIN trace \ {i} : trace'[j] = trace[j],
         NEW pc \in Pcs, At(i, pc),
         pc # "idle" => work[i] # "idle", pc # "delegate",
         pc = "idle" => trace[i].of \in asleep',
         pc \in After => /\ trace'[i].outcome \in Accepted \cup Stalled
                         /\ trace'[i].outcome = "stalled_delegating" => trace[i].of \in nudged',
         pc \in Amiss => trace'[i].outcome \in Failed
  PROVE  IInv'
<1> USE DEF IInv
<1>1. /\ trace[i].of \in Created /\ trace[i].of \in Wrapper
      /\ work \in [Trace -> Pcs] /\ work' = [work EXCEPT ![i] = pc] /\ work'[i] = pc
      /\ \A j \in Trace \ {i} : work'[j] = work[j]
      /\ wrapper' = wrapper /\ server' = server /\ firing' = firing /\ Created' = Created
      /\ \A j \in DOMAIN trace : trace'[j].of = trace[j].of
  <2>1. trace[i] \in Rows
    BY DEF WeakTypes
  <2> QED BY <2>1 DEF WeakTypes, Pcs, At, Owned, Rows, Created
<1>2. /\ \A j \in Trace \ {i} : j \in Working' <=> j \in Working
      /\ i \in Working' <=> pc # "idle"
      /\ i \in Working' => i \in Working
      /\ Working \subseteq Trace /\ Working' \subseteq Trace
  BY <1>1 DEF Working
<1>3. WeakTypes'
  BY <1>1 DEF WeakTypes, Pcs
<1>4. Outcomes'
  <2> SUFFICES ASSUME NEW j \in Working'
               PROVE  /\ j \in DOMAIN trace
                      /\ work'[j] \in After => trace'[j].status \notin Live
                                               /\ trace'[j].outcome \in Accepted \cup Stalled
                      /\ work'[j] \in After /\ trace'[j].outcome = "stalled_delegating" =>
                           trace'[j].of \in nudged'
                      /\ work'[j] \in Amiss => trace'[j].status \notin Live
                                               /\ trace'[j].outcome \in Failed
    BY DEF Outcomes
  <2>1. CASE j = i
    BY <1>1, <2>1
  <2>2. CASE j # i
    <3>1. j \in Working /\ work'[j] = work[j] /\ j \in DOMAIN trace
      BY <1>1, <1>2, <2>2 DEF Outcomes
    <3>2. trace'[j] = trace[j]
      BY <2>2, <3>1
    <3> QED BY <3>1, <3>2 DEF Outcomes
  <2> QED BY <2>1, <2>2
<1>5. Owned'
  BY <1>1 DEF Owned
<1>6. RunningIsWorked'
  <2> SUFFICES ASSUME NEW j \in DOMAIN trace, trace'[j].status = "running"
               PROVE  j \in Working' \/ trace'[j].of \in asleep'
    BY DEF RunningIsWorked
  <2>1. j # i /\ trace'[j] = trace[j]
    BY DEF Live
  <2>2. j \in Working => j \in Working'
    BY <1>2, <2>1
  <2> QED BY <2>1, <2>2 DEF RunningIsWorked
<1>7. \A v \in Wrapper, j \in DOMAIN trace : Token(j, v)' => Token(j, v)
  <2> SUFFICES ASSUME NEW v \in Wrapper, NEW j \in DOMAIN trace, Token(j, v)' PROVE Token(j, v)
    OBVIOUS
  <2>1. CASE j = i
    BY <1>1, <1>2, <2>1 DEF Token
  <2>2. CASE j # i
    BY <1>2, <2>2 DEF Token
  <2> QED BY <2>1, <2>2
<1>8. Created \subseteq Wrapper
  BY RoutineAssumption DEF WeakTypes, Wrapper, Created
<1>9. OneToken'
  BY <1>1, <1>7, <1>8 DEF OneToken
<1>10. FreshWrapper'
  BY <1>1 DEF FreshWrapper
<1>11. HandedOver'
  BY <1>1, <1>7, <1>8 DEF HandedOver, Through
<1>12. Caused'
  <2> SUFFICES ASSUME NEW v \in Created, wrapper[v].status = "in_progress" PROVE Cause(v)'
    BY <1>1 DEF Caused
  <2>1. Cause(v)
    BY DEF Caused
  <2>2. ASSUME NEW j \in DOMAIN trace, Helps(j, v), j # i PROVE Cause(v)'
    <3>1. trace'[j] = trace[j] /\ j \in Working' /\ work'[j] = work[j]
      BY <1>1, <1>2, <2>2 DEF Helps
    <3> QED BY <2>2, <3>1 DEF Helps, Cause
  <2>3. ASSUME NEW j \in DOMAIN trace, trace[j].of = v, trace[j].status \in Live, j # i
        PROVE  Cause(v)'
    <3>1. trace'[j] = trace[j]
      BY <2>3
    <3> QED BY <2>3, <3>1 DEF Live, Cause
  <2>4. CASE trace[i].of = v
    <3>1. CASE pc = "idle"
      BY <2>4, <3>1 DEF Cause
    <3>2. CASE pc # "idle"
      <4>1. Helps(i, v)'
        BY <1>1, <1>2, <2>4, <3>2 DEF Helps
      <4> QED BY <4>1 DEF Cause
    <3> QED BY <3>1, <3>2
  <2>5. CASE trace[i].of # v
    BY <1>1, <2>1, <2>2, <2>3, <2>5 DEF Cause, Helps
  <2> QED BY <2>4, <2>5
<1> QED BY <1>3, <1>4, <1>5, <1>6, <1>9, <1>10, <1>11, <1>12

\* The turn is answered, given up or cancelled.
LEMMA EndSteps ==
  ASSUME IInv, NEW i \in Trace,
         GiveUp(i) \/ CancelTrace(i) \/ \E o \in Accepted \cup Stalled \cup Failed : Answer(i, o)
  PROVE  IInv'
<1>0. /\ trace \in Seq(Rows) /\ work \in [Trace -> Pcs]
      /\ work[i] # "idle" => i \in DOMAIN trace
  BY DEF IInv, WeakTypes, Outcomes, Working, Pcs
<1>1. CASE GiveUp(i)
  <2>1. /\ i \in DOMAIN trace /\ At(i, "idle") /\ UNCHANGED <<wrapper, server, firing, nudged>>
        /\ asleep' = asleep \cup {trace[i].of}
        /\ trace' = [trace EXCEPT ![i].status = "failed"]
    BY <1>0, <1>1 DEF GiveUp
  <2>3. /\ trace' \in Seq(Rows) /\ DOMAIN trace' = DOMAIN trace
        /\ trace'[i].of = trace[i].of /\ trace'[i].status = "failed"
        /\ \A j \in DOMAIN trace \ {i} : trace'[j] = trace[j]
    BY <1>0, <2>1, TraceWrites
  <2> QED BY <2>1, <2>3, TraceStep DEF Pcs, After, Amiss, Live
<1>2. CASE CancelTrace(i)
  <2>1. /\ i \in DOMAIN trace /\ work' = work /\ UNCHANGED <<wrapper, server, firing, nudged>>
        /\ asleep \subseteq asleep' /\ (work[i] = "idle" => trace[i].of \in asleep')
        /\ trace' = [trace EXCEPT ![i].status = "cancelled"] /\ trace[i].status \in Live
    BY <1>2 DEF CancelTrace
  <2>3. /\ trace' \in Seq(Rows) /\ DOMAIN trace' = DOMAIN trace
        /\ trace'[i].of = trace[i].of /\ trace'[i].status = "cancelled"
        /\ \A j \in DOMAIN trace \ {i} : trace'[j] = trace[j]
    BY <1>0, <2>1, TraceWrites
  <2>4. work[i] \notin After \cup Amiss
    BY <1>0, <2>1 DEF IInv, Outcomes, Working, After, Amiss
  <2>5. work[i] \in Pcs /\ At(i, work[i])
    BY <1>0, <2>1 DEF At
  <2> QED BY <2>1, <2>3, <2>4, <2>5, TraceStep DEF After, Amiss, Live
<1>3. ASSUME NEW o \in Accepted \cup Stalled \cup Failed, Answer(i, o) PROVE IInv'
  <2>1. /\ i \in DOMAIN trace /\ work[i] = "ask" /\ UNCHANGED <<wrapper, server, firing, asleep>>
        /\ o \in Failed => At(i, "retry") /\ trace' = [trace EXCEPT ![i].status = "failed",
                                                                    ![i].outcome = o]
        /\ o \notin Failed => At(i, "sync") /\ trace' = [trace EXCEPT ![i].status = "succeeded",
                                                                      ![i].outcome = o]
        /\ nudged \subseteq nudged'
        /\ o = "stalled_delegating" => trace[i].of \in nudged'
    BY <1>0, <1>3 DEF Answer
  <2>2. ASSUME NEW status \in {"succeeded", "failed"},
               trace' = [trace EXCEPT ![i].status = status, ![i].outcome = o]
        PROVE  /\ trace' \in Seq(Rows) /\ DOMAIN trace' = DOMAIN trace
               /\ trace'[i].of = trace[i].of /\ trace'[i].status = status
               /\ trace'[i].outcome = o
               /\ \A j \in DOMAIN trace \ {i} : trace'[j] = trace[j]
    <3> DEFINE row == [trace[i] EXCEPT !.status = status, !.outcome = o]
    <3>1. trace[i] \in Rows
      BY <1>0, <2>1
    <3>2. row \in Rows /\ row.of = trace[i].of /\ row.status = status /\ row.outcome = o
      BY <3>1 DEF Rows
    <3>3. trace' = [trace EXCEPT ![i] = row]
      BY <2>2, <3>1
    <3> HIDE DEF row
    <3> QED BY <1>0, <2>1, <3>2, <3>3
  <2>3. CASE o \in Failed
    <3>1. /\ trace' \in Seq(Rows) /\ DOMAIN trace' = DOMAIN trace
          /\ trace'[i].of = trace[i].of /\ trace'[i].status = "failed" /\ trace'[i].outcome = o
          /\ \A j \in DOMAIN trace \ {i} : trace'[j] = trace[j]
      BY <2>1, <2>2, <2>3
    <3> QED BY <2>1, <2>3, <3>1, TraceStep DEF Pcs, After, Amiss, Live
  <2>4. CASE o \notin Failed
    <3>1. /\ trace' \in Seq(Rows) /\ DOMAIN trace' = DOMAIN trace
          /\ trace'[i].of = trace[i].of /\ trace'[i].status = "succeeded" /\ trace'[i].outcome = o
          /\ \A j \in DOMAIN trace \ {i} : trace'[j] = trace[j]
      BY <2>1, <2>2, <2>4
    <3> QED BY <2>1, <2>4, <3>1, TraceStep DEF Pcs, After, Amiss, Live
  <2> QED BY <2>3, <2>4
<1> QED BY <1>1, <1>2, <1>3

\* An action that queues a trace for a wrapper nothing else is live for.
LEMMA WakeStep ==
  ASSUME IInv, NEW w \in Created, NEW retry \in Int, NEW continuation \in Int,
         Wakeup(w, retry, continuation), ~ HasLiveTrace(w), w \in nudged \/ ~ Through(w),
         UNCHANGED <<wrapper, server, asleep, nudged>>, work' \in [Trace -> Pcs],
         \A j \in Trace : work'[j] = work[j] \/ work'[j] = "idle",
         \A j \in Trace \cap DOMAIN trace : trace[j].of # w => work'[j] = work[j],
         \A j \in Trace \cap DOMAIN trace : trace[j].of = w => work'[j] = "idle",
         \/ firing' = firing /\ (firing = "created" => w # Len(wrapper))
         \/ firing' = "idle" /\ (firing = "created" => w = Len(wrapper))
  PROVE  IInv'
<1> USE DEF IInv
<1>a. Created \subseteq Wrapper /\ Created' = Created /\ w \in Wrapper
  BY RoutineAssumption DEF WeakTypes, Wrapper, Created
<1>1. PICK n : n = Len(trace) + 1
  OBVIOUS
<1>2. /\ trace' \in Seq(Rows) /\ n \notin DOMAIN trace /\ DOMAIN trace' = DOMAIN trace \cup {n}
      /\ \A j \in DOMAIN trace : trace'[j] = trace[j]
      /\ trace'[n].of = w /\ trace'[n].status = "queued"
  BY <1>1, <1>a, WakeType DEF WeakTypes
<1>3. /\ wrapper' = wrapper /\ server' = server /\ nudged' = nudged /\ asleep' = asleep
      /\ Working \subseteq Trace /\ Working' \subseteq Working
      /\ \A j \in Working' : j \in DOMAIN trace /\ trace[j].of # w /\ work'[j] = work[j]
      /\ \A j \in Working : trace[j].of # w => j \in Working' /\ work'[j] = work[j]
  <2>1. Working \subseteq Trace /\ Working' \subseteq Working /\ Working \subseteq DOMAIN trace
    BY DEF Working, Outcomes
  <2> QED BY <2>1 DEF Working
<1>4. \A j \in DOMAIN trace : trace[j].of = w => trace[j].status \notin Live
  BY DEF HasLiveTrace, LiveTraces
<1>5. WeakTypes'
  BY <1>2, <1>3 DEF WeakTypes, Pcs
<1>6. Outcomes'
  <2> SUFFICES ASSUME NEW j \in Working'
               PROVE  /\ j \in DOMAIN trace'
                      /\ work'[j] \in After => trace'[j].status \notin Live
                                               /\ trace'[j].outcome \in Accepted \cup Stalled
                      /\ work'[j] \in After /\ trace'[j].outcome = "stalled_delegating" =>
                           trace'[j].of \in nudged'
                      /\ work'[j] \in Amiss => trace'[j].status \notin Live
                                               /\ trace'[j].outcome \in Failed
    BY DEF Outcomes
  <2>1. j \in Working /\ j \in DOMAIN trace /\ trace'[j] = trace[j] /\ work'[j] = work[j]
    BY <1>2, <1>3
  <2> QED BY <1>2, <1>3, <2>1 DEF Outcomes
<1>7. Owned'
  BY <1>2, <1>3, <1>a DEF Owned
<1>8. RunningIsWorked'
  <2> SUFFICES ASSUME NEW j \in DOMAIN trace', trace'[j].status = "running"
               PROVE  j \in Working' \/ trace'[j].of \in asleep
    BY <1>3 DEF RunningIsWorked
  <2>1. j \in DOMAIN trace /\ trace'[j] = trace[j]
    BY <1>2
  <2>2. trace[j].of # w
    BY <1>4, <2>1 DEF Live
  <2> QED BY <1>3, <2>1, <2>2 DEF RunningIsWorked
<1>9. \A v \in Created \ {w}, j \in DOMAIN trace' : Token(j, v)' => Token(j, v)
  BY <1>2, <1>3 DEF Token
<1>10. \A j \in DOMAIN trace' : Token(j, w)' => j = n
  <2> SUFFICES ASSUME NEW j \in DOMAIN trace, Token(j, w)' PROVE FALSE
    BY <1>2
  <2> QED BY <1>2, <1>3, <1>4 DEF Token
<1>11. OneToken'
  <2> SUFFICES ASSUME NEW v \in Created, NEW j \in DOMAIN trace', NEW k \in DOMAIN trace',
                      Token(j, v)', Token(k, v)'
               PROVE  j = k
    BY <1>a DEF OneToken
  <2>1. CASE v = w
    BY <1>10, <2>1
  <2>2. CASE v # w
    <3>1. Token(j, v) /\ Token(k, v)
      BY <1>9, <2>2
    <3> QED BY <3>1 DEF OneToken, Token
  <2> QED BY <2>1, <2>2
<1>12. FreshWrapper'
  <2> SUFFICES ASSUME firing = "created", w # Len(wrapper), firing' = "created"
               PROVE  FreshWrapper'
    BY DEF FreshWrapper
  <2> QED BY <1>2, <1>3, <1>a DEF FreshWrapper
<1>13. HandedOver'
  <2> SUFFICES ASSUME NEW v \in Created \ nudged, Through(v)', NEW j \in DOMAIN trace',
                      Token(j, v)'
               PROVE  FALSE
    BY <1>3, <1>a DEF HandedOver
  <2>1. Through(v) /\ v # w
    BY <1>3 DEF Through
  <2>2. Token(j, v)
    BY <1>9, <2>1
  <2> QED BY <2>1, <2>2 DEF HandedOver, Token
<1>14. Caused'
  <2> SUFFICES ASSUME NEW v \in Created, wrapper[v].status = "in_progress" PROVE Cause(v)'
    BY <1>3, <1>a DEF Caused
  <2>1. CASE v = w
    BY <1>2, <2>1 DEF Cause, Live
  <2>2. CASE v # w
    <3>1. Cause(v)
      BY DEF Caused
    <3>2. ASSUME NEW j \in DOMAIN trace, Helps(j, v) PROVE Cause(v)'
      <4>1. j \in Working' /\ work'[j] = work[j] /\ trace'[j] = trace[j]
        BY <1>2, <1>3, <2>2, <3>2 DEF Helps
      <4> QED BY <1>2, <3>2, <4>1 DEF Helps, Cause
    <3>3. ASSUME NEW j \in DOMAIN trace, trace[j].of = v, trace[j].status \in Live
          PROVE  Cause(v)'
      BY <1>2, <3>3 DEF Cause, Live
    <3>4. CASE firing = "created" /\ v = Len(wrapper)
      BY <1>3, <2>2, <3>4 DEF Cause
    <3> QED BY <1>3, <3>1, <3>2, <3>3, <3>4 DEF Cause
  <2> QED BY <2>1, <2>2
<1> QED BY <1>5, <1>6, <1>7, <1>8, <1>11, <1>12, <1>13, <1>14

\* Continuations and retries.
LEMMA AgainSteps ==
  ASSUME IInv, NEW i \in Trace, Continue(i) \/ Retry(i)
  PROVE  IInv'
<1>1. /\ i \in Working /\ i \in DOMAIN trace /\ trace[i] \in Rows
      /\ trace[i].of \in Created /\ Token(i, trace[i].of)
      /\ trace[i].of \in nudged \/ ~ Through(trace[i].of)
      /\ trace[i].retry + 1 \in Int /\ trace[i].continuation + 1 \in Int
  <2>1. work[i] # "idle"
    BY DEF Continue, Retry
  <2>2. /\ i \in Working /\ i \in DOMAIN trace /\ trace[i] \in Rows
        /\ trace[i].of \in Created /\ Token(i, trace[i].of)
    BY <2>1, AtWork
  <2>3. trace[i].of \in nudged \/ ~ Through(trace[i].of)
    BY <2>2 DEF IInv, HandedOver
  <2> QED BY <2>2, <2>3 DEF Rows
<1>2. /\ work \in [Trace -> Pcs] /\ wrapper \in Seq(Wrappers) /\ trace \in Seq(Rows)
      /\ \A j \in DOMAIN trace : trace[j].of = trace[i].of /\ j \in Working => j = i
      /\ firing = "created" => trace[i].of # Len(wrapper)
  BY <1>1 DEF IInv, WeakTypes, Pcs, OneToken, Token, FreshWrapper
<1>3. ASSUME NEW retry \in Int, NEW continuation \in Int,
             Wakeup(trace[i].of, retry, continuation), ~ HasLiveTrace(trace[i].of),
             At(i, "idle"), UNCHANGED <<firing, wrapper, server, asleep, nudged>>
      PROVE  IInv'
  <2>1. /\ work' \in [Trace -> Pcs]
        /\ \A j \in Trace : work'[j] = work[j] \/ work'[j] = "idle"
        /\ \A j \in Trace \cap DOMAIN trace : trace[j].of # trace[i].of => work'[j] = work[j]
        /\ \A j \in Trace \cap DOMAIN trace : trace[j].of = trace[i].of => work'[j] = "idle"
    BY <1>1, <1>2, <1>3 DEF At, Pcs, Working
  <2> QED BY <1>1, <1>2, <1>3, <2>1, WakeStep
<1>4. CASE Continue(i)
  <2>1. /\ work[i] = "continue" /\ Wakeup(trace[i].of, 0, trace[i].continuation + 1)
        /\ At(i, "idle") /\ UNCHANGED <<firing, wrapper, server, asleep, nudged>>
    BY <1>4 DEF Continue
  <2>2. CASE HasLiveTrace(trace[i].of)
    <3>1. trace' = trace
      BY <2>1, <2>2 DEF Wakeup
    <3> QED BY <1>1, <1>2, <2>1, <2>2, <3>1, MoveStep DEF Pcs, After, Amiss
  <2>3. CASE ~ HasLiveTrace(trace[i].of)
    BY <1>1, <1>3, <2>1, <2>3
  <2> QED BY <2>2, <2>3
<1>5. CASE Retry(i)
  <2>1. /\ work[i] = "retry" /\ UNCHANGED <<firing, wrapper, server, asleep, nudged>>
    BY <1>5 DEF Retry
  <2>2. CASE Retried(i)
    <3>1. /\ Wakeup(trace[i].of, trace[i].retry + 1, 0) /\ ~ HasLiveTrace(trace[i].of)
          /\ At(i, "idle")
      BY <1>5, <2>2 DEF Retry, Retried
    <3> QED BY <1>1, <1>3, <2>1, <3>1
  <2>3. CASE ~ Retried(i)
    <3>1. trace' = trace /\ At(i, "fail")
      BY <1>5, <2>3 DEF Retry, Retried, Wakeup
    <3>2. /\ trace[i].of \notin nudged =>
               wrapper[trace[i].of].status \notin {"todo", "error"}
               /\ wrapper[trace[i].of].children = "none"
      BY <1>1 DEF Through
    <3> QED BY <1>1, <1>2, <2>1, <3>1, <3>2, MoveStep DEF Pcs, After, Amiss
  <2> QED BY <2>2, <2>3
<1> QED BY <1>4, <1>5

\* The wake of a fire.
LEMMA FireWakeStep ==
  ASSUME IInv, FireWake
  PROVE  IInv'
<1>1. /\ firing = "created" /\ Wakeup(Len(wrapper), 0, 0) /\ firing' = "idle"
      /\ UNCHANGED <<wrapper, server, asleep, nudged, work>>
  BY DEF FireWake
<1>2. /\ Len(wrapper) \in Created /\ ~ HasLiveTrace(Len(wrapper)) /\ ~ Through(Len(wrapper))
      /\ \A j \in DOMAIN trace : trace[j].of # Len(wrapper)
      /\ work \in [Trace -> Pcs]
  <2>1. /\ Len(wrapper) \in Created /\ \A j \in DOMAIN trace : trace[j].of # Len(wrapper)
        /\ server[Len(wrapper)] = "idle" /\ wrapper[Len(wrapper)].children = "none"
        /\ wrapper[Len(wrapper)].status \notin {"todo", "error"}
        /\ work \in [Trace -> Pcs]
    BY <1>1 DEF IInv, FreshWrapper, WeakTypes, Pcs
  <2> QED BY <2>1 DEF HasLiveTrace, LiveTraces, Through
<1> QED BY <1>1, <1>2, WakeStep

\* An action of the server on one wrapper that it, or nothing, has at work.
LEMMA ServerStep ==
  ASSUME IInv, NEW w \in Created, Through(w),
         UNCHANGED <<trace, work, firing, asleep, nudged>>,
         wrapper' \in Seq(Wrappers), Len(wrapper') = Len(wrapper),
         DOMAIN wrapper' = DOMAIN wrapper,
         \A v \in Created \ {w} : wrapper'[v] = wrapper[v],
         server' \in [Wrapper -> {"idle", "queued", "working"}],
         \A v \in Wrapper \ {w} : server'[v] = server[v],
         wrapper'[w].status = "in_progress" => server'[w] # "idle"
  PROVE  IInv'
<1> USE DEF IInv
<1>a. Created \subseteq Wrapper /\ Created' = Created /\ w \in Wrapper
  BY RoutineAssumption DEF WeakTypes, Wrapper, Created
<1>1. /\ trace' = trace /\ work' = work /\ firing' = firing /\ asleep' = asleep
      /\ nudged' = nudged /\ Working' = Working
  BY DEF Working
<1>2. WeakTypes'
  BY <1>1 DEF WeakTypes
<1>3. Outcomes'
  BY <1>1 DEF Outcomes
<1>4. Owned'
  BY <1>1, <1>a DEF Owned
<1>5. RunningIsWorked'
  BY <1>1 DEF RunningIsWorked
<1>6. \A v, j : Token(j, v)' <=> Token(j, v)
  BY <1>1 DEF Token
<1>7. OneToken'
  BY <1>1, <1>6, <1>a DEF OneToken
<1>8. FreshWrapper'
  <2>1. firing = "created" => w # Len(wrapper)
    BY DEF FreshWrapper, Through
  <2> QED BY <1>1, <1>a, <2>1 DEF FreshWrapper
<1>9. HandedOver'
  <2>1. \A v \in Created : Through(v)' => Through(v)
    BY <1>a DEF Through
  <2> QED BY <1>1, <1>6, <1>a, <2>1 DEF HandedOver
<1>10. Caused'
  <2> SUFFICES ASSUME NEW v \in Created, wrapper'[v].status = "in_progress" PROVE Cause(v)'
    BY <1>a DEF Caused
  <2>1. CASE v = w
    BY <2>1 DEF Cause
  <2>2. CASE v # w
    <3>1. Cause(v) /\ wrapper'[v] = wrapper[v] /\ server'[v] = server[v]
      BY <1>a, <2>2 DEF Caused
    <3>2. \A j : Helps(j, v)' <=> Helps(j, v)
      BY <1>1 DEF Helps
    <3> QED BY <1>1, <3>1, <3>2 DEF Cause
  <2> QED BY <2>1, <2>2
<1> QED BY <1>2, <1>3, <1>4, <1>5, <1>7, <1>8, <1>9, <1>10

\* The actions of the server on a wrapper.
LEMMA ServerSteps ==
  ASSUME IInv, NEW w \in Wrapper,
         \/ Cascade(w) \/ Sweep(w) \/ ServerStart(w)
         \/ \E s \in {"done", "review", "error"} : ServerFinish(w, s)
  PROVE  IInv'
<1>0. /\ wrapper \in Seq(Wrappers) /\ server \in [Wrapper -> {"idle", "queued", "working"}]
      /\ server[w] # "idle" => w \in Created /\ Through(w)
  BY DEF IInv, WeakTypes, Owned, Through
<1>1. CASE Cascade(w)
  <2>1. /\ w \in Created /\ wrapper[w].children = "pending" /\ Through(w)
        /\ UNCHANGED <<trace, work, firing, asleep, nudged>>
    BY <1>1 DEF Cascade, Through
  <2>2. wrapper[w] \in Wrappers
    BY <1>0, <2>1 DEF Created
  <2>3. CASE wrapper[w].status = "done"
    <3> DEFINE row == [wrapper[w] EXCEPT !.children = "settled"]
    <3>1. wrapper' = [wrapper EXCEPT ![w] = row] /\ server' = server
      BY <1>1, <2>3 DEF Cascade
    <3>2. row \in Wrappers /\ row.status = "done"
      BY <2>2, <2>3 DEF Wrappers
    <3> HIDE DEF row
    <3>3. /\ wrapper' \in Seq(Wrappers) /\ Len(wrapper') = Len(wrapper)
          /\ DOMAIN wrapper' = DOMAIN wrapper
          /\ wrapper'[w].status = "done"
          /\ \A v \in Created \ {w} : wrapper'[v] = wrapper[v]
      BY <1>0, <2>1, <3>1, <3>2, RowType DEF Created
    <3> QED BY <1>0, <2>1, <3>1, <3>3, ServerStep
  <2>4. CASE wrapper[w].status # "done"
    <3> DEFINE row == [wrapper[w] EXCEPT !.children = "settled", !.status = "todo"]
    <3>1. wrapper' = [wrapper EXCEPT ![w].children = "settled", ![w].status = "todo"]
      BY <1>1, <2>4 DEF Cascade
    <3>2. row \in Wrappers /\ row.status = "todo"
      BY <2>2 DEF Wrappers
    <3>3. wrapper' = [wrapper EXCEPT ![w] = row]
      BY <1>0, <2>1, <3>1 DEF Created
    <3> HIDE DEF row
    <3>4. /\ wrapper' \in Seq(Wrappers) /\ Len(wrapper') = Len(wrapper)
          /\ DOMAIN wrapper' = DOMAIN wrapper
          /\ wrapper'[w].status = "todo"
          /\ \A v \in Created \ {w} : wrapper'[v] = wrapper[v]
      BY <1>0, <2>1, <3>2, <3>3, RowType DEF Created
    <3>5. /\ server' \in [Wrapper -> {"idle", "queued", "working"}]
          /\ \A v \in Wrapper \ {w} : server'[v] = server[v]
      <4>1. server' = server \/ server' = [server EXCEPT ![w] = "queued"]
        BY <1>1, <2>4 DEF Cascade
      <4> QED BY <1>0, <4>1
    <3> QED BY <2>1, <3>4, <3>5, ServerStep
  <2> QED BY <2>3, <2>4
<1>2. CASE Sweep(w)
  <2>1. /\ w \in Created /\ wrapper[w].status = "todo" /\ Through(w)
        /\ UNCHANGED <<trace, work, firing, asleep, nudged, wrapper>>
        /\ server' = [server EXCEPT ![w] = "queued"]
    BY <1>2 DEF Sweep, Through
  <2>2. /\ server' \in [Wrapper -> {"idle", "queued", "working"}]
        /\ \A v \in Wrapper \ {w} : server'[v] = server[v]
    BY <1>0, <2>1
  <2> QED BY <1>0, <2>1, <2>2, ServerStep
<1>3. ASSUME NEW pc \in {"idle", "working"},
             NEW status \in {"in_progress", "done", "review", "error"},
             status = "in_progress" => pc # "idle",
             server[w] # "idle", server' = [server EXCEPT ![w] = pc], Row(w, status),
             UNCHANGED <<trace, work, firing, asleep, nudged>>
      PROVE  IInv'
  <2>1. w \in Created /\ Through(w)
    BY <1>0, <1>3
  <2>2. /\ wrapper' \in Seq(Wrappers) /\ Len(wrapper') = Len(wrapper)
        /\ DOMAIN wrapper' = DOMAIN wrapper
        /\ wrapper'[w].status = status
        /\ \A v \in Created \ {w} : wrapper'[v] = wrapper[v]
    BY <1>0, <1>3, <2>1, RowWrites DEF Created
  <2>3. /\ server' \in [Wrapper -> {"idle", "queued", "working"}] /\ server'[w] = pc
        /\ \A v \in Wrapper \ {w} : server'[v] = server[v]
    BY <1>0, <1>3
  <2> QED BY <1>3, <2>1, <2>2, <2>3, ServerStep
<1>4. CASE ServerStart(w)
  BY <1>3, <1>4 DEF ServerStart
<1>5. ASSUME NEW s \in {"done", "review", "error"}, ServerFinish(w, s) PROVE IInv'
  BY <1>3, <1>5 DEF ServerFinish
<1> QED BY <1>1, <1>2, <1>4, <1>5

\* A user closes a wrapper, or the reaper archives one.
LEMMA RowSteps ==
  ASSUME IInv, NEW w \in Wrapper, UserDone(w) \/ Reap(w)
  PROVE  IInv'
<1> USE DEF IInv
<1>0. /\ w \in Created /\ w \in DOMAIN wrapper /\ wrapper \in Seq(Wrappers)
      /\ wrapper[w] \in Wrappers
      /\ UNCHANGED <<trace, work, firing, server, asleep, nudged>>
  BY DEF UserDone, Reap, WeakTypes, Created
<1>1. /\ wrapper' \in Seq(Wrappers) /\ Len(wrapper') = Len(wrapper)
      /\ DOMAIN wrapper' = DOMAIN wrapper
      /\ wrapper'[w].status \in {"done", wrapper[w].status}
      /\ wrapper'[w].children = wrapper[w].children
      /\ \A v \in Created \ {w} : wrapper'[v] = wrapper[v]
  <2>1. CASE UserDone(w)
    BY <1>0, <2>1, RowWrites DEF UserDone, Created
  <2>2. CASE Reap(w)
    <3>1. wrapper' = [wrapper EXCEPT ![w] = [wrapper[w] EXCEPT !.archived = TRUE]]
      BY <2>2 DEF Reap
    <3> QED BY <1>0, <3>1, RowType, RowFields DEF Created
  <2> QED BY <2>1, <2>2
<1>2. /\ trace' = trace /\ work' = work /\ firing' = firing /\ server' = server
      /\ asleep' = asleep /\ nudged' = nudged /\ Working' = Working /\ Created' = Created
  BY <1>0, <1>1 DEF Working, Created
<1>3. WeakTypes' /\ Outcomes' /\ Owned' /\ RunningIsWorked'
  BY <1>1, <1>2 DEF WeakTypes, Outcomes, Owned, RunningIsWorked
<1>4. /\ \A v, j : Token(j, v)' <=> Token(j, v)
      /\ \A v, j : Helps(j, v)' <=> Helps(j, v)
  BY <1>2 DEF Token, Helps
<1>5. OneToken'
  BY <1>2, <1>4 DEF OneToken
<1>6. FreshWrapper'
  BY <1>1, <1>2 DEF FreshWrapper
<1>7. HandedOver'
  <2>1. \A v \in Created : Through(v)' => Through(v)
    BY <1>1, <1>2 DEF Through
  <2> QED BY <1>2, <1>4, <2>1 DEF HandedOver
<1>8. Caused'
  <2> SUFFICES ASSUME NEW v \in Created, wrapper'[v].status = "in_progress" PROVE Cause(v)'
    BY <1>2 DEF Caused
  <2>1. wrapper[v].status = "in_progress" /\ wrapper'[v].children = wrapper[v].children
    BY <1>1
  <2>2. Cause(v)
    BY <2>1 DEF Caused
  <2> QED BY <1>1, <1>2, <1>4, <2>1, <2>2 DEF Cause
<1> QED BY <1>3, <1>5, <1>6, <1>7, <1>8

\* A fire creates its wrapper.
LEMMA CreateStep ==
  ASSUME IInv, CreateWrapper
  PROVE  IInv'
<1> USE DEF IInv
<1> DEFINE row == [status |-> "in_progress", archived |-> FALSE, children |-> "none"]
<1>1. /\ firing = "claimed" /\ firing' = "created" /\ Len(wrapper) < MaxFires
      /\ wrapper' = Append(wrapper, row)
      /\ UNCHANGED <<trace, work, server, asleep, nudged>>
      /\ wrapper \in Seq(Wrappers) /\ Len(wrapper) \in Nat
      /\ row \in Wrappers /\ row.status = "in_progress" /\ row.children = "none"
  BY DEF CreateWrapper, WeakTypes, Wrappers
<1> HIDE DEF row
<1>2. PICK n : n = Len(wrapper) + 1
  OBVIOUS
<1>3. /\ wrapper' \in Seq(Wrappers) /\ Len(wrapper') = n /\ n \notin Created
      /\ DOMAIN wrapper' = DOMAIN wrapper \cup {n} /\ wrapper'[n] = row
      /\ \A v \in DOMAIN wrapper : wrapper'[v] = wrapper[v]
  <2>1. /\ wrapper' \in Seq(Wrappers) /\ Len(wrapper') = n /\ wrapper'[n] = row
        /\ \A v \in 1..Len(wrapper) : wrapper'[v] = wrapper[v]
        /\ DOMAIN wrapper = 1..Len(wrapper) /\ DOMAIN wrapper' = 1..n
    <3>1. wrapper' \in Seq(Wrappers) /\ Len(wrapper') = n
      BY <1>1, <1>2
    <3> QED BY <1>1, <1>2, <3>1
  <2> QED BY <1>1, <1>2, <2>1 DEF Created
<1>4. /\ trace' = trace /\ work' = work /\ server' = server /\ asleep' = asleep
      /\ nudged' = nudged /\ Working' = Working /\ Created' = Created \cup {n}
      /\ n \in Wrapper
  BY <1>1, <1>2, <1>3, RoutineAssumption DEF Working, Created, Wrapper
<1>5. \A v \in Created : wrapper'[v] = wrapper[v]
  BY <1>3 DEF Created
<1>6. WeakTypes'
  BY <1>1, <1>2, <1>3, <1>4, RoutineAssumption DEF WeakTypes
<1>7. Outcomes' /\ Owned' /\ RunningIsWorked'
  BY <1>4 DEF Outcomes, Owned, RunningIsWorked
<1>8. /\ \A v, j : Token(j, v)' <=> Token(j, v)
      /\ \A v, j : Helps(j, v)' <=> Helps(j, v)
      /\ \A j : ~ Token(j, n)
  <2>1. \A j \in DOMAIN trace : trace[j].of # n
    BY <1>3 DEF Owned
  <2> QED BY <1>4, <2>1 DEF Token, Helps
<1>9. OneToken'
  BY <1>4, <1>8 DEF OneToken
<1>10. FreshWrapper'
  BY <1>1, <1>3, <1>4 DEF FreshWrapper, Owned
<1>11. HandedOver'
  <2>1. \A v \in Created : Through(v)' => Through(v)
    BY <1>4, <1>5 DEF Through
  <2> QED BY <1>4, <1>8, <2>1 DEF HandedOver
<1>12. Caused'
  <2> SUFFICES ASSUME NEW v \in Created', wrapper'[v].status = "in_progress" PROVE Cause(v)'
    BY DEF Caused
  <2>1. CASE v = n
    BY <1>1, <1>3, <2>1 DEF Cause
  <2>2. CASE v # n
    <3>1. v \in Created /\ wrapper'[v] = wrapper[v]
      BY <1>4, <1>5, <2>2
    <3>2. Cause(v)
      BY <2>2, <3>1 DEF Caused
    <3> QED BY <1>1, <1>4, <1>8, <3>1, <3>2 DEF Cause
  <2> QED BY <2>1, <2>2
<1> QED BY <1>6, <1>7, <1>9, <1>10, <1>11, <1>12

\* An action that drops work and what was left to do of a fire, or moves the fire on to its
\* claim.
LEMMA DropStep ==
  ASSUME IInv, UNCHANGED <<wrapper, trace, server, nudged>>, asleep \subseteq asleep',
         firing' \in {"idle", "claimed"},
         \/ work' = work
         \/ /\ work' = [i \in Trace |-> "idle"]
            /\ \A i \in Working : i \in DOMAIN trace => trace[i].of \in asleep',
         firing = "created" => Len(wrapper) \in asleep'
  PROVE  IInv'
<1> USE DEF IInv
<1>1. /\ wrapper' = wrapper /\ trace' = trace /\ server' = server /\ nudged' = nudged
      /\ Created' = Created /\ work' \in [Trace -> Pcs]
  BY DEF Created, WeakTypes, Pcs
<1>2. /\ Working' \subseteq Working /\ \A i \in Working' : work'[i] = work[i]
      /\ \A i \in Working \ Working' : i \in DOMAIN trace => trace[i].of \in asleep'
  BY DEF Working
<1>3. WeakTypes'
  BY <1>1 DEF WeakTypes, Pcs
<1>4. Outcomes'
  BY <1>1, <1>2 DEF Outcomes
<1>5. Owned'
  BY <1>1 DEF Owned
<1>6. RunningIsWorked'
  BY <1>1, <1>2 DEF RunningIsWorked
<1>7. \A v, j : Token(j, v)' => Token(j, v)
  BY <1>1, <1>2 DEF Token
<1>8. OneToken'
  BY <1>1, <1>7 DEF OneToken
<1>9. FreshWrapper'
  BY DEF FreshWrapper
<1>10. HandedOver'
  BY <1>1, <1>7 DEF HandedOver, Through
<1>11. Caused'
  <2> SUFFICES ASSUME NEW v \in Created, wrapper[v].status = "in_progress" PROVE Cause(v)'
    BY <1>1 DEF Caused
  <2>1. Cause(v)
    BY DEF Caused
  <2>2. ASSUME NEW j \in DOMAIN trace, Helps(j, v) PROVE Cause(v)'
    <3>1. CASE j \in Working'
      <4>1. Helps(j, v)'
        BY <1>1, <1>2, <2>2, <3>1 DEF Helps
      <4> QED BY <1>1, <4>1 DEF Cause
    <3>2. CASE j \notin Working'
      BY <1>2, <2>2, <3>2 DEF Helps, Cause
    <3> QED BY <3>1, <3>2
  <2> QED BY <1>1, <2>1, <2>2 DEF Cause
<1> QED BY <1>3, <1>4, <1>5, <1>6, <1>8, <1>9, <1>10, <1>11

\* A batch is claimed.
LEMMA ClaimStep ==
  ASSUME IInv, NEW B \in SUBSET Trace, Claim(B)
  PROVE  IInv'
<1> USE DEF IInv
<1>1. /\ Working = {} /\ UNCHANGED <<wrapper, server, firing, asleep, nudged>>
      /\ \A i \in B : i \in DOMAIN trace /\ trace[i].status = "queued"
      /\ work' = [i \in Trace |-> IF i \in B THEN "start" ELSE "idle"]
      /\ trace \in Seq(Rows) /\ Len(trace) \in Nat /\ DOMAIN trace = 1..Len(trace)
      /\ \A i \in DOMAIN trace : trace[i] \in Rows
  BY DEF Claim, WeakTypes
<1>2. /\ trace' \in Seq(Rows) /\ DOMAIN trace' = DOMAIN trace
      /\ \A i \in DOMAIN trace :
           /\ trace'[i].of = trace[i].of /\ trace'[i].outcome = trace[i].outcome
           /\ i \in B => trace[i].status = "queued" /\ trace'[i].status = "running"
           /\ i \notin B => trace'[i] = trace[i]
  <2> DEFINE f == [i \in DOMAIN trace |->
                     IF i \in B THEN [trace[i] EXCEPT !.status = "running"] ELSE trace[i]]
  <2>1. trace' = f
    BY DEF Claim
  <2>2. \A i \in DOMAIN trace :
          /\ f[i] \in Rows /\ f[i].of = trace[i].of /\ f[i].outcome = trace[i].outcome
          /\ i \in B => f[i].status = "running"
          /\ i \notin B => f[i] = trace[i]
    BY <1>1 DEF Rows, Live
  <2>3. DOMAIN f = 1..Len(trace)
    BY <1>1
  <2> HIDE DEF f
  <2>4. f \in Seq(Rows)
    <3>1. f = [i \in 1..Len(trace) |-> f[i]]
      BY <2>1, <2>3, <1>1 DEF Claim
    <3>2. \A i \in 1..Len(trace) : f[i] \in Rows
      BY <1>1, <2>2
    <3> QED BY <1>1, <3>1, <3>2
  <2> QED BY <1>1, <2>1, <2>2, <2>3, <2>4
<1>3. /\ wrapper' = wrapper /\ server' = server /\ firing' = firing /\ asleep' = asleep
      /\ nudged' = nudged /\ Created' = Created /\ Working' = B
      /\ \A i \in B : work'[i] = "start" /\ i \in DOMAIN trace
      /\ work' \in [Trace -> Pcs]
  BY <1>1 DEF Working, Created, Pcs
<1>4. WeakTypes'
  BY <1>2, <1>3 DEF WeakTypes, Pcs
<1>5. Outcomes'
  BY <1>2, <1>3 DEF Outcomes, After, Amiss
<1>6. Owned'
  BY <1>2, <1>3 DEF Owned
<1>7. RunningIsWorked'
  BY <1>1, <1>2, <1>3 DEF RunningIsWorked
<1>8. \A v, j : Token(j, v)' => Token(j, v)
  BY <1>1, <1>2, <1>3 DEF Token, Live
<1>9. OneToken'
  BY <1>2, <1>3, <1>8 DEF OneToken
<1>10. FreshWrapper'
  BY <1>2, <1>3 DEF FreshWrapper
<1>11. HandedOver'
  BY <1>2, <1>3, <1>8 DEF HandedOver, Through
<1>12. Caused'
  <2> SUFFICES ASSUME NEW v \in Created, wrapper[v].status = "in_progress" PROVE Cause(v)'
    BY <1>3 DEF Caused
  <2>1. Cause(v) /\ \A j : ~ Helps(j, v)
    BY <1>1 DEF Caused, Helps
  <2>2. \A j \in DOMAIN trace : trace[j].status \in Live => trace'[j].status \in Live
    BY <1>2 DEF Live
  <2> QED BY <1>2, <1>3, <2>1, <2>2 DEF Cause
<1> QED BY <1>4, <1>5, <1>6, <1>7, <1>9, <1>10, <1>11, <1>12

\* The server boots.
LEMMA BootStep ==
  ASSUME IInv, ServerBoot
  PROVE  IInv'
<1> USE DEF IInv
<1>1. /\ UNCHANGED <<work, firing, asleep, nudged>>
      /\ server' = [w \in Wrapper |-> IF server[w] = "working" THEN "idle" ELSE server[w]]
      /\ server \in [Wrapper -> {"idle", "queued", "working"}]
      /\ trace \in Seq(Rows) /\ Len(trace) \in Nat /\ DOMAIN trace = 1..Len(trace)
      /\ \A i \in DOMAIN trace : trace[i] \in Rows
      /\ wrapper \in Seq(Wrappers) /\ Len(wrapper) \in Nat /\ DOMAIN wrapper = 1..Len(wrapper)
      /\ \A w \in DOMAIN wrapper : wrapper[w] \in Wrappers
      /\ Created \subseteq Wrapper
  BY RoutineAssumption DEF ServerBoot, WeakTypes, Wrapper, Created
<1>2. /\ trace' \in Seq(Rows) /\ DOMAIN trace' = DOMAIN trace
      /\ \A i \in DOMAIN trace :
           /\ trace'[i].of = trace[i].of /\ trace'[i].outcome = trace[i].outcome
           /\ trace[i].status = "running" => trace'[i].status = "failed"
           /\ trace[i].status # "running" => trace'[i] = trace[i]
  <2> DEFINE f == [i \in DOMAIN trace |-> IF trace[i].status = "running"
                     THEN [trace[i] EXCEPT !.status = "failed"] ELSE trace[i]]
  <2>1. trace' = f
    BY DEF ServerBoot
  <2>2. \A i \in DOMAIN trace :
          /\ f[i] \in Rows /\ f[i].of = trace[i].of /\ f[i].outcome = trace[i].outcome
          /\ trace[i].status = "running" => f[i].status = "failed"
          /\ trace[i].status # "running" => f[i] = trace[i]
    BY <1>1 DEF Rows, Live
  <2>3. DOMAIN f = 1..Len(trace) /\ f = [i \in 1..Len(trace) |-> f[i]]
    BY <1>1
  <2> HIDE DEF f
  <2>4. f \in Seq(Rows)
    <3>1. \A i \in 1..Len(trace) : f[i] \in Rows
      BY <1>1, <2>2
    <3> QED BY <1>1, <2>3, <3>1
  <2> QED BY <1>1, <2>1, <2>2, <2>3, <2>4
<1>3. /\ wrapper' \in Seq(Wrappers) /\ DOMAIN wrapper' = DOMAIN wrapper
      /\ Len(wrapper') = Len(wrapper)
      /\ \A w \in Created :
           /\ wrapper'[w].children = wrapper[w].children
           /\ server[w] = "working" /\ wrapper[w].status = "in_progress" =>
                wrapper'[w].status = "todo"
           /\ ~ (server[w] = "working" /\ wrapper[w].status = "in_progress") =>
                wrapper'[w] = wrapper[w]
  <2> DEFINE f == [w \in Created |-> IF server[w] = "working" /\ wrapper[w].status = "in_progress"
                     THEN [wrapper[w] EXCEPT !.status = "todo"] ELSE wrapper[w]]
  <2>1. wrapper' = f
    BY DEF ServerBoot
  <2>2. \A w \in Created :
          /\ f[w] \in Wrappers /\ f[w].children = wrapper[w].children
          /\ server[w] = "working" /\ wrapper[w].status = "in_progress" => f[w].status = "todo"
          /\ ~ (server[w] = "working" /\ wrapper[w].status = "in_progress") => f[w] = wrapper[w]
    BY <1>1 DEF Wrappers, Created
  <2>3. DOMAIN f = 1..Len(wrapper) /\ f = [w \in 1..Len(wrapper) |-> f[w]]
    BY <1>1 DEF Created
  <2> HIDE DEF f
  <2>4. f \in Seq(Wrappers) /\ Len(f) = Len(wrapper)
    <3>1. \A w \in 1..Len(wrapper) : f[w] \in Wrappers
      BY <1>1, <2>2 DEF Created
    <3> QED BY <1>1, <2>3, <3>1
  <2> QED BY <1>1, <2>1, <2>2, <2>3, <2>4
<1>4. /\ work' = work /\ firing' = firing /\ asleep' = asleep /\ nudged' = nudged
      /\ Created' = Created /\ Working' = Working
      /\ \A w \in Wrapper : /\ server[w] = "working" => server'[w] = "idle"
                            /\ server[w] # "working" => server'[w] = server[w]
  BY <1>1, <1>3 DEF Working, Created
<1>5. WeakTypes'
  BY <1>1, <1>2, <1>3, <1>4 DEF WeakTypes
<1>6. Outcomes'
  BY <1>2, <1>4 DEF Outcomes, Live
<1>7. Owned'
  BY <1>2, <1>4 DEF Owned
<1>8. RunningIsWorked'
  BY <1>2, <1>4 DEF RunningIsWorked
<1>9. \A v, j : Token(j, v)' => Token(j, v)
  BY <1>2, <1>4 DEF Token, Live
<1>10. OneToken'
  BY <1>2, <1>4, <1>9 DEF OneToken
<1>11. FreshWrapper'
  <2>1. firing = "created" => Len(wrapper) \in Wrapper
    BY <1>1 DEF FreshWrapper
  <2> QED BY <1>1, <1>2, <1>3, <1>4, <2>1 DEF FreshWrapper
<1>12. HandedOver'
  <2>1. \A v \in Created : Through(v)' => Through(v)
    BY <1>1, <1>3, <1>4 DEF Through
  <2> QED BY <1>2, <1>4, <1>9, <2>1 DEF HandedOver
<1>13. Caused'
  <2> SUFFICES ASSUME NEW v \in Created, wrapper'[v].status = "in_progress" PROVE Cause(v)'
    BY <1>4 DEF Caused
  <2>1. /\ wrapper[v].status = "in_progress" /\ server[v] # "working"
        /\ server'[v] = server[v] /\ wrapper'[v] = wrapper[v]
    BY <1>1, <1>3, <1>4
  <2>2. Cause(v)
    BY <2>1 DEF Caused
  <2>3. \A j : Helps(j, v) => Helps(j, v)'
    BY <1>2, <1>4 DEF Helps
  <2>4. ASSUME NEW j \in DOMAIN trace, trace[j].of = v, trace[j].status \in Live
        PROVE  Cause(v)'
    <3>1. CASE trace[j].status = "running"
      <4>1. j \in Working \/ v \in asleep
        BY <2>4, <3>1 DEF RunningIsWorked
      <4>2. j \in Working => Helps(j, v)
        BY <2>4 DEF Helps, Outcomes, After
      <4> QED BY <1>2, <1>4, <2>3, <4>1, <4>2 DEF Cause
    <3>2. CASE trace[j].status # "running"
      BY <1>2, <2>4, <3>2 DEF Cause, Live
    <3> QED BY <3>1, <3>2
  <2> QED BY <1>2, <1>3, <1>4, <2>1, <2>2, <2>3, <2>4 DEF Cause
<1> QED BY <1>5, <1>6, <1>7, <1>8, <1>10, <1>11, <1>12, <1>13
-----------------------------------------------------------------------------
(* The theorems. *)

\* The invariant holds in every state of every behaviour.
LEMMA Inductive == Spec => []IInv
<1>1. Init => IInv
  <2> SUFFICES ASSUME Init PROVE IInv
    OBVIOUS
  <2>1. /\ firing = "idle" /\ wrapper = <<>> /\ trace = <<>>
        /\ work = [i \in Trace |-> "idle"] /\ server = [w \in Wrapper |-> "idle"]
    BY DEF Init
  <2>2. WeakTypes
    BY <2>1, RoutineAssumption DEF WeakTypes, After, Amiss
  <2>3. DOMAIN trace = {} /\ Created = {} /\ Working = {}
    BY <2>1 DEF Created, Working
  <2> QED BY <2>1, <2>2, <2>3
          DEF IInv, Outcomes, Owned, RunningIsWorked, OneToken, FreshWrapper, HandedOver, Caused
<1>2. IInv /\ [Next]_vars => IInv'
  <2> SUFFICES ASSUME IInv, [Next]_vars PROVE IInv'
    OBVIOUS
  <2>1. CASE SlotComesDue \/ UNCHANGED vars
    <3>1. UNCHANGED <<firing, wrapper, trace, work, server, asleep, nudged>>
      BY <2>1 DEF SlotComesDue, vars
    <3> QED BY <3>1 DEF IInv, WeakTypes, Outcomes, Owned, RunningIsWorked, OneToken, FreshWrapper,
                        HandedOver, Caused, Token, Through, Helps, Cause, Created, Working
  <2>2. CASE ClaimTrigger
    <3>1. /\ UNCHANGED <<wrapper, trace, work, server, nudged, asleep>>
          /\ firing = "idle" /\ firing' = "claimed"
      BY <2>2 DEF ClaimTrigger
    <3> QED BY <3>1, DropStep
  <2>3. CASE CreateWrapper
    BY <2>3, CreateStep
  <2>4. CASE FireWake
    BY <2>4, FireWakeStep
  <2>5. CASE FireThrows
    <3>1. /\ UNCHANGED <<wrapper, trace, work, server, nudged>> /\ firing' = "idle"
          /\ asleep \subseteq asleep' /\ (firing = "created" => Len(wrapper) \in asleep')
      BY <2>5 DEF FireThrows
    <3> QED BY <3>1, DropStep
  <2>6. ASSUME NEW w \in Wrapper, Reap(w) \/ UserDone(w) PROVE IInv'
    BY <2>6, RowSteps
  <2>7. ASSUME NEW B \in SUBSET Trace, Claim(B) PROVE IInv'
    BY <2>7, ClaimStep
  <2>8. ASSUME NEW i \in Trace, Step(i) \/ CallThrows(i) PROVE IInv'
    BY <2>8, WorkSteps, AgainSteps DEF Step
  <2>9. ASSUME NEW i \in Trace,
               GiveUp(i) \/ CancelTrace(i)
               \/ \E o \in Accepted \cup Stalled \cup Failed : Answer(i, o)
        PROVE  IInv'
    BY <2>9, EndSteps
  <2>10. ASSUME NEW w \in Wrapper,
                \/ Cascade(w) \/ Sweep(w) \/ ServerStart(w)
                \/ \E s \in {"done", "review", "error"} : ServerFinish(w, s)
         PROVE  IInv'
    BY <2>10, ServerSteps
  <2>11. CASE ServerBoot
    BY <2>11, BootStep
  <2>12. CASE WorkerCrash
    <3>1. /\ UNCHANGED <<wrapper, trace, server, nudged>> /\ firing' = "idle"
          /\ asleep \subseteq asleep' /\ (firing = "created" => Len(wrapper) \in asleep')
          /\ work' = [i \in Trace |-> "idle"]
          /\ \A i \in Working : trace[i].of \in asleep'
      BY <2>12 DEF WorkerCrash
    <3> QED BY <3>1, DropStep
  <2> QED BY <2>1, <2>2, <2>3, <2>4, <2>5, <2>6, <2>7, <2>8, <2>9, <2>10, <2>11, <2>12
          DEF Next, Scheduler, Dispatcher, Server
<1> QED BY <1>1, <1>2, PTL DEF Spec

\* A wrapper on the board as in progress has something or someone at work on it, unless its
\* last turn gave nothing to go on with, was cancelled, or ended in a throw or a crash.
THEOREM CausedAlways == Spec => []InProgressHasCause
<1>1. IInv => InProgressHasCause
  <2> SUFFICES ASSUME IInv, NEW w \in Created, wrapper[w].status = "in_progress"
               PROVE  \/ LiveTraces(w) # {} \/ \E i \in Working : trace[i].of = w
                      \/ server[w] # "idle" \/ wrapper[w].children = "pending"
                      \/ firing = "created" /\ w = Len(wrapper)
                      \/ w \in asleep
    BY DEF InProgressHasCause
  <2>1. Cause(w)
    BY DEF IInv, Caused
  <2> QED BY <2>1 DEF Cause, Helps, LiveTraces
<1> QED BY <1>1, Inductive, PTL

\* The worker and the server are never at one wrapper at the same time, but for an agent that
\* delegates and stalls in one reply.
THEOREM OneProcessAlways == Spec => []OneProcessPerWrapper
<1>1. IInv => OneProcessPerWrapper
  <2> SUFFICES ASSUME IInv, NEW w \in Created \ nudged, server[w] = "working",
                      NEW i \in Working, trace[i].of = w
               PROVE  FALSE
    BY DEF OneProcessPerWrapper
  <2>1. i \in DOMAIN trace /\ Token(i, w) /\ Through(w)
    BY DEF IInv, Outcomes, Token, Through
  <2> QED BY <2>1 DEF IInv, HandedOver
<1> QED BY <1>1, Inductive, PTL

\* A wrapper parked in error has no live trace, with the same exception.
THEOREM ParkedAlways == Spec => []ParkedIsQuiet
<1>1. IInv => ParkedIsQuiet
  <2> SUFFICES ASSUME IInv, NEW w \in Created \ nudged, wrapper[w].status = "error",
                      NEW i \in LiveTraces(w)
               PROVE  FALSE
    BY DEF ParkedIsQuiet
  <2>1. i \in DOMAIN trace /\ Token(i, w) /\ Through(w)
    BY DEF LiveTraces, Token, Through
  <2> QED BY <2>1 DEF IInv, HandedOver
<1> QED BY <1>1, Inductive, PTL

\* The wrappers stay as many as they are in every step but their creation.
LEMMA Lengths ==
  ASSUME wrapper \in Seq(Wrappers), [Next]_vars, ~ CreateWrapper
  PROVE  Len(wrapper') = Len(wrapper)
<1>1. ASSUME NEW w, NEW row, wrapper' = [wrapper EXCEPT ![w] = row]
      PROVE  Len(wrapper') = Len(wrapper)
  <2>1. CASE w \in DOMAIN wrapper
    <3>1. wrapper \in Seq(Wrappers \cup {row}) /\ row \in Wrappers \cup {row}
      OBVIOUS
    <3> QED BY <1>1, <2>1, <3>1
  <2>2. CASE w \notin DOMAIN wrapper
    <3>1. wrapper' = wrapper
      BY <1>1, <2>2
    <3> QED BY <3>1
  <2> QED BY <2>1, <2>2
<1>2. ASSUME NEW w, NEW status, Row(w, status) PROVE Len(wrapper') = Len(wrapper)
  BY <1>1, <1>2 DEF Row
<1>3. CASE wrapper' = wrapper
  BY <1>3
<1>4. CASE Scheduler
  <2>1. ASSUME NEW w \in Wrapper, Reap(w) PROVE Len(wrapper') = Len(wrapper)
    BY <1>1, <2>1 DEF Reap
  <2> QED BY <1>3, <1>4, <2>1
          DEF Scheduler, SlotComesDue, ClaimTrigger, FireWake, FireThrows
<1>5. CASE Dispatcher
  <2>1. ASSUME NEW i \in Trace, Start(i) \/ SyncSucceeded(i) \/ Park(i)
        PROVE  Len(wrapper') = Len(wrapper)
    BY <1>2, <1>3, <2>1 DEF Start, SyncSucceeded, Park
  <2>2. ASSUME NEW i \in Trace, Delegate(i) PROVE Len(wrapper') = Len(wrapper)
    BY <1>1, <1>3, <2>2 DEF Delegate
  <2>3. ASSUME NEW i \in Trace,
               \/ LookForContinuation(i) \/ Continue(i) \/ Retry(i) \/ SyncFailed(i)
               \/ GiveUp(i) \/ CallThrows(i)
        PROVE  Len(wrapper') = Len(wrapper)
    BY <1>3, <2>3 DEF LookForContinuation, Continue, Retry, SyncFailed, GiveUp, CallThrows
  <2> QED BY <1>3, <1>5, <2>1, <2>2, <2>3 DEF Dispatcher, Step, Claim, Answer
<1>6. CASE Server
  <2>1. ASSUME NEW w \in Wrapper, Cascade(w) PROVE Len(wrapper') = Len(wrapper)
    <3>1. CASE wrapper' = [wrapper EXCEPT ![w].children = "settled"]
      BY <1>1, <3>1
    <3>2. CASE wrapper' = [wrapper EXCEPT ![w].children = "settled", ![w].status = "todo"]
      <4>1. w \in DOMAIN wrapper
        BY <2>1 DEF Cascade, Created
      <4>2. wrapper' = [wrapper EXCEPT
                          ![w] = [wrapper[w] EXCEPT !.children = "settled", !.status = "todo"]]
        BY <3>2, <4>1
      <4> QED BY <1>1, <4>2
    <3> QED BY <2>1, <3>1, <3>2 DEF Cascade
  <2>2. ASSUME NEW w \in Wrapper,
               ServerStart(w) \/ \E s \in {"done", "review", "error"} : ServerFinish(w, s)
        PROVE  Len(wrapper') = Len(wrapper)
    BY <1>2, <2>2 DEF ServerStart, ServerFinish
  <2>3. CASE ServerBoot
    <3> DEFINE row(w) == IF server[w] = "working" /\ wrapper[w].status = "in_progress"
                         THEN [wrapper[w] EXCEPT !.status = "todo"] ELSE wrapper[w]
    <3>1. wrapper' = [w \in 1..Len(wrapper) |-> row(w)] /\ Len(wrapper) \in Nat
      BY <2>3 DEF ServerBoot, Created
    <3> HIDE DEF row
    <3> QED BY <3>1
  <2> QED BY <1>3, <1>6, <2>1, <2>2, <2>3 DEF Server, Sweep
<1>7. ASSUME NEW w \in Wrapper, UserDone(w) PROVE Len(wrapper') = Len(wrapper)
  BY <1>2, <1>7 DEF UserDone
<1> QED BY <1>3, <1>4, <1>5, <1>6, <1>7 DEF Next, WorkerCrash, CancelTrace, vars

\* What OneWrapperPerSlot counts beside the wrappers.
Claimed == IF firing = "claimed" THEN 1 ELSE 0
Awaited == IF due THEN 1 ELSE 0
SlotsInv == slots \in Nat /\ Len(wrapper) + Claimed + Awaited <= slots

\* No slot of the cron expression is fired twice: what was created, what is claimed and what
\* is due together never exceed the slots that have come due.
THEOREM OneWrapperAlways == Spec => []OneWrapperPerSlot
<1>1. Init => SlotsInv
  <2> SUFFICES ASSUME Init PROVE SlotsInv
    OBVIOUS
  <2>1. Awaited = 0
    BY Zenon DEF Awaited, Init
  <2>2. slots = 0 /\ wrapper = <<>> /\ firing = "idle"
    BY DEF Init
  <2> QED BY <2>1, <2>2 DEF SlotsInv, Claimed
<1>2. IInv /\ SlotsInv /\ [Next]_vars => SlotsInv'
  <2> SUFFICES ASSUME IInv, SlotsInv, [Next]_vars PROVE SlotsInv'
    OBVIOUS
  <2>0. /\ wrapper \in Seq(Wrappers) /\ Len(wrapper) \in Nat
        /\ Claimed \in {0, 1} /\ (due => Awaited = 1) /\ Awaited \in {0, 1}
    <3>1. (due => Awaited = 1) /\ Awaited \in {0, 1}
      BY Zenon DEF Awaited
    <3> QED BY <3>1 DEF IInv, WeakTypes, Claimed
  <2>1. CASE SlotComesDue
    <3>1. Claimed' = Claimed /\ wrapper' = wrapper /\ slots' = slots + 1
      BY <2>1 DEF SlotComesDue, Claimed
    <3>2. Awaited' \in {0, 1}
      BY Zenon DEF Awaited
    <3> QED BY <2>0, <3>1, <3>2 DEF SlotsInv
  <2>2. CASE ClaimTrigger
    <3>1. due /\ due' = FALSE
      BY <2>2 DEF ClaimTrigger, DueMoved
    <3>2. Awaited' = 0
      BY <3>1, Zenon DEF Awaited
    <3>3. Claimed = 0 /\ Claimed' = 1 /\ wrapper' = wrapper /\ slots' = slots
      BY <2>2 DEF ClaimTrigger, Claimed
    <3> QED BY <2>0, <3>1, <3>2, <3>3 DEF SlotsInv
  <2>3. CASE CreateWrapper
    <3>1. Claimed = 1 /\ Claimed' = 0 /\ slots' = slots
      BY <2>3 DEF CreateWrapper, Claimed
    <3>2. Awaited' = Awaited
      BY <2>3, Zenon DEF CreateWrapper, Awaited
    <3>3. Len(wrapper') = Len(wrapper) + 1
      BY <2>0, <2>3 DEF CreateWrapper
    <3> QED BY <2>0, <3>1, <3>2, <3>3 DEF SlotsInv
  <2>4. CASE ~ SlotComesDue /\ ~ ClaimTrigger /\ ~ CreateWrapper
    <3>1. slots' = slots /\ due' = due /\ firing' \in {"idle", firing}
      <4>1. CASE Scheduler
        BY <2>4, <4>1 DEF Scheduler, FireWake, FireThrows, Reap
      <4>2. CASE Dispatcher
        BY <4>2 DEF Dispatcher, Claim, Step, Start, SyncSucceeded, Delegate, LookForContinuation,
                    Continue, Retry, SyncFailed, Park, GiveUp, CallThrows, Answer
      <4>3. CASE Server
        BY <4>3 DEF Server, Cascade, Sweep, ServerStart, ServerFinish, ServerBoot
      <4>4. CASE UNCHANGED vars
        BY <4>4 DEF vars
      <4> QED BY <4>1, <4>2, <4>3, <4>4 DEF Next, WorkerCrash, CancelTrace, UserDone
    <3>2. Awaited' = Awaited
      BY <3>1, Zenon DEF Awaited
    <3>3. Claimed' <= Claimed /\ Claimed' \in {0, 1}
      BY <3>1 DEF Claimed
    <3>4. Len(wrapper') = Len(wrapper)
      BY <2>0, <2>4, Lengths
    <3> QED BY <2>0, <3>1, <3>2, <3>3, <3>4 DEF SlotsInv
  <2> QED BY <2>1, <2>2, <2>3, <2>4
<1>3. SlotsInv => OneWrapperPerSlot
  BY Zenon DEF SlotsInv, OneWrapperPerSlot, Claimed, Awaited
<1> QED BY <1>1, <1>2, <1>3, Inductive, PTL DEF Spec
-----------------------------------------------------------------------------
(* The second invariant: what the traces count. *)

\* The counts a trace carries, and what is left of them when a continuation is about to be made.
Ranges ==
  /\ \A i \in DOMAIN trace : /\ trace[i].retry \in 0..MaxRetries
                             /\ trace[i].continuation \in 0..MaxContinuation
  /\ \A i \in Working : work[i] = "continue" => trace[i].continuation < MaxContinuation

\* The bounds of the instance, and the histories.
Bounded ==
  /\ slots \in 0..MaxFires /\ due \in BOOLEAN
  /\ asleep \subseteq Wrapper /\ nudged \subseteq Wrapper
  /\ troubles \in 0..MaxTroubles /\ faults \in 0..MaxFaults /\ requests \in 0..MaxRequests

\* Traces at work that may yet be followed by another of their wrapper.
Owed == {i \in Working : \/ work[i] \in {"sync", "delegate"} /\ trace[i].outcome \in Stalled
                         \/ work[i] \in {"nudge", "continue"}
                         \/ work[i] = "retry" /\ trace[i].outcome = "transient"}
Fresh == IF firing = "created" THEN 1 ELSE 0

\* A trace is the first of its wrapper, or answers a trouble of its own.
Budget == Len(trace) + Fresh + Cardinality(Owed) <= Len(wrapper) + troubles

\* What is or may yet be worked on is the last turn of its wrapper.
Newest == \A i \in DOMAIN trace : Token(i, trace[i].of) => \A j \in Turns(trace[i].of) : j <= i

\* A turn that follows only transient failures counts them.
Chain == \A w \in Wrapper : \A i, j \in Turns(w) :
  (\A k \in Between(w, i, j) : trace[k].outcome = "transient")
    => Cardinality(Between(w, i, j)) <= trace[j].retry

-----------------------------------------------------------------------------
(* The counts: most steps leave what the traces are about alone. *)

\* A step that makes no trace, writes no count, and makes nothing live.
KeepsTraces ==
  /\ Len(trace') = Len(trace) /\ DOMAIN trace' = DOMAIN trace
  /\ \A i \in DOMAIN trace :
       /\ trace'[i].of = trace[i].of
       /\ trace'[i].retry = trace[i].retry /\ trace'[i].continuation = trace[i].continuation
       /\ trace'[i].status \in Live => trace[i].status \in Live

\* A step that takes up live traces only, and continues with what is below the cap.
TakesUp == \A i \in Trace :
  /\ work'[i] # "idle" => work[i] # "idle" \/ (i \in DOMAIN trace /\ trace[i].status \in Live)
  /\ work'[i] = "continue" => work[i] = "continue" \/ trace[i].continuation < MaxContinuation

\* The same, where no turn comes to an end.
MovesOn == TakesUp /\ \A i \in Trace :
  /\ work'[i] \in {"sync", "delegate"} => work[i] \in {"sync", "delegate"}
  /\ work'[i] \in {"nudge", "continue"} =>
       \/ work[i] \in {"nudge", "continue"}
       \/ work[i] = "delegate" /\ trace[i].outcome \in Stalled
  /\ work'[i] = "retry" => work[i] = "retry"

\* The type of a trace that the worker's counts need.
LEMMA Counted ==
  ASSUME IInv, Ranges
  PROVE  /\ Len(trace) \in Nat /\ DOMAIN trace = 1..Len(trace) /\ DOMAIN trace \subseteq Int
         /\ Len(wrapper) \in Nat /\ Working \subseteq DOMAIN trace /\ Owed \subseteq Working
         /\ IsFiniteSet(DOMAIN trace) /\ IsFiniteSet(Owed) /\ Cardinality(Owed) \in Nat
         /\ Fresh \in {0, 1}
         /\ \A i \in DOMAIN trace : /\ trace[i] \in Rows /\ trace[i].of \in Wrapper
                                    /\ trace[i].of \in Created
                                    /\ trace[i].retry \in Nat /\ trace[i].continuation \in Nat
<1>1. Len(trace) \in Nat /\ DOMAIN trace = 1..Len(trace) /\ Len(wrapper) \in Nat
  BY DEF IInv, WeakTypes
<1>2. Working \subseteq DOMAIN trace /\ Owed \subseteq Working
  BY DEF IInv, Outcomes, Owed
<1>3. IsFiniteSet(DOMAIN trace)
  BY <1>1, FS_Interval
<1>4. IsFiniteSet(Owed) /\ Cardinality(Owed) \in Nat
  BY <1>2, <1>3, FS_Subset, FS_CardinalityType
<1>5. Fresh \in {0, 1}
  BY DEF Fresh
<1>6. ASSUME NEW i \in DOMAIN trace
      PROVE  /\ trace[i] \in Rows /\ trace[i].of \in Wrapper /\ trace[i].of \in Created
             /\ trace[i].retry \in Nat /\ trace[i].continuation \in Nat
  <2>1. trace[i] \in Rows
    BY DEF IInv, WeakTypes
  <2> QED BY <2>1, RoutineAssumption DEF Rows, Ranges, IInv, Owned
<1> QED BY <1>1, <1>2, <1>3, <1>4, <1>5, <1>6

\* The turns of a wrapper, and those between two of them, are finite sets.
LEMMA BetweenFinite ==
  ASSUME IInv, Ranges, NEW w, NEW i \in Int, NEW j \in Int
  PROVE  /\ IsFiniteSet(Between(w, i, j)) /\ Cardinality(Between(w, i, j)) \in Nat
         /\ Between(w, i, j) \subseteq Turns(w) /\ Turns(w) \subseteq DOMAIN trace
<1>1. Between(w, i, j) \subseteq Turns(w) /\ Turns(w) \subseteq DOMAIN trace
  BY DEF Between, Turns
<1> QED BY <1>1, Counted, FS_Subset, FS_CardinalityType

\* Such a step keeps the counts, the order of the turns and their chains of failures; an
\* outcome it writes is the last turn's.
LEMMA KeepStep ==
  ASSUME IInv, Ranges, Newest, Chain, KeepsTraces, TakesUp,
         \A i \in DOMAIN trace :
           trace'[i].outcome = trace[i].outcome \/ Token(i, trace[i].of)
  PROVE  Ranges' /\ Newest' /\ Chain'
<1>1. ASSUME NEW i \in Working' PROVE i \in DOMAIN trace /\ i \in Trace
  BY Counted DEF TakesUp, Working
<1>2. Ranges'
  <2>1. ASSUME NEW i \in Working', work'[i] = "continue"
        PROVE  trace'[i].continuation < MaxContinuation
    <3>1. i \in Trace /\ i \in DOMAIN trace /\ trace'[i].continuation = trace[i].continuation
      BY <1>1 DEF KeepsTraces
    <3>2. CASE work[i] = "continue"
      <4>1. i \in Working
        BY <3>1, <3>2 DEF Working
      <4> QED BY <3>1, <3>2, <4>1 DEF Ranges
    <3> QED BY <2>1, <3>1, <3>2 DEF TakesUp
  <2> QED BY <2>1 DEF Ranges, KeepsTraces
<1>3. ASSUME NEW w, NEW i, NEW j
      PROVE  Turns(w)' = Turns(w) /\ Between(w, i, j)' = Between(w, i, j)
  BY DEF KeepsTraces, Turns, Between
<1>4. ASSUME NEW i \in DOMAIN trace, NEW w, Token(i, w)' PROVE Token(i, w)
  <2>1. trace[i].of = w
    BY <1>4 DEF Token, KeepsTraces
  <2>2. CASE trace'[i].status \in Live
    BY <2>1, <2>2 DEF Token, KeepsTraces
  <2>3. CASE i \in Working'
    <3>1. i \in Trace /\ (i \in Working \/ trace[i].status \in Live)
      BY <1>1, <2>3 DEF TakesUp, Working
    <3> QED BY <2>1, <3>1 DEF Token
  <2> QED BY <1>4, <2>2, <2>3 DEF Token
<1>5. Newest'
  <2> SUFFICES ASSUME NEW i \in DOMAIN trace, NEW w, w = trace'[i].of, Token(i, w)',
                      NEW j \in Turns(w)'
               PROVE  j <= i
    BY DEF Newest, KeepsTraces
  <2> QED BY <1>3, <1>4 DEF Newest, KeepsTraces
<1>6. Chain'
  <2> SUFFICES ASSUME NEW w \in Wrapper, NEW i \in Turns(w)', NEW j \in Turns(w)',
                      \A k \in Between(w, i, j)' : trace'[k].outcome = "transient"
               PROVE  Cardinality(Between(w, i, j))' <= trace'[j].retry
    BY DEF Chain
  <2>1. /\ i \in Turns(w) /\ j \in Turns(w) /\ j \in DOMAIN trace
        /\ Between(w, i, j)' = Between(w, i, j)
    BY <1>3 DEF Turns
  <2>2. ASSUME NEW k \in Between(w, i, j) PROVE trace[k].outcome = "transient"
    <3>1. k \in DOMAIN trace /\ trace[k].of = w /\ k < j /\ k \in Int /\ j \in Int
      BY <2>1, Counted DEF Between, Turns
    <3>2. ~ Token(k, w)
      BY <2>1, <3>1 DEF Newest
    <3> QED BY <2>1, <3>1, <3>2
  <2>3. Cardinality(Between(w, i, j)) <= trace[j].retry
    BY <2>1, <2>2 DEF Chain
  <2> QED BY <2>1, <2>3 DEF KeepsTraces
<1> QED BY <1>2, <1>5, <1>6

\* The turns of a wrapper from one on.
From(w, i) == {k \in Turns(w) : i <= k}

\* A wake that queues a trace: what it appends.
LEMMA WakeAppends ==
  ASSUME IInv, Ranges, NEW w \in Wrapper, NEW retry \in 0..MaxRetries,
         NEW continuation \in 0..MaxContinuation,
         Wakeup(w, retry, continuation), ~ HasLiveTrace(w)
  PROVE  /\ Len(trace') = Len(trace) + 1 /\ Len(trace) + 1 \notin DOMAIN trace
         /\ DOMAIN trace' = DOMAIN trace \cup {Len(trace) + 1}
         /\ \A i \in DOMAIN trace : trace'[i] = trace[i]
         /\ trace'[Len(trace) + 1].of = w
         /\ trace'[Len(trace) + 1].retry = retry
         /\ trace'[Len(trace) + 1].continuation = continuation
<1> DEFINE rec == Queued(w, retry, continuation)
<1>1. rec \in Rows /\ rec.of = w /\ rec.retry = retry /\ rec.continuation = continuation
  BY RoutineAssumption DEF Queued, Rows, Live
<1>2. trace \in Seq(Rows) /\ trace' = Append(trace, rec)
  BY DEF Wakeup, IInv, WeakTypes
<1> HIDE DEF rec
<1>3. /\ Len(trace') = Len(trace) + 1 /\ Len(trace) \in Nat
      /\ trace'[Len(trace) + 1] = rec
      /\ \A i \in 1..Len(trace) : trace'[i] = trace[i]
      /\ DOMAIN trace = 1..Len(trace) /\ DOMAIN trace' = 1..(Len(trace) + 1)
  <2>1. trace' \in Seq(Rows) /\ Len(trace') = Len(trace) + 1 /\ Len(trace) \in Nat
    BY <1>1, <1>2
  <2> QED BY <1>1, <1>2, <2>1
<1>4. /\ Len(trace) + 1 \notin DOMAIN trace
      /\ DOMAIN trace' = DOMAIN trace \cup {Len(trace) + 1}
  BY <1>3
<1> QED BY <1>1, <1>3, <1>4

\* It keeps the counts, the order and the chains if it is the wrapper's only live one, and
\* counts the failures it follows.
LEMMA AppendStep ==
  ASSUME IInv, Ranges, Newest, Chain,
         NEW w \in Wrapper, NEW retry \in 0..MaxRetries, NEW continuation \in 0..MaxContinuation,
         Wakeup(w, retry, continuation), ~ HasLiveTrace(w),
         \A i \in Trace : /\ work'[i] # "idle" => work[i] # "idle"
                          /\ work'[i] = "continue" => work[i] = "continue",
         \A i \in Turns(w) \cap Trace : work'[i] = "idle",
         \A i \in Turns(w) :
           (\A k \in From(w, i) : trace[k].outcome = "transient")
             => Cardinality(From(w, i)) <= retry
  PROVE  Ranges' /\ Newest' /\ Chain'
<1> DEFINE n == Len(trace) + 1
<1>1. /\ Len(trace') = n /\ n \notin DOMAIN trace /\ DOMAIN trace' = DOMAIN trace \cup {n}
      /\ \A i \in DOMAIN trace : trace'[i] = trace[i]
      /\ trace'[n].of = w /\ trace'[n].retry = retry /\ trace'[n].continuation = continuation
  BY WakeAppends
<1>2. /\ Len(trace) \in Nat /\ DOMAIN trace = 1..Len(trace)
      /\ n \in Int /\ \A i \in DOMAIN trace : i \in Int /\ i < n
  BY Counted
<1>3. PICK m : m = n
  OBVIOUS
<1>4. /\ m \in Int /\ m \notin DOMAIN trace /\ DOMAIN trace' = DOMAIN trace \cup {m}
      /\ \A i \in DOMAIN trace : trace'[i] = trace[i] /\ i \in Int /\ i < m
      /\ trace'[m].of = w /\ trace'[m].retry = retry /\ trace'[m].continuation = continuation
      /\ m = Len(trace) + 1
  BY <1>1, <1>2, <1>3
<1> HIDE DEF n
<1>5. \A i \in Working' : i \in Working /\ i \in DOMAIN trace /\ i # m
  BY <1>4, Counted DEF Working
<1>6. Ranges'
  <2>1. ASSUME NEW i \in Working', work'[i] = "continue"
        PROVE  trace'[i].continuation < MaxContinuation
    <3>1. i \in Working /\ i \in Trace /\ trace'[i] = trace[i]
      BY <1>4, <1>5 DEF Working
    <3> QED BY <2>1, <3>1 DEF Ranges
  <2>2. ASSUME NEW i \in DOMAIN trace'
        PROVE  trace'[i].retry \in 0..MaxRetries /\ trace'[i].continuation \in 0..MaxContinuation
    BY <1>4 DEF Ranges
  <2> QED BY <2>1, <2>2 DEF Ranges
<1>7. ASSUME NEW v \in Wrapper
      PROVE  Turns(v)' = IF v = w THEN Turns(v) \cup {m} ELSE Turns(v)
  <2>1. Turns(v)' = {i \in DOMAIN trace \cup {m} : trace'[i].of = v}
    BY <1>4 DEF Turns
  <2> QED BY <1>4, <2>1 DEF Turns
<1>8. Newest'
  <2> SUFFICES ASSUME NEW i \in DOMAIN trace', NEW v, v = trace'[i].of, Token(i, v)',
                      NEW j \in Turns(v)'
               PROVE  j <= i
    BY DEF Newest
  <2>0. v \in Wrapper /\ j \in Int /\ i \in Int /\ j <= m
    BY <1>4, Counted DEF Turns
  <2>1. CASE i = m
    BY <2>0, <2>1
  <2>2. CASE i # m
    <3>1. i \in DOMAIN trace /\ trace'[i] = trace[i] /\ v = trace[i].of
      BY <1>4, <2>2
    <3>2. Token(i, v)
      BY <1>5, <3>1 DEF Token
    <3>3. v # w
      <4> SUFFICES ASSUME v = w PROVE FALSE
        OBVIOUS
      <4>1. i \in Turns(w)
        BY <3>1 DEF Turns
      <4>2. i \notin Working'
        BY <4>1 DEF Working
      <4>3. trace[i].status \in Live
        BY <3>1, <4>2 DEF Token
      <4> QED BY <3>1, <4>3 DEF HasLiveTrace, LiveTraces
    <3>4. j \in Turns(v)
      BY <1>7, <2>0, <3>3
    <3> QED BY <3>1, <3>2, <3>4 DEF Newest
  <2> QED BY <2>1, <2>2
<1>9. Chain'
  <2> SUFFICES ASSUME NEW v \in Wrapper, NEW i \in Turns(v)', NEW j \in Turns(v)',
                      \A k \in Between(v, i, j)' : trace'[k].outcome = "transient"
               PROVE  Cardinality(Between(v, i, j))' <= trace'[j].retry
    BY DEF Chain
  <2>0. i \in Int /\ j \in Int /\ i <= m /\ j <= m
    <3>1. i \in DOMAIN trace' /\ j \in DOMAIN trace'
      BY DEF Turns
    <3> QED BY <1>4, <3>1
  <2>1. Between(v, i, j)' = {k \in Turns(v)' : i <= k /\ k < j}
    BY DEF Between
  <2>2. Between(v, i, j)' = {k \in Turns(v) : i <= k /\ k < j}
    <3>1. m \notin Between(v, i, j)'
      BY <2>0, <1>4, <2>1
    <3> QED BY <1>7, <2>1, <3>1
  <2>3. \A k \in Between(v, i, j)' : k \in DOMAIN trace /\ trace[k].outcome = "transient"
    BY <1>4, <2>2 DEF Turns
  <2>4. CASE j # m
    <3>1. j \in Turns(v) /\ trace'[j] = trace[j]
      BY <1>4, <1>7, <2>4 DEF Turns
    <3>2. CASE i # m
      <4>1. i \in Turns(v)
        BY <1>7, <3>2
      <4> QED BY <2>2, <2>3, <3>1, <4>1 DEF Chain, Between
    <3>3. CASE i = m
      <4>1. Between(v, i, j)' = {}
        BY <1>4, <2>0, <2>2, <2>4, <3>3 DEF Turns
      <4>2. trace[j].retry \in Nat
        BY <3>1, Counted DEF Turns
      <4> QED BY <3>1, <4>1, <4>2, FS_EmptySet
    <3> QED BY <3>2, <3>3
  <2>5. CASE j = m
    <3>1. v = w
      BY <1>4, <2>5 DEF Turns
    <3>2. Between(v, i, j)' = From(w, i)
      BY <1>4, <2>0, <2>2, <2>5, <3>1 DEF From, Turns
    <3>3. CASE i = m
      <4>1. Between(v, i, j)' = {}
        BY <1>4, <2>0, <2>2, <2>5, <3>3 DEF Turns
      <4> QED BY <1>4, <2>5, <4>1, FS_EmptySet
    <3>4. CASE i # m
      <4>1. i \in Turns(w)
        BY <1>7, <3>1, <3>4
      <4>2. Cardinality(From(w, i)) <= retry
        BY <2>3, <3>2, <4>1
      <4> QED BY <1>4, <2>5, <3>2, <4>2
    <3> QED BY <3>3, <3>4
  <2> QED BY <2>4, <2>5
<1> QED BY <1>6, <1>8, <1>9
-----------------------------------------------------------------------------
(* The budget. *)

\* What is owed grows by what comes to be at work in a turn that stalled or failed.
LEMMA OwedStep ==
  ASSUME IInv, Ranges, NEW D \in SUBSET Owed, Owed' \subseteq D
  PROVE  Cardinality(Owed') \in Nat /\ Cardinality(Owed') <= Cardinality(D)
         /\ Cardinality(D) \in Nat /\ Cardinality(D) <= Cardinality(Owed)
<1>1. IsFiniteSet(D) /\ Cardinality(D) <= Cardinality(Owed)
  BY Counted, FS_Subset
<1>2. IsFiniteSet(Owed') /\ Cardinality(Owed') <= Cardinality(D)
  BY <1>1, FS_Subset
<1> QED BY <1>1, <1>2, FS_CardinalityType

\* A step that ends no turn and makes no trace stays within it.
LEMMA KeepBudget ==
  ASSUME IInv, Ranges, Bounded, Budget, KeepsTraces, MovesOn,
         \A i \in DOMAIN trace : trace'[i].outcome = trace[i].outcome,
         wrapper' \in Seq(Wrappers), troubles' = troubles,
         Len(wrapper) + Fresh' <= Len(wrapper') + Fresh
  PROVE  Budget'
<1>1. Owed' \subseteq Owed
  <2> SUFFICES ASSUME NEW i \in Owed' PROVE i \in Owed
    OBVIOUS
  <2>1. i \in Trace /\ work'[i] # "idle"
    BY DEF Owed, Working
  <2>2. work[i] # "idle"
    BY <2>1 DEF Owed, MovesOn, After
  <2>3. i \in Working /\ i \in DOMAIN trace
    BY <2>1, <2>2, Counted DEF Working
  <2> QED BY <2>1, <2>3 DEF Owed, MovesOn
<1>2. Cardinality(Owed') \in Nat /\ Cardinality(Owed') <= Cardinality(Owed)
  BY <1>1, OwedStep
<1>3. /\ Len(trace) \in Nat /\ Len(trace') = Len(trace) /\ Len(wrapper) \in Nat
      /\ Len(wrapper') \in Nat /\ Fresh \in Int /\ Fresh' \in Int /\ troubles \in Int
      /\ Cardinality(Owed) \in Nat
  BY Counted DEF KeepsTraces, Fresh, Bounded
<1> QED BY <1>2, <1>3 DEF Budget

\* A turn that ends adds to what is owed what it adds to the troubles.
LEMMA AnswerBudget ==
  ASSUME IInv, Ranges, Bounded, Budget, NEW i \in Trace,
         NEW o \in Accepted \cup Stalled \cup Failed, Answer(i, o)
  PROVE  Budget'
<1> SUFFICES Cardinality(Owed') \in Nat
             /\ Cardinality(Owed') <= Cardinality(Owed) + (troubles' - troubles)
  <2>1. /\ Len(trace) \in Nat /\ Len(trace') = Len(trace) /\ Len(wrapper) \in Nat
        /\ wrapper' = wrapper /\ Fresh \in Int /\ Fresh' = Fresh /\ troubles \in Int
        /\ troubles' \in Int /\ Cardinality(Owed) \in Nat
    <3>1. trace \in Seq(Rows)
      BY DEF IInv, WeakTypes
    <3>2. i \in DOMAIN trace
      BY Counted DEF Answer, Working
    <3>3. Len(trace') = Len(trace)
      BY <3>1, <3>2 DEF Answer
    <3> QED BY <3>3, Counted DEF Answer, Fresh, Bounded
  <2> QED BY <2>1 DEF Budget
<1>1. /\ work[i] = "ask" /\ i \in Working /\ i \in DOMAIN trace /\ trace \in Seq(Rows)
      /\ work \in [Trace -> Pcs] /\ troubles \in Int
  BY Counted DEF Answer, Working, IInv, WeakTypes, Pcs, Bounded
<1>2. /\ trace' = [trace EXCEPT ![i].status = IF o \in Failed THEN "failed" ELSE "succeeded",
                                ![i].outcome = o]
      /\ work' = [work EXCEPT ![i] = IF o \in Failed THEN "retry" ELSE "sync"]
      /\ troubles' = IF o \in Stalled \cup {"transient"} THEN troubles + 1 ELSE troubles
  BY DEF Answer, At
<1>3. /\ \A j \in DOMAIN trace \ {i} : trace'[j] = trace[j]
      /\ trace'[i].outcome = o
      /\ work'[i] = IF o \in Failed THEN "retry" ELSE "sync"
      /\ \A j \in Trace \ {i} : work'[j] = work[j]
      /\ i \notin Owed
  <2>1. trace[i] \in Rows
    BY <1>1
  <2>2. trace'[i].outcome = o
    BY <1>1, <1>2, <2>1 DEF Rows
  <2> QED BY <1>1, <1>2, <2>2 DEF Owed, After
<1>4. \A j \in Trace \ {i} : j \in Owed' => j \in Owed
  <2> SUFFICES ASSUME NEW j \in Trace \ {i}, j \in Owed' PROVE j \in Owed
    OBVIOUS
  <2>1. j \in Working /\ work'[j] = work[j]
    BY <1>3 DEF Owed, Working
  <2>2. trace'[j] = trace[j]
    BY <1>3, <2>1, Counted
  <2> QED BY <2>1, <2>2 DEF Owed
<1>5. CASE o \in Stalled \cup {"transient"}
  <2>1. Owed' \subseteq Owed \cup {i}
    BY <1>4 DEF Owed, Working
  <2>2. IsFiniteSet(Owed \cup {i}) /\ Cardinality(Owed \cup {i}) = Cardinality(Owed) + 1
    BY <1>3, Counted, FS_AddElement
  <2>3. IsFiniteSet(Owed') /\ Cardinality(Owed') <= Cardinality(Owed) + 1
    BY <2>1, <2>2, FS_Subset
  <2>4. Cardinality(Owed') \in Nat
    BY <2>3, FS_CardinalityType
  <2>5. troubles' - troubles = 1
    BY <1>1, <1>2, <1>5
  <2> QED BY <2>3, <2>4, <2>5
<1>6. CASE o \notin Stalled \cup {"transient"}
  <2>1. i \notin Owed'
    BY <1>3, <1>6 DEF Owed, After, Failed
  <2>2. Owed' \subseteq Owed
    BY <1>4, <2>1 DEF Owed, Working
  <2>3. Cardinality(Owed') \in Nat /\ Cardinality(Owed') <= Cardinality(Owed)
    BY <2>2, OwedStep
  <2>4. troubles' - troubles = 0
    BY <1>1, <1>2, <1>6
  <2> QED BY <2>3, <2>4, Counted
<1> QED BY <1>5, <1>6
-----------------------------------------------------------------------------
(* The actions. *)

\* A step that writes no outcome besides.
Frame == /\ KeepsTraces /\ MovesOn
         /\ \A i \in DOMAIN trace : trace'[i].outcome = trace[i].outcome

\* A write of statuses none of which was not live and is.
LEMMA StatusFrame ==
  ASSUME IInv, Ranges, MovesOn, NEW S, S \subseteq DOMAIN trace,
         NEW status \in Live \cup {"succeeded", "failed", "cancelled"},
         status \in Live => \A i \in S : trace[i].status \in Live,
         trace' = [i \in DOMAIN trace |-> IF i \in S THEN [trace[i] EXCEPT !.status = status]
                                          ELSE trace[i]]
  PROVE  Frame
<1>1. DOMAIN trace' = DOMAIN trace /\ Len(trace') = Len(trace)
  <2>1. trace \in Seq(Rows) /\ Len(trace) \in Nat /\ DOMAIN trace = 1..Len(trace)
    BY DEF IInv, WeakTypes
  <2> DEFINE row(i) == IF i \in S THEN [trace[i] EXCEPT !.status = status] ELSE trace[i]
  <2>2. trace' = [i \in 1..Len(trace) |-> row(i)]
    BY <2>1
  <2> HIDE DEF row
  <2> QED BY <2>1, <2>2
<1>2. ASSUME NEW i \in DOMAIN trace
      PROVE  /\ trace'[i].of = trace[i].of
             /\ trace'[i].retry = trace[i].retry
             /\ trace'[i].continuation = trace[i].continuation
             /\ trace'[i].outcome = trace[i].outcome
             /\ trace'[i].status \in Live => trace[i].status \in Live
  <2>1. trace[i] \in Rows
    BY Counted
  <2>2. CASE i \in S
    <3>1. trace'[i] = [trace[i] EXCEPT !.status = status]
      BY <2>2
    <3> QED BY <2>1, <2>2, <3>1 DEF Rows
  <2>3. CASE i \notin S
    <3>1. trace'[i] = trace[i]
      BY <2>3
    <3> QED BY <3>1
  <2> QED BY <2>2, <2>3
<1> QED BY <1>1, <1>2 DEF Frame, KeepsTraces

\* The status of one trace.
LEMMA OneStatusFrame ==
  ASSUME IInv, Ranges, MovesOn, NEW i \in DOMAIN trace,
         NEW status \in {"succeeded", "failed", "cancelled"},
         trace' = [trace EXCEPT ![i].status = status]
  PROVE  Frame
<1>1. trace' = [j \in DOMAIN trace |-> IF j \in {i} THEN [trace[j] EXCEPT !.status = status]
                                       ELSE trace[j]]
  OBVIOUS
<1>2. status \notin Live
  BY DEF Live
<1> QED BY <1>1, <1>2, StatusFrame

\* The actions that make no trace and end no turn.
LEMMA WorkFrames ==
  ASSUME IInv, Ranges, NEW i \in Trace,
         \/ Start(i) \/ SyncSucceeded(i) \/ Delegate(i) \/ LookForContinuation(i)
         \/ SyncFailed(i) \/ Park(i) \/ CallThrows(i)
  PROVE  Frame
<1>1. trace' = trace
  BY DEF Start, SyncSucceeded, Delegate, LookForContinuation, SyncFailed, Park, CallThrows
<1>2. work \in [Trace -> Pcs]
  BY DEF IInv, WeakTypes, Pcs
<1>3. PICK pc : /\ At(i, pc) /\ work[i] # "idle" /\ pc # "retry"
                /\ pc = "continue" => NudgesLeft(i)
                /\ pc \in {"sync", "delegate"} => work[i] \in {"sync", "delegate"}
                /\ pc \in {"nudge", "continue"} =>
                     \/ work[i] \in {"nudge", "continue"}
                     \/ work[i] = "delegate" /\ trace[i].outcome \in Stalled
  <2>1. CASE Start(i)
    BY <2>1 DEF Start
  <2>2. CASE SyncSucceeded(i)
    BY <2>2 DEF SyncSucceeded
  <2>3. CASE Delegate(i)
    BY <2>3 DEF Delegate, Nudged
  <2>4. CASE LookForContinuation(i)
    BY <2>4 DEF LookForContinuation
  <2>5. CASE SyncFailed(i)
    BY <2>5 DEF SyncFailed
  <2>6. CASE Park(i)
    BY <2>6 DEF Park
  <2>7. CASE CallThrows(i)
    BY <2>7 DEF CallThrows, Nudged
  <2> QED BY <2>1, <2>2, <2>3, <2>4, <2>5, <2>6, <2>7
<1>4. work'[i] = pc /\ \A j \in Trace \ {i} : work'[j] = work[j]
  BY <1>2, <1>3 DEF At
<1>5. MovesOn
  BY <1>3, <1>4 DEF MovesOn, TakesUp, NudgesLeft
<1> QED BY <1>1, <1>5 DEF Frame, KeepsTraces

LEMMA EndFrames ==
  ASSUME IInv, Ranges, NEW i \in Trace, GiveUp(i) \/ CancelTrace(i)
  PROVE  Frame
<1>1. work \in [Trace -> Pcs]
  BY DEF IInv, WeakTypes, Pcs
<1>2. MovesOn
  <2>1. CASE GiveUp(i)
    <3>1. work'[i] = "idle" /\ \A j \in Trace \ {i} : work'[j] = work[j]
      BY <1>1, <2>1 DEF GiveUp, At
    <3> QED BY <3>1 DEF MovesOn, TakesUp, After
  <2>2. CASE CancelTrace(i)
    BY <2>2 DEF CancelTrace, MovesOn, TakesUp
  <2> QED BY <2>1, <2>2
<1>3. i \in DOMAIN trace
  <2>1. GiveUp(i) => i \in Working
    BY DEF GiveUp, Working
  <2> QED BY <2>1, Counted DEF CancelTrace
<1> QED BY <1>2, <1>3, OneStatusFrame DEF GiveUp, CancelTrace

LEMMA ClaimFrame ==
  ASSUME IInv, Ranges, NEW B \in SUBSET Trace, Claim(B)
  PROVE  Frame
<1>1. \A i \in B : i \in DOMAIN trace /\ trace[i].status \in Live
  BY DEF Claim, Live
<1>2. \A i \in Trace : work'[i] = IF i \in B THEN "start" ELSE "idle"
  BY DEF Claim
<1>3. MovesOn
  BY <1>1, <1>2 DEF MovesOn, TakesUp, After
<1> QED BY <1>1, <1>3, StatusFrame DEF Claim, Live

LEMMA BootFrame ==
  ASSUME IInv, Ranges, ServerBoot
  PROVE  Frame
<1> DEFINE S == {i \in DOMAIN trace : trace[i].status = "running"}
<1>1. MovesOn
  BY DEF MovesOn, TakesUp, ServerBoot
<1>2. trace' = [i \in DOMAIN trace |-> IF i \in S THEN [trace[i] EXCEPT !.status = "failed"]
                                       ELSE trace[i]]
  BY DEF ServerBoot
<1> QED BY <1>1, <1>2, StatusFrame DEF Live

LEMMA QuietFrame ==
  ASSUME trace' = trace, work' = work \/ work' = [i \in Trace |-> "idle"]
  PROVE  Frame
<1>1. MovesOn
  BY DEF MovesOn, TakesUp, After
<1> QED BY <1>1 DEF Frame, KeepsTraces
-----------------------------------------------------------------------------
(* The steps that are no frames: a turn that ends, and the wakes. *)

Order == Ranges /\ Newest /\ Chain

\* What is at work is the last turn of its wrapper, and nothing else of it is.
LEMMA LastTurn ==
  ASSUME IInv, Order, NEW i \in Trace, work[i] # "idle"
  PROVE  /\ i \in Working /\ i \in DOMAIN trace /\ i \in Turns(trace[i].of)
         /\ trace[i].of \in Wrapper
         /\ \A j \in Turns(trace[i].of) : j \in Int /\ j <= i /\ (j \in Working => j = i)
<1>1. /\ i \in Working /\ i \in DOMAIN trace /\ trace[i].of \in Wrapper /\ i \in Int
      /\ Token(i, trace[i].of) /\ DOMAIN trace \subseteq Int
  BY Counted, AtWork DEF Order
<1>2. PICK w : w = trace[i].of
  OBVIOUS
<1>3. ASSUME NEW j \in Turns(w)
      PROVE  j \in Int /\ j <= i /\ (j \in Working => j = i)
  <2>1. j \in DOMAIN trace /\ trace[j].of = w /\ j <= i
    BY <1>1, <1>2 DEF Turns, Order, Newest
  <2>2. ASSUME j \in Working PROVE i <= j
    <3>1. Token(j, w) /\ i \in Turns(w)
      BY <1>1, <1>2, <2>1, <2>2 DEF Token, Turns
    <3> QED BY <2>1, <3>1 DEF Order, Newest
  <2> QED BY <1>1, <2>1, <2>2
<1> QED BY <1>1, <1>2, <1>3 DEF Turns

LEMMA AnswerStep ==
  ASSUME IInv, Order, Bounded, Budget, NEW i \in Trace,
         NEW o \in Accepted \cup Stalled \cup Failed, Answer(i, o)
  PROVE  Order' /\ Budget'
<1>1. i \in DOMAIN trace /\ i \in Working /\ work \in [Trace -> Pcs] /\ work[i] = "ask"
  BY LastTurn DEF Answer, IInv, WeakTypes, Pcs
<1>2. work'[i] \in {"retry", "sync"} /\ \A j \in Trace \ {i} : work'[j] = work[j]
  BY <1>1 DEF Answer, At
<1>3. trace' = [trace EXCEPT ![i].status = IF o \in Failed THEN "failed" ELSE "succeeded",
                             ![i].outcome = o]
  BY DEF Answer
<1>4. trace \in Seq(Rows) /\ trace[i] \in Rows
  BY <1>1 DEF IInv, WeakTypes
<1>5. KeepsTraces
  <2>1. Len(trace') = Len(trace) /\ DOMAIN trace' = DOMAIN trace
    BY <1>1, <1>3, <1>4
  <2>2. \A j \in DOMAIN trace \ {i} : trace'[j] = trace[j]
    BY <1>3
  <2>3. /\ trace'[i].of = trace[i].of /\ trace'[i].retry = trace[i].retry
        /\ trace'[i].continuation = trace[i].continuation /\ trace'[i].status \notin Live
    BY <1>1, <1>3, <1>4 DEF Rows, Live
  <2> QED BY <2>1, <2>2, <2>3 DEF KeepsTraces
<1>6. \A j \in DOMAIN trace : trace'[j].outcome = trace[j].outcome \/ Token(j, trace[j].of)
  BY <1>1, <1>3 DEF Token
<1>7. TakesUp
  BY <1>1, <1>2 DEF TakesUp
<1>8. Order'
  <2>1. Ranges' /\ Newest' /\ Chain'
    BY <1>5, <1>6, <1>7, KeepStep DEF Order
  <2> QED BY <2>1 DEF Order
<1>9. Budget'
  BY AnswerBudget DEF Order
<1> QED BY <1>8, <1>9
\* A wake that a live trace takes in, of a work that is at its end.
LEMMA CoalescedFrame ==
  ASSUME IInv, Ranges, NEW i \in Trace, work[i] # "idle", NEW pc \in {"idle", "fail"}, At(i, pc),
         trace' = trace
  PROVE  Frame
<1>1. work \in [Trace -> Pcs]
  BY DEF IInv, WeakTypes, Pcs
<1>2. work'[i] = pc /\ \A j \in Trace \ {i} : work'[j] = work[j]
  BY <1>1 DEF At
<1>3. MovesOn
  BY <1>2 DEF MovesOn, TakesUp
<1> QED BY <1>3 DEF Frame, KeepsTraces

\* A wake that queues a trace uses up what the trace it follows is owed.
LEMMA AppendBudget ==
  ASSUME IInv, Ranges, Bounded, Budget, NEW i \in Owed,
         Len(trace') = Len(trace) + 1, \A j \in DOMAIN trace : trace'[j] = trace[j],
         \A j \in Trace \ {i} : work'[j] = work[j], work'[i] = "idle",
         UNCHANGED <<wrapper, firing, troubles>>
  PROVE  Budget'
<1>1. i \in Working /\ i \in Trace /\ i \in DOMAIN trace
  BY Counted DEF Owed, Working
<1>2. Owed' \subseteq Owed \ {i}
  <2> SUFFICES ASSUME NEW j \in Owed' PROVE j \in Owed \ {i}
    OBVIOUS
  <2>1. j \in Trace /\ work'[j] # "idle" /\ j # i
    BY DEF Owed, Working
  <2>2. work'[j] = work[j] /\ j \in Working /\ j \in DOMAIN trace
    BY <2>1, Counted DEF Working
  <2> QED BY <2>1, <2>2 DEF Owed
<1>3. Cardinality(Owed \ {i}) = Cardinality(Owed) - 1
  BY Counted, FS_RemoveElement
<1>4. Owed \ {i} \in SUBSET Owed
  OBVIOUS
<1>5. Cardinality(Owed') \in Nat /\ Cardinality(Owed') <= Cardinality(Owed) - 1
  BY <1>2, <1>3, <1>4, OwedStep
<1>6. /\ Len(trace) \in Nat /\ Len(wrapper) \in Nat /\ wrapper' = wrapper /\ Fresh \in Int
      /\ Fresh' = Fresh /\ troubles \in Int /\ troubles' = troubles /\ Cardinality(Owed) \in Nat
  BY Counted DEF Fresh, Bounded
<1> QED BY <1>5, <1>6 DEF Budget

LEMMA ContinueStep ==
  ASSUME IInv, Order, Bounded, Budget, NEW i \in Trace, Continue(i)
  PROVE  Order' /\ Budget'
<1> USE DEF Order
<1>1. /\ work[i] = "continue" /\ work[i] # "idle" /\ At(i, "idle")
      /\ Wakeup(trace[i].of, 0, trace[i].continuation + 1)
      /\ UNCHANGED <<wrapper, firing, troubles>>
  BY DEF Continue, bounds
<1>2. PICK w : w = trace[i].of
  OBVIOUS
<1>3. /\ i \in Working /\ i \in DOMAIN trace /\ i \in Turns(w) /\ w \in Wrapper
      /\ \A j \in Turns(w) : j \in Int /\ j <= i /\ (j \in Working => j = i)
  BY <1>1, <1>2, LastTurn
<1>4. PICK c : c = trace[i].continuation + 1 /\ c \in 0..MaxContinuation /\ 0 \in 0..MaxRetries
  BY <1>1, <1>3, RoutineAssumption DEF Ranges
<1>5. Wakeup(w, 0, c)
  BY <1>1, <1>2, <1>4
<1>6. CASE HasLiveTrace(w)
  <2>1. trace' = trace
    BY <1>5, <1>6 DEF Wakeup
  <2>2. Frame
    BY <1>1, <2>1, CoalescedFrame
  <2>3. wrapper' \in Seq(Wrappers) /\ Fresh' = Fresh /\ Len(wrapper') = Len(wrapper)
        /\ Fresh \in Int /\ Len(wrapper) \in Int
    BY <1>1, Counted DEF IInv, WeakTypes, Fresh
  <2>4. Budget'
    BY <1>1, <2>2, <2>3, KeepBudget DEF Frame
  <2>5. Ranges' /\ Newest' /\ Chain'
    BY <2>2, KeepStep DEF Frame, MovesOn
  <2> QED BY <2>4, <2>5
<1>7. CASE ~ HasLiveTrace(w)
  <2>1. work'[i] = "idle" /\ \A j \in Trace \ {i} : work'[j] = work[j]
    BY <1>1 DEF IInv, WeakTypes, At
  <2>2. trace[i].outcome \in Accepted \cup Stalled /\ trace[i].outcome # "transient"
    BY <1>1, <1>3 DEF IInv, Outcomes, After, Accepted, Stalled
  <2>3. \A j \in Turns(w) \cap Trace : work'[j] = "idle"
    BY <1>3, <2>1 DEF Working
  <2>4. \A j \in Turns(w) : i \in From(w, j)
    BY <1>3 DEF From
  <2>5. Ranges' /\ Newest' /\ Chain'
    BY <1>3, <1>4, <1>5, <1>7, <2>1, <2>2, <2>3, <2>4, AppendStep
  <2>6. Len(trace') = Len(trace) + 1 /\ \A j \in DOMAIN trace : trace'[j] = trace[j]
    BY <1>3, <1>4, <1>5, <1>7, WakeAppends
  <2>7. i \in Owed
    BY <1>1, <1>3 DEF Owed
  <2>8. Budget'
    BY <1>1, <2>1, <2>6, <2>7, AppendBudget
  <2> QED BY <2>5, <2>8
<1> QED BY <1>6, <1>7
LEMMA RetryStep ==
  ASSUME IInv, Order, Bounded, Budget, NEW i \in Trace, Retry(i)
  PROVE  Order' /\ Budget'
<1> USE DEF Order
<1>1. /\ work[i] = "retry" /\ work[i] # "idle" /\ UNCHANGED <<wrapper, firing, troubles>>
      /\ At(i, IF Retried(i) THEN "idle" ELSE "fail")
  BY DEF Retry, bounds
<1>2. PICK w : w = trace[i].of
  OBVIOUS
<1>3. /\ i \in Working /\ i \in DOMAIN trace /\ i \in Turns(w) /\ w \in Wrapper
      /\ \A j \in Turns(w) : j \in Int /\ j <= i /\ (j \in Working => j = i)
  BY <1>1, <1>2, LastTurn
<1>4. CASE ~ RetriesLeft(i) \/ HasLiveTrace(w)
  <2>1. trace' = trace /\ At(i, "fail")
    BY <1>1, <1>2, <1>4 DEF Retry, Wakeup, Retried
  <2>2. Frame
    BY <1>1, <2>1, CoalescedFrame
  <2>3. wrapper' \in Seq(Wrappers) /\ Fresh' = Fresh /\ Len(wrapper') = Len(wrapper)
        /\ Fresh \in Int /\ Len(wrapper) \in Int
    BY <1>1, Counted DEF IInv, WeakTypes, Fresh
  <2>4. Budget'
    BY <1>1, <2>2, <2>3, KeepBudget DEF Frame
  <2>5. Ranges' /\ Newest' /\ Chain'
    BY <2>2, KeepStep DEF Frame, MovesOn
  <2> QED BY <2>4, <2>5
<1>5. CASE RetriesLeft(i) /\ ~ HasLiveTrace(w)
  <2>1. At(i, "idle") /\ trace[i].outcome = "transient" /\ trace[i].retry < MaxRetries
    BY <1>1, <1>2, <1>5 DEF Retried, RetriesLeft
  <2>2. work'[i] = "idle" /\ \A j \in Trace \ {i} : work'[j] = work[j]
    BY <2>1 DEF IInv, WeakTypes, At
  <2>3. PICK r : r = trace[i].retry + 1 /\ r \in 0..MaxRetries /\ 0 \in 0..MaxContinuation
    BY <1>3, <2>1, RoutineAssumption DEF Ranges
  <2>4. Wakeup(w, r, 0)
    BY <1>2, <1>5, <2>3 DEF Retry
  <2>5. \A j \in Turns(w) \cap Trace : work'[j] = "idle"
    BY <1>3, <2>2 DEF Working
  <2>6. ASSUME NEW j \in Turns(w), \A k \in From(w, j) : trace[k].outcome = "transient"
        PROVE  Cardinality(From(w, j)) <= r
    <3>1. From(w, j) = Between(w, j, i) \cup {i} /\ i \notin Between(w, j, i)
      BY <1>3 DEF From, Between
    <3>2. Cardinality(Between(w, j, i)) <= trace[i].retry
      BY <1>3, <2>6, <3>1 DEF Chain
    <3>3. IsFiniteSet(Between(w, j, i)) /\ Cardinality(Between(w, j, i)) \in Nat
      BY <1>3, BetweenFinite
    <3>4. Cardinality(From(w, j)) = Cardinality(Between(w, j, i)) + 1
      BY <3>1, <3>3, FS_AddElement
    <3>5. trace[i].retry \in Nat
      BY <1>3, Counted
    <3> QED BY <2>3, <3>2, <3>3, <3>4, <3>5
  <2>7. Ranges' /\ Newest' /\ Chain'
    BY <1>3, <1>5, <2>2, <2>3, <2>4, <2>5, <2>6, AppendStep
  <2>8. Len(trace') = Len(trace) + 1 /\ \A j \in DOMAIN trace : trace'[j] = trace[j]
    BY <1>3, <1>5, <2>3, <2>4, WakeAppends
  <2>9. i \in Owed
    BY <1>1, <1>3, <2>1 DEF Owed
  <2>10. Budget'
    BY <1>1, <2>2, <2>8, <2>9, AppendBudget
  <2> QED BY <2>7, <2>10
<1> QED BY <1>4, <1>5

LEMMA FireWakeCounts ==
  ASSUME IInv, Order, Bounded, Budget, FireWake
  PROVE  Order' /\ Budget'
<1> USE DEF Order
<1>1. /\ firing = "created" /\ firing' = "idle" /\ UNCHANGED <<wrapper, work, troubles>>
      /\ Wakeup(Len(wrapper), 0, 0)
  BY DEF FireWake, bounds
<1>2. PICK w : w = Len(wrapper)
  OBVIOUS
<1>3. w \in Wrapper /\ Turns(w) = {} /\ 0 \in 0..MaxRetries /\ 0 \in 0..MaxContinuation
  BY <1>1, <1>2, RoutineAssumption DEF IInv, FreshWrapper, WeakTypes, Created, Wrapper, Turns
<1>4. /\ Fresh = 1 /\ Fresh' = 0 /\ wrapper' = wrapper /\ wrapper' \in Seq(Wrappers)
      /\ Len(wrapper) \in Nat /\ Len(trace) \in Nat /\ troubles \in Int
      /\ Cardinality(Owed) \in Nat
  BY <1>1, Counted DEF Fresh, IInv, WeakTypes, Bounded
<1>5. CASE HasLiveTrace(w)
  <2>1. trace' = trace
    BY <1>1, <1>2, <1>5 DEF Wakeup
  <2>2. Frame
    BY <1>1, <2>1, QuietFrame
  <2>3. Budget'
    BY <1>1, <1>4, <2>2, KeepBudget DEF Frame
  <2>4. Ranges' /\ Newest' /\ Chain'
    BY <2>2, KeepStep DEF Frame, MovesOn
  <2> QED BY <2>3, <2>4
<1>6. CASE ~ HasLiveTrace(w)
  <2>1. Ranges' /\ Newest' /\ Chain'
    <3>1. \A i \in Turns(w) \cap Trace : work'[i] = "idle"
      BY <1>3
    <3>2. \A i \in Turns(w) : (\A k \in From(w, i) : trace[k].outcome = "transient")
                                => Cardinality(From(w, i)) <= 0
      BY <1>3
    <3> QED BY <1>1, <1>2, <1>3, <1>6, <3>1, <3>2, AppendStep
  <2>2. Len(trace') = Len(trace) + 1 /\ \A j \in DOMAIN trace : trace'[j] = trace[j]
    BY <1>1, <1>2, <1>3, <1>6, WakeAppends
  <2>3. Owed' \subseteq Owed
    <3> SUFFICES ASSUME NEW j \in Owed' PROVE j \in Owed
      OBVIOUS
    <3>1. j \in Working /\ j \in DOMAIN trace /\ work' = work
      BY <1>1, Counted DEF Owed, Working
    <3> QED BY <2>2, <3>1 DEF Owed
  <2>4. Cardinality(Owed') \in Nat /\ Cardinality(Owed') <= Cardinality(Owed)
    BY <2>3, OwedStep
  <2>5. Budget'
    BY <1>1, <1>4, <2>2, <2>4 DEF Budget
  <2> QED BY <2>1, <2>5
<1> QED BY <1>5, <1>6
-----------------------------------------------------------------------------
(* The bounds. *)

\* The wrapper just created, and those of the traces, are wrappers.
LEMMA SleepersAreWrappers ==
  ASSUME IInv, Ranges
  PROVE  /\ \A i \in Working : trace[i].of \in Wrapper
         /\ firing = "created" => Len(wrapper) \in Wrapper
         /\ \A i \in Trace : work[i] # "idle" => trace[i].of \in Wrapper
<1>1. \A i \in Trace : work[i] # "idle" => i \in Working
  BY DEF Working
<1> QED BY <1>1, Counted, RoutineAssumption
        DEF IInv, FreshWrapper, WeakTypes, Created, Wrapper

LEMMA BoundedStep ==
  ASSUME IInv, Ranges, Bounded, [Next]_vars
  PROVE  Bounded'
<1> USE RoutineAssumption DEF Bounded
<1>0. /\ \A i \in Working : trace[i].of \in Wrapper
      /\ firing = "created" => Len(wrapper) \in Wrapper
      /\ \A i \in Trace : work[i] # "idle" => trace[i].of \in Wrapper
      /\ \A i \in DOMAIN trace : trace[i].of \in Wrapper
  BY SleepersAreWrappers, Counted
<1>1. CASE SlotComesDue \/ ClaimTrigger \/ CreateWrapper \/ FireWake
  <2>1. UNCHANGED <<asleep, nudged, bounds>> /\ slots' \in 0..MaxFires
    BY <1>1 DEF SlotComesDue, ClaimTrigger, CreateWrapper, FireWake
  <2>2. due' \in BOOLEAN
    BY <1>1, Zenon DEF SlotComesDue, ClaimTrigger, DueMoved, CreateWrapper, FireWake
  <2> QED BY <2>1, <2>2, Zenon DEF bounds
<1>2. CASE FireThrows
  BY <1>0, <1>2 DEF FireThrows, Fault
<1>3. ASSUME NEW w \in Wrapper,
             \/ Reap(w) \/ Cascade(w) \/ Sweep(w) \/ ServerStart(w)
             \/ \E s \in {"done", "review", "error"} : ServerFinish(w, s)
      PROVE  Bounded'
  BY <1>3 DEF Reap, Cascade, Sweep, ServerStart, ServerFinish, bounds
<1>4. ASSUME NEW B \in SUBSET Trace, Claim(B) PROVE Bounded'
  BY <1>4 DEF Claim, bounds
<1>5. ASSUME NEW i \in Trace,
             \/ Start(i) \/ SyncSucceeded(i) \/ Continue(i) \/ Retry(i) \/ SyncFailed(i) \/ Park(i)
      PROVE  Bounded'
  BY <1>5 DEF Start, SyncSucceeded, Continue, Retry, SyncFailed, Park, bounds
<1>6. ASSUME NEW i \in Trace, Delegate(i) \/ LookForContinuation(i) PROVE Bounded'
  <2>1. /\ trace[i].of \in Wrapper /\ nudged' = nudged /\ asleep' \subseteq asleep \cup {trace[i].of}
        /\ UNCHANGED <<slots, due, bounds>>
    BY <1>0, <1>6 DEF Delegate, LookForContinuation
  <2> QED BY <2>1 DEF bounds
<1>7. ASSUME NEW i \in Trace, GiveUp(i) \/ CallThrows(i) PROVE Bounded'
  <2>1. /\ trace[i].of \in Wrapper /\ nudged' = nudged /\ asleep' = asleep \cup {trace[i].of}
        /\ UNCHANGED <<slots, due>> /\ Fault
    BY <1>0, <1>7 DEF GiveUp, CallThrows
  <2> QED BY <2>1 DEF Fault
<1>8. ASSUME NEW i \in Trace, NEW o \in Accepted \cup Stalled \cup Failed, Answer(i, o)
      PROVE  Bounded'
  <2>1. /\ trace[i].of \in Wrapper /\ nudged' \subseteq nudged \cup {trace[i].of}
        /\ UNCHANGED <<slots, due, asleep, faults, requests>>
        /\ troubles' \in {troubles, troubles + 1} /\ troubles' <= MaxTroubles
    BY <1>0, <1>8 DEF Answer
  <2> QED BY <2>1
<1>9. CASE ServerBoot
  BY <1>9 DEF ServerBoot, Fault
<1>10. CASE WorkerCrash
  <2>1. asleep' \subseteq Wrapper
    <3>1. {trace[i].of : i \in Working} \subseteq Wrapper
      BY <1>0
    <3>2. (IF firing = "created" THEN {Len(wrapper)} ELSE {}) \subseteq Wrapper
      BY <1>0
    <3> QED BY <1>10, <3>1, <3>2 DEF WorkerCrash
  <2> QED BY <1>10, <2>1 DEF WorkerCrash, Fault
<1>11. ASSUME NEW i \in Trace, CancelTrace(i) PROVE Bounded'
  <2>1. /\ trace[i].of \in Wrapper /\ nudged' = nudged /\ asleep' \subseteq asleep \cup {trace[i].of}
        /\ UNCHANGED <<slots, due>> /\ Request
    BY <1>0, <1>11 DEF CancelTrace
  <2> QED BY <2>1 DEF Request
<1>12. ASSUME NEW w \in Wrapper, UserDone(w) PROVE Bounded'
  BY <1>12 DEF UserDone, Request
<1>13. CASE UNCHANGED vars
  BY <1>13 DEF vars, bounds
<1> QED BY <1>1, <1>2, <1>3, <1>4, <1>5, <1>6, <1>7, <1>8, <1>9, <1>10, <1>11, <1>12, <1>13
        DEF Next, Scheduler, Dispatcher, Server, Step

\* Every step that neither ends a turn nor wakes a wrapper is a frame.
LEMMA Frames ==
  ASSUME IInv, Ranges, [Next]_vars,
         ~ FireWake,
         \A i \in Trace : /\ ~ Continue(i) /\ ~ Retry(i)
                          /\ \A o \in Accepted \cup Stalled \cup Failed : ~ Answer(i, o)
  PROVE  Frame /\ troubles' = troubles
<1>1. CASE Scheduler \/ UNCHANGED vars
  <2>1. trace' = trace /\ work' = work /\ troubles' = troubles
    BY <1>1 DEF Scheduler, SlotComesDue, ClaimTrigger, CreateWrapper, FireThrows, Reap, Fault,
                bounds, vars
  <2> QED BY <2>1, QuietFrame
<1>2. ASSUME NEW B \in SUBSET Trace, Claim(B) PROVE Frame /\ troubles' = troubles
  BY <1>2, ClaimFrame DEF Claim, bounds
<1>3. ASSUME NEW i \in Trace, Step(i) \/ CallThrows(i) PROVE Frame /\ troubles' = troubles
  <2>1. \/ Start(i) \/ SyncSucceeded(i) \/ Delegate(i) \/ LookForContinuation(i)
        \/ SyncFailed(i) \/ Park(i) \/ CallThrows(i)
    BY <1>3 DEF Step
  <2>2. troubles' = troubles
    BY <2>1 DEF Start, SyncSucceeded, Delegate, LookForContinuation, SyncFailed, Park, CallThrows,
                Fault, bounds
  <2> QED BY <2>1, <2>2, WorkFrames
<1>4. ASSUME NEW i \in Trace, GiveUp(i) \/ CancelTrace(i) PROVE Frame /\ troubles' = troubles
  BY <1>4, EndFrames DEF GiveUp, CancelTrace, Fault, Request
<1>5. ASSUME NEW w \in Wrapper,
             \/ Cascade(w) \/ Sweep(w) \/ ServerStart(w) \/ UserDone(w)
             \/ \E s \in {"done", "review", "error"} : ServerFinish(w, s)
      PROVE  Frame /\ troubles' = troubles
  <2>1. trace' = trace /\ work' = work /\ troubles' = troubles
    BY <1>5 DEF Cascade, Sweep, ServerStart, ServerFinish, UserDone, Request, bounds
  <2> QED BY <2>1, QuietFrame
<1>6. CASE ServerBoot
  BY <1>6, BootFrame DEF ServerBoot, Fault
<1>7. CASE WorkerCrash
  BY <1>7, QuietFrame DEF WorkerCrash, Fault
<1> QED BY <1>1, <1>2, <1>3, <1>4, <1>5, <1>6, <1>7 DEF Next, Dispatcher, Server

\* A wrapper that comes to be is fresh; nothing else is but through a wake.
LEMMA Freshness ==
  ASSUME IInv, [Next]_vars, ~ FireWake
  PROVE  Len(wrapper) + Fresh' <= Len(wrapper') + Fresh
<1>1. Len(wrapper) \in Nat /\ wrapper \in Seq(Wrappers)
  BY DEF IInv, WeakTypes
<1>2. CASE CreateWrapper
  <2>1. Len(wrapper') = Len(wrapper) + 1 /\ Fresh' = 1 /\ Fresh = 0
    BY <1>1, <1>2 DEF CreateWrapper, Fresh
  <2> QED BY <1>1, <2>1
<1>3. CASE ~ CreateWrapper
  <2>1. Len(wrapper') = Len(wrapper)
    BY <1>1, <1>3, Lengths
  <2>2. firing' \in {firing, "idle", "claimed"}
    <3>1. CASE Scheduler
      BY <1>3, <3>1 DEF Scheduler, SlotComesDue, ClaimTrigger, FireThrows, Reap
    <3>2. CASE Dispatcher
      BY <3>2 DEF Dispatcher, Claim, Step, Start, SyncSucceeded, Delegate, LookForContinuation,
                  Continue, Retry, SyncFailed, Park, GiveUp, CallThrows, Answer
    <3>3. CASE Server
      BY <3>3 DEF Server, Cascade, Sweep, ServerStart, ServerFinish, ServerBoot
    <3>4. CASE UNCHANGED vars
      BY <3>4 DEF vars
    <3> QED BY <3>1, <3>2, <3>3, <3>4 DEF Next, WorkerCrash, CancelTrace, UserDone
  <2>3. Fresh' <= Fresh /\ Fresh \in Int /\ Fresh' \in Int
    BY <2>2 DEF Fresh
  <2> QED BY <1>1, <2>1, <2>3
<1> QED BY <1>2, <1>3

\* The second invariant: counts, bounds, budget, order and chains of the traces.
CInv == Order /\ Bounded /\ Budget

LEMMA CountsInductive == Spec => []CInv
<1>1. Init => CInv
  <2> SUFFICES ASSUME Init PROVE CInv
    OBVIOUS
  <2>1. /\ trace = <<>> /\ wrapper = <<>> /\ firing = "idle" /\ troubles = 0
        /\ DOMAIN trace = {} /\ Working = {} /\ Len(trace) = 0 /\ Len(wrapper) = 0
    BY DEF Init, Working
  <2>2. Owed = {} /\ \A w : Turns(w) = {}
    BY <2>1 DEF Owed, Turns
  <2>3. Bounded
    <3>1. due \in BOOLEAN
      BY Zenon DEF Init
    <3> QED BY <3>1, RoutineAssumption DEF Init, Bounded
  <2>4. Order
    BY <2>1, <2>2 DEF Order, Ranges, Newest, Chain
  <2>5. Budget
    BY <2>1, <2>2, FS_EmptySet DEF Budget, Fresh
  <2> QED BY <2>3, <2>4, <2>5 DEF CInv
<1>2. IInv /\ IInv' /\ CInv /\ [Next]_vars => CInv'
  <2> SUFFICES ASSUME IInv, IInv', CInv, [Next]_vars PROVE CInv'
    OBVIOUS
  <2>0. Order /\ Ranges /\ Newest /\ Chain /\ Bounded /\ Budget
    BY DEF CInv, Order
  <2>1. Bounded'
    BY <2>0, BoundedStep
  <2>2. CASE FireWake
    BY <2>0, <2>1, <2>2, FireWakeCounts DEF CInv
  <2>3. ASSUME NEW i \in Trace,
               Continue(i) \/ Retry(i) \/ \E o \in Accepted \cup Stalled \cup Failed : Answer(i, o)
        PROVE  CInv'
    BY <2>0, <2>1, <2>3, ContinueStep, RetryStep, AnswerStep DEF CInv
  <2>4. CASE ~ FireWake /\ \A i \in Trace :
               /\ ~ Continue(i) /\ ~ Retry(i)
               /\ \A o \in Accepted \cup Stalled \cup Failed : ~ Answer(i, o)
    <3>1. Frame /\ troubles' = troubles
      BY <2>0, <2>4, Frames
    <3>2. Ranges' /\ Newest' /\ Chain'
      BY <2>0, <3>1, KeepStep DEF Frame, MovesOn
    <3>3. Len(wrapper) + Fresh' <= Len(wrapper') + Fresh /\ wrapper' \in Seq(Wrappers)
      BY <2>4, Freshness DEF IInv, WeakTypes
    <3>4. Budget'
      BY <2>0, <3>1, <3>3, KeepBudget DEF Frame
    <3> QED BY <2>1, <3>2, <3>4 DEF CInv, Order
  <2> QED BY <2>2, <2>3, <2>4
<1> QED BY <1>1, <1>2, Inductive, PTL DEF Spec

\* Every variable keeps its type: no more traces are made than there are fires and turns that
\* stalled or failed transiently, and none carries a count above its cap.
THEOREM TypeCorrect == Spec => []TypeOK
<1>1. IInv /\ CInv => TypeOK
  <2> SUFFICES ASSUME IInv, CInv PROVE TypeOK
    OBVIOUS
  <2>0. Order /\ Ranges /\ Bounded /\ Budget
    BY DEF CInv, Order
  <2>1. Len(trace) <= MaxTraces
    <3>1. /\ Len(trace) \in Nat /\ Fresh \in Nat /\ Cardinality(Owed) \in Nat
          /\ Len(wrapper) \in Nat /\ Len(wrapper) <= MaxFires /\ troubles \in Nat
          /\ troubles <= MaxTroubles
      BY <2>0, Counted, RoutineAssumption DEF IInv, WeakTypes, Bounded
    <3> QED BY <2>0, <3>1, RoutineAssumption DEF Budget, MaxTraces
  <2>2. trace \in Seq(Traces)
    <3>1. \A i \in 1..Len(trace) : trace[i] \in Traces
      <4> SUFFICES ASSUME NEW i \in DOMAIN trace PROVE trace[i] \in Traces
        BY <2>0, Counted
      <4>1. /\ trace[i] \in Rows /\ trace[i].retry \in 0..MaxRetries
            /\ trace[i].continuation \in 0..MaxContinuation
        BY <2>0, Counted DEF Ranges
      <4> QED BY <4>1 DEF Rows, Traces
    <3>2. trace = [i \in 1..Len(trace) |-> trace[i]] /\ Len(trace) \in Nat
      BY DEF IInv, WeakTypes
    <3> QED BY <3>1, <3>2
  <2>3. work \in [Trace -> {"idle", "start", "ask", "sync", "delegate", "nudge", "continue",
                            "retry", "fail", "park"}]
    BY DEF IInv, WeakTypes, After, Amiss
  <2>4. due \in BOOLEAN
    BY <2>0, Zenon DEF Bounded
  <2> QED BY <2>0, <2>1, <2>2, <2>3, <2>4, Zenon DEF IInv, WeakTypes, Bounded, TypeOK
<1> QED BY <1>1, Inductive, CountsInductive, PTL

\* Transient failures that follow one another are retried MaxRetries times at most, however
\* continuations, coalesced wakes, crashes and boots fall in between.
THEOREM RetriesEndAlways == Spec => []RetriesEnd
<1>1. IInv /\ CInv => RetriesEnd
  <2> SUFFICES ASSUME IInv, CInv, NEW w \in Created, NEW i \in Turns(w), NEW j \in Turns(w),
                      \A k \in Between(w, i, j) : trace[k].outcome = "transient"
               PROVE  Cardinality(Between(w, i, j)) <= MaxRetries
    BY DEF RetriesEnd
  <2>1. Ranges /\ Chain
    BY DEF CInv, Order
  <2>2. /\ i \in Int /\ j \in Int /\ j \in DOMAIN trace /\ w \in Wrapper
        /\ trace[j].retry \in 0..MaxRetries
    BY <2>1, Counted DEF Turns, Ranges
  <2>3. Cardinality(Between(w, i, j)) <= trace[j].retry
    BY <2>1, <2>2 DEF Chain
  <2>4. Cardinality(Between(w, i, j)) \in Nat
    BY <2>1, <2>2, BetweenFinite
  <2> QED BY <2>2, <2>3, <2>4, RoutineAssumption
<1> QED BY <1>1, Inductive, CountsInductive, PTL
=============================================================================
