--------------------------- MODULE HeadReview_proofs ---------------------------
(***************************************************************************)
(* Proofs about HeadReview, for any chart, any cap and any number of       *)
(* deliverables, calls, retries, faults and users' moves.                  *)
(***************************************************************************)
EXTENDS HeadReview, FiniteSetTheorems, TLAPS

-----------------------------------------------------------------------------
(* The inductive invariant. *)

IsLive(r) == review[r].pc \in Live

\* The writer is not begun on more than the last deliverable; a review is of one that
\* was delivered, and so is what was rejected.
Delivered ==
  /\ writer = "working" => version < MaxVersions
  /\ \A r \in Review : IsLive(r) => review[r].version \in 1..version
  /\ rejected \subseteq 1..version

\* Who holds the job is at work on it, alone.
Held ==
  /\ \A r \in Review : review[r].holds => IsLive(r) /\ job.state = "active"
  /\ \A r, q \in Review : review[r].holds /\ review[q].holds => r = q

\* Without a fault, whoever is at work holds the job, and an active job is held.
Attended ==
  faults = 0 =>
    /\ \A r \in Review : IsLive(r) => review[r].holds
    /\ job.state = "active" => \E r \in Review : review[r].holds
    /\ \A r \in Review : review[r].pc \in {"asked", "decided"} => review[r].level = level

\* Rounds that the chart and the cap allow, of those that were recorded.
Regular(n, k) ==
  IF n < Height THEN MaxRounds * n + (IF k < MaxRounds THEN k ELSE MaxRounds)
  ELSE MaxRounds * Height

CanRise == level < Height /\ ~CapReached

Undecided(r) ==
  review[r].pc = "asked" \/ (review[r].pc = "decided" /\ review[r].decision = "revise")

\* Reviews that may still bounce the task without a round of their own: recorded, or
\* gone on without the job, or caught up by a verdict that left no round for theirs.
Charged == {r \in Review :
  \/ review[r].pc = "recorded" /\ review[r].decision = "revise"
  \/ review[r].pc \in {"asked", "decided"} /\ ~review[r].holds
  \/ review[r].holds /\ Undecided(r) /\ ~CanRise}

Budget == reworks + Cardinality(Charged) <= Regular(level, rounds) + faults

\* Without a fault, a rejected version still at hand is reviewed again past the cap
\* only, where the verdict is a reject.
Killed ==
  faults = 0 =>
    /\ \A r \in Review : IsLive(r) /\ review[r].version \in rejected =>
         review[r].pc # "asked" /\ review[r].decision = "reject"
    /\ \A r \in Review : IsLive(r) /\ version \in rejected => review[r].version = version
    /\ version \in rejected /\ ~CapReached => ~sending /\ job.state # "queued"
    /\ \A r \in Review :
         review[r].pc \in {"decided", "recorded"} /\ review[r].version = version /\ sending =>
           CapReached /\ review[r].decision = "reject"

Core == TypeOK /\ Delivered /\ Held
IInv == Core /\ Attended /\ Budget /\ Killed

-----------------------------------------------------------------------------
(* Types. *)

ReviewType == [pc : Live \cup {"unused"}, level : 0..Height,
               version : 0..MaxVersions, decision : Decision, holds : BOOLEAN]
JobType == [state : {"free", "queued", "active"}, tries : 0..RetryLimit]

\* The bounds are naturals.
LEMMA Bounds ==
  /\ Height \in Nat /\ MaxRounds \in Nat /\ RetryLimit \in Nat /\ MaxVersions \in Nat
  /\ MaxFaults \in Nat /\ MaxRequests \in Nat /\ IsFiniteSet(Review)
BY ReviewAssumption

\* What a step may make of the job.
LEMMA JobTypes ==
  ASSUME job \in JobType
  PROVE  /\ FreeJob \in JobType /\ FreeJob.state = "free"
         /\ Enqueued \in JobType /\ Enqueued.state \in {"queued", job.state}
         /\ job.state # "free" => Enqueued = job
         /\ Requeue \in JobType /\ Requeue.state \in {"free", "queued"}
         /\ [job EXCEPT !.state = "active"] \in JobType
         /\ [job EXCEPT !.state = "active"].state = "active"
BY Bounds DEF JobType, FreeJob, Enqueued, Requeue

\* What a step may make of a review.
LEMMA ReviewTypes ==
  ASSUME NEW x \in ReviewType
  PROVE  /\ Unused \in ReviewType /\ Unused.pc = "unused" /\ ~Unused.holds
         /\ \A pc \in Live :
              /\ [x EXCEPT !.pc = pc] \in ReviewType
              /\ [x EXCEPT !.pc = pc].pc = pc
              /\ [x EXCEPT !.pc = pc].level = x.level
              /\ [x EXCEPT !.pc = pc].version = x.version
              /\ [x EXCEPT !.pc = pc].decision = x.decision
              /\ [x EXCEPT !.pc = pc].holds = x.holds
         /\ [x EXCEPT !.holds = FALSE] \in ReviewType
         /\ ~[x EXCEPT !.holds = FALSE].holds
         /\ [x EXCEPT !.holds = FALSE].pc = x.pc
         /\ [x EXCEPT !.holds = FALSE].level = x.level
         /\ [x EXCEPT !.holds = FALSE].version = x.version
         /\ [x EXCEPT !.holds = FALSE].decision = x.decision
         /\ \A d \in Decision :
              /\ [x EXCEPT !.pc = "decided", !.decision = d] \in ReviewType
              /\ [x EXCEPT !.pc = "decided", !.decision = d].pc = "decided"
              /\ [x EXCEPT !.pc = "decided", !.decision = d].level = x.level
              /\ [x EXCEPT !.pc = "decided", !.decision = d].version = x.version
              /\ [x EXCEPT !.pc = "decided", !.decision = d].decision = d
              /\ [x EXCEPT !.pc = "decided", !.decision = d].holds = x.holds
<1>1. Unused \in ReviewType /\ Unused.pc = "unused" /\ ~Unused.holds
  BY Bounds DEF Unused, ReviewType, Decision
<1> QED BY <1>1 DEF ReviewType, Live, Decision

\* One step of the review r, in a common form for all steps.
Goes(r, pc) ==
  /\ \A q \in Review \ {r} : review'[q] = review[q]
  /\ review'[r].pc = pc /\ review'[r].level = review[r].level
  /\ review'[r].version = review[r].version /\ review'[r].holds = review[r].holds

Ends(r) ==
  /\ \A q \in Review \ {r} : review'[q] = review[q]
  /\ review'[r].pc = "unused" /\ ~review'[r].holds

Types == TypeOK /\ review \in [Review -> ReviewType] /\ job \in JobType

\* The type invariant says so.
LEMMA TypesOf == TypeOK <=> Types
BY DEF TypeOK, Types, ReviewType, JobType

\* A call begins as one not in use, with what it read of the task.
LEMMA Begins ==
  ASSUME TypeOK, BeginReview
  PROVE  \E r \in Review :
           /\ review[r].pc = "unused" /\ \A q \in Review \ {r} : review'[q] = review[q]
           /\ review' \in [Review -> ReviewType]
           /\ review'[r].pc = (IF CapReached THEN "decided" ELSE "asked")
           /\ review'[r].level = level /\ review'[r].version = version
           /\ review'[r].decision = "reject" /\ review'[r].holds
<1> DEFINE x == [pc |-> IF CapReached THEN "decided" ELSE "asked",
                 level |-> level, version |-> version, decision |-> "reject", holds |-> TRUE]
<1>1. NewReview \in Review /\ review[NewReview].pc = "unused"
  BY DEF BeginReview, CanBegin, NewReview
<1>2. level \in 0..Height /\ version \in 0..MaxVersions
  BY Bounds DEF BeginReview, Reviewable, HasReviewer, TypeOK
<1>3. x \in ReviewType
  BY <1>2 DEF ReviewType, Live, Decision
<1>4. review' = [review EXCEPT ![NewReview] = x] /\ review \in [Review -> ReviewType]
  BY TypesOf DEF BeginReview, Types
<1>5. /\ x.pc = (IF CapReached THEN "decided" ELSE "asked") /\ x.level = level
      /\ x.version = version /\ x.decision = "reject" /\ x.holds
  OBVIOUS
<1> HIDE DEF x
<1>6. /\ review' \in [Review -> ReviewType] /\ review'[NewReview] = x
      /\ \A q \in Review \ {NewReview} : review'[q] = review[q]
  BY <1>1, <1>3, <1>4
<1> QED BY <1>1, <1>5, <1>6

\* The moves of a call that is at work.
LEMMA Going ==
  ASSUME TypeOK, NEW r \in Review
  PROVE  /\ \A d \in Decision : Answer(r, d) =>
              Goes(r, "decided") /\ review'[r].decision = d /\ review' \in [Review -> ReviewType]
         /\ NoAnswer(r) => Goes(r, "returning") /\ review' \in [Review -> ReviewType]
         /\ RecordVerdict(r) \/ RecordFails(r) =>
              /\ Goes(r, "recorded") /\ review'[r].decision = review[r].decision
              /\ review' \in [Review -> ReviewType]
         /\ \A d \in Decision : Act(r, d) =>
              /\ Goes(r, "returning") /\ review'[r].decision = review[r].decision
              /\ review' \in [Review -> ReviewType]
         /\ EndReview(r) => Ends(r) /\ review' \in [Review -> ReviewType]
         /\ Overrun(r) =>
              /\ \A q \in Review \ {r} : review'[q] = review[q]
              /\ review'[r].pc = review[r].pc /\ review'[r].level = review[r].level
              /\ review'[r].version = review[r].version /\ ~review'[r].holds
              /\ review'[r].decision = review[r].decision
              /\ review' \in [Review -> ReviewType]
<1>1. review \in [Review -> ReviewType] /\ review[r] \in ReviewType
  BY TypesOf DEF Types
<1>2. ASSUME NEW d \in Decision, Answer(r, d)
      PROVE  Goes(r, "decided") /\ review'[r].decision = d /\ review' \in [Review -> ReviewType]
  <2>1. review' = [review EXCEPT ![r] = [review[r] EXCEPT !.pc = "decided", !.decision = d]]
    BY <1>2 DEF Answer
  <2> DEFINE y == [review[r] EXCEPT !.pc = "decided", !.decision = d]
  <2>2. /\ y \in ReviewType /\ y.pc = "decided" /\ y.level = review[r].level
        /\ y.version = review[r].version /\ y.decision = d /\ y.holds = review[r].holds
    BY <1>1, ReviewTypes
  <2>3. review' = [review EXCEPT ![r] = y]
    BY <2>1
  <2> HIDE DEF y
  <2> QED BY <1>1, <2>2, <2>3 DEF Goes
<1>3. ASSUME NEW pc \in Live, review' = [review EXCEPT ![r].pc = pc]
      PROVE  /\ Goes(r, pc) /\ review'[r].decision = review[r].decision
             /\ review' \in [Review -> ReviewType]
  <2>1. review' = [review EXCEPT ![r] = [review[r] EXCEPT !.pc = pc]]
    BY <1>3
  <2> QED BY <1>1, <2>1, ReviewTypes DEF Goes
<1>4. ASSUME EndReview(r) PROVE Ends(r) /\ review' \in [Review -> ReviewType]
  BY <1>1, <1>4, ReviewTypes DEF EndReview, Ends
<1>5. ASSUME Overrun(r)
      PROVE  /\ \A q \in Review \ {r} : review'[q] = review[q]
             /\ review'[r].pc = review[r].pc /\ review'[r].level = review[r].level
             /\ review'[r].version = review[r].version /\ ~review'[r].holds
             /\ review'[r].decision = review[r].decision
             /\ review' \in [Review -> ReviewType]
  <2>1. review' = [review EXCEPT ![r] = [review[r] EXCEPT !.holds = FALSE]]
    BY <1>5 DEF Overrun
  <2> QED BY <1>1, <2>1, ReviewTypes
<1>6. "recorded" \in Live /\ "returning" \in Live
  BY DEF Live
<1> QED BY <1>2, <1>3, <1>4, <1>5, <1>6 DEF NoAnswer, RecordVerdict, RecordFails, Act

-----------------------------------------------------------------------------
(* The invariant's core: types, deliverables, the holder of the job. *)

Outside ==
  \/ StartWriter \/ (\E asks \in BOOLEAN : Deliver(asks)) \/ Complete \/ Sweep
  \/ Send \/ ExpireOrphan \/ SkipReview
  \/ Wake \/ (\E to \in {"todo", "review", "done"} : Edit(to)) \/ Unarchive
  \/ Boot \/ UNCHANGED vars

Inside(r) == Verdict(r) \/ Overrun(r) \/ RecordFails(r)

\* A step of one call leaves the others alone; it ends or goes on with what it has read.
LEMMA Insider ==
  ASSUME TypeOK, NEW r \in Review, Inside(r)
  PROVE  /\ IsLive(r) /\ \A q \in Review \ {r} : review'[q] = review[q]
         /\ EndReview(r) => Ends(r)
         /\ ~EndReview(r) => /\ review'[r].pc \in Live
                             /\ review'[r].version = review[r].version
                             /\ review'[r].level = review[r].level
                             /\ review'[r].holds => review[r].holds
         /\ ~EndReview(r) /\ ~Overrun(r) => review'[r].holds = review[r].holds
<1> DEFINE Frame(pc) ==
      /\ IsLive(r) /\ pc \in Live /\ Goes(r, pc)
<1>1. ASSUME NEW pc, Frame(pc)
      PROVE  /\ IsLive(r) /\ \A q \in Review \ {r} : review'[q] = review[q]
             /\ review'[r].pc \in Live
             /\ review'[r].version = review[r].version
             /\ review'[r].level = review[r].level
             /\ review'[r].holds = review[r].holds
  BY <1>1 DEF Goes
<1>0. EndReview(r) => Ends(r)
  BY Going
<1> HIDE DEF Frame
<1>2. CASE \E d \in Decision : Answer(r, d)
  <2>1. Frame("decided")
    BY <1>2, Going DEF Frame, Answer, IsLive, Live
  <2> QED BY <1>0, <1>1, <2>1
<1>3. CASE NoAnswer(r)
  <2>1. Frame("returning")
    BY <1>3, Going DEF Frame, NoAnswer, IsLive, Live
  <2> QED BY <1>0, <1>1, <2>1
<1>4. CASE RecordVerdict(r) \/ RecordFails(r)
  <2>1. Frame("recorded")
    BY <1>4, Going DEF Frame, RecordVerdict, RecordFails, IsLive, Live
  <2> QED BY <1>0, <1>1, <2>1
<1>5. CASE \E d \in Decision : Act(r, d)
  <2>1. Frame("returning")
    BY <1>5, Going DEF Frame, Act, Recorded, IsLive, Live
  <2> QED BY <1>0, <1>1, <2>1
<1>6. CASE EndReview(r)
  BY <1>6, Going DEF Ends, EndReview, IsLive, Live
<1>7. CASE Overrun(r)
  BY <1>7, Going DEF Overrun, IsLive, Live
<1> QED
  BY <1>2, <1>3, <1>4, <1>5, <1>6, <1>7
  DEF Inside, Verdict, Approve, Reject, Revise, Escalate, Decision

\* The steps, by what they do to the calls.
LEMMA Steps ==
  [Next]_vars <=> Outside \/ BeginReview \/ Crash \/ \E r \in Review : Inside(r)
<1>1. Next => Outside \/ BeginReview \/ Crash \/ \E r \in Review : Inside(r)
  BY DEF Next, Outside, Inside
<1>2. Outside \/ BeginReview \/ Crash \/ (\E r \in Review : Inside(r)) => Next \/ UNCHANGED vars
  BY DEF Next, Outside, Inside
<1>3. UNCHANGED vars => Outside
  BY DEF Outside
<1> QED BY <1>1, <1>2, <1>3

\* A step from outside leaves every call alone, and the job of a call that holds it.
LEMMA OutsideHeld ==
  ASSUME Core, Outside
  PROVE  /\ review' = review
         /\ job' # job => job.state # "active" \/ \A r \in Review : ~review[r].holds
<1>1. job \in JobType
  BY TypesOf DEF Core, Types
<1> QED
  BY <1>1, JobTypes
  DEF Outside, StartWriter, Deliver, Complete, Sweep, Send, ExpireOrphan, SkipReview,
      Wake, Edit, Unarchive, Boot, vars

\* A step from outside keeps the types.
LEMMA OutsideTypes ==
  ASSUME Core, Outside
  PROVE  TypeOK'
<1>1. job \in JobType /\ review \in [Review -> ReviewType] /\ TypeOK /\ Delivered
  BY TypesOf DEF Core, Types
<1>2. review' = review
  BY OutsideHeld
<1>3. job' \in JobType
  BY <1>1, JobTypes
  DEF Outside, StartWriter, Deliver, Complete, Sweep, Send, ExpireOrphan, SkipReview,
      Wake, Edit, Unarchive, Boot, vars, taskVars, verdicts, history, bounds
<1>4. version' \in 0..MaxVersions /\ published' \subseteq 1..MaxVersions
  <2>1. CASE (\E asks \in BOOLEAN : Deliver(asks)) \/ Complete
    <3>1. version < MaxVersions /\ version' = version + 1 /\ version \in 0..MaxVersions
      BY <1>1, <2>1 DEF Deliver, Complete, TypeOK, Delivered
    <3>2. version' \in 0..MaxVersions /\ version' \in 1..MaxVersions
      BY <3>1, Bounds
    <3>3. published' \in {published, published \cup {version'}}
      BY <2>1 DEF Deliver, Complete, history
    <3> QED BY <1>1, <3>2, <3>3 DEF TypeOK
  <2>2. CASE version' = version /\ published' = published
    BY <1>1, <2>2 DEF TypeOK
  <2> QED
    BY <2>1, <2>2
    DEF Outside, StartWriter, Sweep, Send, ExpireOrphan, SkipReview,
        Wake, Edit, Unarchive, Boot, vars, taskVars, history
<1>5. requests' \in 0..MaxRequests /\ faults' \in 0..MaxFaults
  BY <1>1, Bounds
  DEF TypeOK, Request, Outside, StartWriter, Deliver, Complete, Sweep, Send, ExpireOrphan,
      SkipReview, Wake, Edit, Unarchive, Boot, vars, bounds
<1>6. /\ status' \in {"todo", "in_progress", "review", "done"}
      /\ archived' \in BOOLEAN /\ sending' \in BOOLEAN
      /\ writer' \in {"idle", "queued", "working"} /\ server' \in {"up", "down"}
  BY <1>1
  DEF TypeOK, Redispatched, Outside, StartWriter, Deliver, Complete, Sweep, Send,
      ExpireOrphan, SkipReview, Wake, Edit, Unarchive, Boot, vars, taskVars
<1>7. /\ level' \in Nat /\ rounds' \in Nat /\ reworks' \in Nat
      /\ rejected' \subseteq 1..MaxVersions
  BY <1>1
  DEF TypeOK, Outside, StartWriter, Deliver, Complete, Sweep, Send,
      ExpireOrphan, SkipReview, Wake, Edit, Unarchive, Boot, vars, verdicts, history
<1> QED
  BY <1>1, <1>2, <1>3, <1>4, <1>5, <1>6, <1>7 DEF TypeOK, JobType, ReviewType

\* A step of a call keeps the types.
LEMMA InsideTypes ==
  ASSUME Core, NEW r \in Review, Inside(r)
  PROVE  TypeOK'
<1>1. job \in JobType /\ review \in [Review -> ReviewType] /\ TypeOK /\ Delivered
  BY TypesOf DEF Core, Types
<1>2. review' \in [Review -> ReviewType]
  BY <1>1, Going DEF Inside, Verdict, Approve, Reject, Revise, Escalate, Decision
<1>3. job' \in JobType
  BY <1>1, JobTypes
  DEF Inside, Verdict, Answer, NoAnswer, RecordVerdict, RecordFails, Approve, Reject,
      Revise, Escalate, EndReview, Overrun
<1>4. published' \subseteq 1..MaxVersions /\ rejected' \subseteq 1..MaxVersions
  <2>1. IsLive(r) => review[r].version \in 1..MaxVersions
    BY <1>1, Bounds DEF Delivered, TypeOK
  <2>2. CASE Approve(r) \/ Reject(r)
    BY <1>1, <2>1, <2>2 DEF TypeOK, Approve, Reject, Act, Recorded, IsLive, Live
  <2>3. CASE published' = published /\ rejected' = rejected
    BY <1>1, <2>3 DEF TypeOK
  <2> QED
    BY <2>2, <2>3
    DEF Inside, Verdict, Answer, NoAnswer, RecordVerdict, RecordFails,
        Revise, Escalate, EndReview, Overrun, history
<1>5. requests' \in 0..MaxRequests /\ faults' \in 0..MaxFaults
  BY <1>1, Bounds
  DEF TypeOK, Fault, Inside, Verdict, Answer, NoAnswer, RecordVerdict, RecordFails, Approve,
      Reject, Revise, Escalate, Act, EndReview, Overrun, bounds
<1>6. /\ status' \in {"todo", "in_progress", "review", "done"}
      /\ archived' \in BOOLEAN /\ sending' \in BOOLEAN /\ version' \in 0..MaxVersions
      /\ writer' \in {"idle", "queued", "working"} /\ server' \in {"up", "down"}
  BY <1>1
  DEF TypeOK, Redispatched, Inside, Verdict, Answer, NoAnswer, RecordVerdict, RecordFails,
      Approve, Reject, Revise, Escalate, Act, EndReview, Overrun, taskVars
<1>7. level' \in Nat /\ rounds' \in Nat /\ reworks' \in Nat
  BY <1>1
  DEF TypeOK, Inside, Verdict, Answer, NoAnswer, RecordVerdict, RecordFails,
      Approve, Reject, Revise, Escalate, Act, EndReview, Overrun, verdicts, history
<1> QED
  BY <1>1, <1>2, <1>3, <1>4, <1>5, <1>6, <1>7 DEF TypeOK, JobType, ReviewType

\* So do a call that begins and a crash.
LEMMA TypeStep ==
  ASSUME Core, [Next]_vars
  PROVE  TypeOK'
<1>1. job \in JobType /\ review \in [Review -> ReviewType] /\ TypeOK
  BY TypesOf DEF Core, Types
<1>2. CASE BeginReview
  <2>1. review' \in [Review -> ReviewType] /\ job' \in JobType
    BY <1>1, <1>2, Begins, JobTypes DEF BeginReview
  <2> QED
    BY <1>1, <1>2, <2>1
    DEF BeginReview, TypeOK, ReviewType, JobType, taskVars, verdicts, history, bounds
<1>3. CASE Crash
  <2>0. Unused \in ReviewType
    BY Bounds DEF Unused, ReviewType, Decision
  <2>1. review' \in [Review -> ReviewType] /\ job' = job
    BY <1>3, <2>0 DEF Crash
  <2>2. faults' \in 0..MaxFaults /\ requests' = requests
    BY <1>1, <1>3, Bounds DEF Crash, Fault, TypeOK
  <2> QED
    BY <1>1, <1>3, <2>1, <2>2
    DEF Crash, TypeOK, ReviewType, JobType, taskVars, verdicts, history
<1> QED BY <1>2, <1>3, Steps, OutsideTypes, InsideTypes

\* Deliverables only grow, and a call is given the last one.
LEMMA DeliveredStep ==
  ASSUME Core, [Next]_vars
  PROVE  Delivered'
<1>1. TypeOK /\ Delivered /\ version \in Nat
  BY DEF Core, TypeOK
<1>2. writer' = "working" => version' < MaxVersions
  BY <1>1, Steps
  DEF Delivered, Redispatched, Outside, StartWriter, Deliver, Complete, Sweep, Send, ExpireOrphan,
      SkipReview, Wake, Edit, Unarchive, Boot, vars, taskVars, BeginReview, Crash,
      Inside, Verdict, Answer, NoAnswer, RecordVerdict, RecordFails, Approve, Reject,
      Revise, Escalate, Act, EndReview, Overrun
<1>3. version' \in Nat /\ version <= version'
  <2>1. version' \in {version, version + 1}
    BY <1>1, Steps
    DEF Outside, StartWriter, Deliver, Complete, Sweep, Send, ExpireOrphan,
        SkipReview, Wake, Edit, Unarchive, Boot, vars, taskVars, BeginReview, Crash,
        Inside, Verdict, Answer, NoAnswer, RecordVerdict, RecordFails, Approve, Reject,
        Revise, Escalate, Act, EndReview, Overrun
  <2> QED BY <1>1, <2>1
<1>4. ASSUME NEW q \in Review, review'[q].pc \in Live
      PROVE  review'[q].version \in 1..version'
  <2>1. CASE Outside
    BY <1>1, <1>3, <1>4, <2>1, OutsideHeld DEF Delivered, IsLive
  <2>2. CASE Crash
    BY <1>4, <2>2 DEF Crash, Unused, Live
  <2>3. CASE BeginReview
    <3>1. version > 0 /\ version' = version
      BY <2>3 DEF BeginReview, Reviewable, taskVars
    <3>2. review'[q].version = version \/ review'[q] = review[q]
      BY <1>1, <2>3, Begins
    <3> QED BY <1>1, <1>4, <3>1, <3>2 DEF Delivered, IsLive
  <2>4. ASSUME NEW r \in Review, Inside(r)
        PROVE  review'[q].version \in 1..version'
    <3>1. IsLive(q) /\ review'[q].version = review[q].version
      <4>1. CASE q # r
        BY <1>1, <1>4, <2>4, <4>1, Insider DEF IsLive
      <4>2. EndReview(r) => review'[r].pc \notin Live
        BY <1>1, <2>4, Insider DEF Ends, Live
      <4>3. CASE q = r
        BY <1>1, <1>4, <2>4, <4>2, <4>3, Insider DEF IsLive
      <4> QED BY <4>1, <4>3
    <3> QED BY <1>1, <1>3, <3>1 DEF Delivered
  <2> QED BY <2>1, <2>2, <2>3, <2>4, Steps
<1>5. rejected' \subseteq 1..version'
  <2>1. CASE rejected' = rejected
    BY <1>1, <1>3, <2>1 DEF Delivered
  <2>2. ASSUME NEW r \in Review, Reject(r)
        PROVE  rejected' \subseteq 1..version'
    <3>1. IsLive(r) /\ rejected' = rejected \cup {review[r].version}
      BY <2>2 DEF Reject, Act, Recorded, IsLive, Live
    <3>2. review[r].version \in 1..version
      BY <1>1, <3>1 DEF Delivered
    <3>3. 1..version \subseteq 1..version'
      BY <1>1, <1>3
    <3> QED BY <1>1, <3>1, <3>2, <3>3 DEF Delivered
  <2> QED
    BY <2>1, <2>2, Steps
    DEF Outside, StartWriter, Deliver, Complete, Sweep, Send, ExpireOrphan,
        SkipReview, Wake, Edit, Unarchive, Boot, vars, history, BeginReview, Crash,
        Inside, Verdict, Answer, NoAnswer, RecordVerdict, RecordFails, Approve,
        Revise, Escalate, EndReview, Overrun
<1> QED BY <1>2, <1>4, <1>5 DEF Delivered, IsLive

\* What a step of a call makes of the job.
LEMMA InsideJob ==
  ASSUME Core, NEW r \in Review, Inside(r)
  PROVE  /\ job' # job /\ job.state = "active" => review[r].holds /\ ~review'[r].holds
         /\ EndReview(r) /\ review[r].holds => job'.state = "free"
         /\ Overrun(r) => faults' > 0
         /\ ~Overrun(r) /\ ~EndReview(r) /\ job.state = "active" => job' = job
<1>1. TypeOK /\ job \in JobType /\ faults \in Nat
  BY TypesOf, Bounds DEF Core, Types, TypeOK
<1>2. job.state = "active" => Enqueued = job
  BY <1>1, JobTypes
<1>3. EndReview(r) => job' = (IF review[r].holds THEN FreeJob ELSE job) /\ ~review'[r].holds
  BY <1>1, Insider DEF EndReview, Ends
<1>4. Overrun(r) => review[r].holds /\ ~review'[r].holds /\ faults' > 0
  <2>1. Overrun(r) => review[r].holds /\ faults' > 0
    BY <1>1 DEF Overrun, Fault
  <2> QED BY <1>1, <2>1, Going
<1>5. ~Overrun(r) /\ ~EndReview(r) => job' \in {job, Enqueued}
  BY DEF Inside, Verdict, Answer, NoAnswer, RecordVerdict, RecordFails, Approve,
     Reject, Revise, Escalate
<1> QED BY <1>2, <1>3, <1>4, <1>5 DEF FreeJob

\* A job has one call at most, which is at work on it.
LEMMA HeldStep ==
  ASSUME Core, [Next]_vars
  PROVE  Held'
<1>1. TypeOK /\ Held
  BY DEF Core
<1>2. CASE Outside
  BY <1>1, <1>2, OutsideHeld DEF Held, IsLive
<1>3. CASE Crash
  BY <1>3 DEF Crash, Unused, Held
<1>4. CASE BeginReview
  <2>1. /\ \A q \in Review : ~review[q].holds
        /\ job' = [job EXCEPT !.state = "active"]
    BY <1>1, <1>4 DEF Held, BeginReview
  <2>2. job'.state = "active"
    BY <2>1, JobTypes, TypesOf DEF Core, Types
  <2>3. PICK r \in Review :
          /\ \A q \in Review \ {r} : review'[q] = review[q]
          /\ review'[r].pc = (IF CapReached THEN "decided" ELSE "asked")
    BY <1>1, <1>4, Begins
  <2>4. \A q \in Review : review'[q].holds => q = r
    BY <2>1, <2>3
  <2>5. review'[r].pc \in Live
    BY <2>3 DEF Live
  <2> QED BY <2>2, <2>4, <2>5 DEF Held, IsLive
<1>5. ASSUME NEW r \in Review, Inside(r)
      PROVE  Held'
  <2>1. ASSUME NEW q \in Review, review'[q].holds
        PROVE  review[q].holds /\ review'[q].pc \in Live
    <3>1. CASE q # r
      BY <1>1, <1>5, <2>1, <3>1, Insider DEF Held, IsLive
    <3>2. EndReview(r) => ~review'[r].holds
      BY <1>1, <1>5, Insider DEF Ends
    <3>3. CASE q = r
      BY <1>1, <1>5, <2>1, <3>2, <3>3, Insider
    <3> QED BY <3>1, <3>3
  <2>2. ASSUME NEW q \in Review, review'[q].holds
        PROVE  job'.state = "active"
    <3>1. review[q].holds /\ job.state = "active"
      BY <1>1, <2>1, <2>2 DEF Held
    <3>2. job' # job => review[r].holds /\ ~review'[r].holds
      BY <1>5, <3>1, InsideJob
    <3>3. job' # job => q = r
      BY <1>1, <3>1, <3>2 DEF Held
    <3> QED BY <2>2, <3>1, <3>2, <3>3
  <2> QED BY <1>1, <2>1, <2>2 DEF Held, IsLive
<1> QED BY <1>2, <1>3, <1>4, <1>5, Steps

\* The core is kept by every step.
LEMMA CoreStep ==
  ASSUME Core, [Next]_vars
  PROVE  Core'
BY TypeStep, DeliveredStep, HeldStep DEF Core

-----------------------------------------------------------------------------
(* One review at a time. *)

\* Faults are counted.
LEMMA Faultless ==
  ASSUME TypeOK, [Next]_vars, faults' = 0
  PROVE  faults = 0 /\ ~Crash /\ \A r \in Review : ~Overrun(r) /\ ~RecordFails(r)
<1>1. faults \in Nat
  BY Bounds DEF TypeOK
<1>2. Crash \/ (\E r \in Review : Overrun(r) \/ RecordFails(r)) => faults' = faults + 1
  BY DEF Fault, Crash, Overrun, RecordFails
<1>3. Crash \/ (\E r \in Review : Overrun(r) \/ RecordFails(r)) \/ faults' = faults
  BY Steps
  DEF Outside, StartWriter, Deliver, Complete, Sweep, Send, ExpireOrphan,
      SkipReview, Wake, Edit, Unarchive, Boot, vars, bounds, BeginReview,
      Inside, Verdict, Answer, NoAnswer, RecordVerdict, Approve, Reject,
      Revise, Escalate, Act, EndReview
<1> QED BY <1>1, <1>2, <1>3

\* Without a fault, the call at work has the job, and there is no other.
LEMMA Lone ==
  ASSUME Core, Attended, faults = 0, NEW r \in Review, IsLive(r)
  PROVE  /\ review[r].holds /\ job.state = "active"
         /\ \A q \in Review : IsLive(q) => q = r
BY DEF Core, Attended, Held

\* Whoever is at work keeps the job, and asks at the level on record.
LEMMA AttendedStep ==
  ASSUME Core, Attended, [Next]_vars
  PROVE  Attended'
<1> SUFFICES ASSUME faults' = 0
             PROVE  /\ \A q \in Review : review'[q].pc \in Live => review'[q].holds
                    /\ job'.state = "active" => \E q \in Review : review'[q].holds
                    /\ \A q \in Review : review'[q].pc \in {"asked", "decided"} =>
                         review'[q].level = level'
  BY DEF Attended, IsLive
<1>1. /\ TypeOK /\ Held /\ faults = 0 /\ ~Crash
      /\ \A r \in Review : ~Overrun(r) /\ ~RecordFails(r)
  BY Faultless DEF Core
<1>2. CASE Outside
  <2>1. review' = review /\ level' = level
    BY <1>2, OutsideHeld
    DEF Outside, StartWriter, Deliver, Complete, Sweep, Send, ExpireOrphan,
        SkipReview, Wake, Edit, Unarchive, Boot, vars, verdicts
  <2>2. job'.state = "active" => job.state = "active"
    BY <1>1, <1>2, JobTypes, TypesOf
    DEF Types, FreeJob, Outside, StartWriter, Deliver, Complete, Sweep, Send, ExpireOrphan,
        SkipReview, Wake, Edit, Unarchive, Boot, vars
  <2> QED BY <1>1, <2>1, <2>2 DEF Attended, IsLive
<1>3. CASE BeginReview
  <2>1. \A q \in Review : review[q].pc \notin Live
    <3>1. job.state = "queued"
      BY <1>3 DEF BeginReview
    <3> QED BY <1>1, <3>1, Lone DEF IsLive
  <2>2. PICK r \in Review :
          /\ \A q \in Review \ {r} : review'[q] = review[q]
          /\ review'[r].level = level /\ review'[r].holds
    BY <1>1, <1>3, Begins
  <2>3. level' = level
    BY <1>3 DEF BeginReview, verdicts
  <2> QED BY <2>1, <2>2, <2>3 DEF Live
<1>4. ASSUME NEW r \in Review, Inside(r)
      PROVE  /\ \A q \in Review : review'[q].pc \in Live => review'[q].holds
             /\ job'.state = "active" => \E q \in Review : review'[q].holds
             /\ \A q \in Review : review'[q].pc \in {"asked", "decided"} =>
                  review'[q].level = level'
  <2>1. IsLive(r) /\ \A q \in Review \ {r} : review'[q] = review[q]
    BY <1>1, <1>4, Insider
  <2>2. review[r].holds /\ job.state = "active" /\ \A q \in Review : IsLive(q) => q = r
    BY <1>1, <2>1, Lone
  <2>3. \A q \in Review \ {r} : review'[q].pc \notin Live
    BY <2>1, <2>2 DEF IsLive
  <2>4. CASE EndReview(r)
    <3>1. review'[r].pc = "unused" /\ job'.state = "free"
      BY <1>1, <1>4, <2>2, <2>4, Insider, InsideJob DEF Ends
    <3> QED BY <2>3, <3>1 DEF Live
  <2>5. CASE ~EndReview(r)
    <3>1. review'[r].holds /\ review'[r].level = review[r].level
      BY <1>1, <1>4, <2>2, <2>5, Insider
    <3>2. review'[r].pc \in {"asked", "decided"} =>
            review[r].pc \in {"asked", "decided"} /\ level' = level
      <4>1. CASE \E d \in Decision : Answer(r, d)
        BY <4>1 DEF Answer, verdicts
      <4>2. CASE NoAnswer(r) \/ RecordVerdict(r) \/ \E d \in Decision : Act(r, d)
        <5>1. review'[r].pc \in {"returning", "recorded"}
          BY <1>1, <4>2, Going DEF Goes
        <5> QED BY <5>1
      <4> QED
        BY <1>1, <1>4, <2>5, <4>1, <4>2
        DEF Inside, Verdict, Approve, Reject, Revise, Escalate, Decision
    <3>3. review[r].pc \in {"asked", "decided"} => review[r].level = level
      BY <1>1 DEF Attended
    <3> QED BY <2>3, <3>1, <3>2, <3>3 DEF Live
  <2> QED BY <2>4, <2>5
<1> QED BY <1>1, <1>2, <1>3, <1>4, Steps

-----------------------------------------------------------------------------
(* What was rejected stays rejected. *)

\* Without a fault, the verdict on a version killed before is a reject, past the cap.
LEMMA KilledStep ==
  ASSUME Core, Attended, Killed, [Next]_vars
  PROVE  Killed'
<1> SUFFICES ASSUME faults' = 0
             PROVE  /\ \A q \in Review : review'[q].pc \in Live /\ review'[q].version \in rejected' =>
                         review'[q].pc # "asked" /\ review'[q].decision = "reject"
                    /\ \A q \in Review : review'[q].pc \in Live /\ version' \in rejected' =>
                         review'[q].version = version'
                    /\ version' \in rejected' /\ ~CapReached' => ~sending' /\ job'.state # "queued"
                    /\ \A q \in Review : review'[q].pc \in {"decided", "recorded"}
                         /\ review'[q].version = version' /\ sending' =>
                           CapReached' /\ review'[q].decision = "reject"
  BY DEF Killed, IsLive
<1>1. /\ TypeOK /\ Held /\ Delivered /\ faults = 0 /\ ~Crash
      /\ \A r \in Review : ~Overrun(r) /\ ~RecordFails(r)
      /\ version \in Nat /\ rounds \in Nat
  BY Faultless DEF Core, TypeOK
<1>2. CASE Outside
  <2>1. review' = review /\ level' = level /\ rounds' = rounds /\ rejected' = rejected
    BY <1>2, OutsideHeld
    DEF Outside, StartWriter, Deliver, Complete, Sweep, Send, ExpireOrphan,
        SkipReview, Wake, Edit, Unarchive, Boot, vars, verdicts, history
  <2>2. \A q \in Review : IsLive(q) => review[q].version \in 1..version
    BY <1>1 DEF Delivered
  <2>3. rejected \subseteq 1..version
    BY <1>1 DEF Delivered
  <2>4. CASE (\E asks \in BOOLEAN : Deliver(asks)) \/ Complete
    <3>1. version' = version + 1
      BY <2>4 DEF Deliver, Complete
    <3>2. version' \notin rejected /\ \A q \in Review : IsLive(q) => review[q].version # version'
      BY <1>1, <2>2, <2>3, <3>1
    <3> QED BY <1>1, <2>1, <3>2 DEF Killed, IsLive, Live, CapReached
  <2>5. CASE Send
    <3>1. version' = version /\ sending /\ ~sending'
      BY <2>5 DEF Send, taskVars
    <3> QED BY <1>1, <2>1, <3>1 DEF Killed, IsLive, CapReached
  <2>6. CASE ExpireOrphan
    BY <1>1, <2>6 DEF ExpireOrphan, Attended
  <2>7. CASE SkipReview \/ StartWriter \/ Sweep \/ Wake
             \/ (\E to \in {"todo", "review", "done"} : Edit(to)) \/ Unarchive
             \/ Boot \/ UNCHANGED vars
    <3>1. /\ version' = version /\ sending' = sending
          /\ job'.state = "queued" => job.state = "queued"
      BY <2>7
      DEF FreeJob, StartWriter, Sweep, SkipReview, Wake, Edit, Unarchive, Boot, vars, taskVars
    <3> QED BY <1>1, <2>1, <3>1 DEF Killed, IsLive, CapReached
  <2> QED BY <1>2, <2>4, <2>5, <2>6, <2>7 DEF Outside
<1>3. CASE BeginReview
  <2>1. \A q \in Review : review[q].pc \notin Live
    <3>1. job.state = "queued"
      BY <1>3 DEF BeginReview
    <3> QED BY <1>1, <3>1, Lone DEF IsLive
  <2>2. PICK r \in Review :
          /\ \A q \in Review \ {r} : review'[q] = review[q]
          /\ review'[r].pc = (IF CapReached THEN "decided" ELSE "asked")
          /\ review'[r].version = version /\ review'[r].decision = "reject"
    BY <1>1, <1>3, Begins
  <2>3. /\ version' = version /\ rejected' = rejected /\ CapReached' = CapReached
        /\ job.state = "queued"
    BY <1>3 DEF BeginReview, verdicts, taskVars, history, CapReached
  <2>4. job'.state # "queued"
    <3>1. job' = [job EXCEPT !.state = "active"] /\ job \in JobType
      BY <1>1, <1>3, TypesOf DEF BeginReview, Types
    <3> QED BY <3>1, JobTypes
  <2>5. sending' = sending
    BY <1>3 DEF BeginReview
  <2>6. version \in rejected => CapReached
    BY <1>1, <2>3 DEF Killed
  <2>7. version \in rejected /\ ~CapReached => ~sending
    BY <1>1 DEF Killed
  <2> QED BY <2>1, <2>2, <2>3, <2>4, <2>5, <2>6, <2>7 DEF Live
<1>4. ASSUME NEW r \in Review, Inside(r)
      PROVE  /\ \A q \in Review : review'[q].pc \in Live /\ review'[q].version \in rejected' =>
                         review'[q].pc # "asked" /\ review'[q].decision = "reject"
             /\ \A q \in Review : review'[q].pc \in Live /\ version' \in rejected' =>
                         review'[q].version = version'
             /\ version' \in rejected' /\ ~CapReached' => ~sending' /\ job'.state # "queued"
             /\ \A q \in Review : review'[q].pc \in {"decided", "recorded"}
                         /\ review'[q].version = version' /\ sending' =>
                           CapReached' /\ review'[q].decision = "reject"
  <2>1. IsLive(r) /\ \A q \in Review \ {r} : review'[q] = review[q]
    BY <1>1, <1>4, Insider
  <2>2. review[r].holds /\ job.state = "active" /\ \A q \in Review : IsLive(q) => q = r
    BY <1>1, <2>1, Lone
  <2>3. \A q \in Review \ {r} : review'[q].pc \notin Live
    BY <2>1, <2>2 DEF IsLive
  <2>4. /\ version' = version /\ sending' = sending
        /\ Reject(r) \/ rejected' = rejected
        /\ RecordVerdict(r) \/ rounds' = rounds
    BY <1>1, <1>4
    DEF Inside, Verdict, Answer, NoAnswer, RecordVerdict, Approve, Reject, Revise, Escalate,
        Act, EndReview, taskVars, history, verdicts
  <2>5. job'.state # "queued"
    BY <1>1, <1>4, <2>2, InsideJob
  <2>6. /\ review[r].version \in rejected => review[r].pc # "asked" /\ review[r].decision = "reject"
        /\ version \in rejected => review[r].version = version
        /\ version \in rejected /\ ~CapReached => ~sending
        /\ review[r].pc \in {"decided", "recorded"} /\ review[r].version = version /\ sending =>
             CapReached /\ review[r].decision = "reject"
    BY <1>1, <2>1 DEF Killed
  <2>7. CASE EndReview(r)
    <3>1. review'[r].pc = "unused"
      BY <1>1, <1>4, <2>7, Insider DEF Ends
    <3>2. rejected' = rejected /\ rounds' = rounds
      BY <2>7 DEF EndReview, history, verdicts
    <3> QED BY <2>3, <2>4, <2>5, <2>6, <3>1, <3>2 DEF Live, CapReached
  <2>8. ASSUME NEW d \in Decision, Answer(r, d)
        PROVE  /\ rejected' = rejected /\ rounds' = rounds /\ ~sending
               /\ review'[r].version = review[r].version /\ review[r].version \notin rejected
    <3>1. review[r].pc = "asked" /\ ~sending /\ rejected' = rejected /\ rounds' = rounds
      BY <2>8 DEF Answer, history, verdicts
    <3> QED BY <1>1, <2>6, <2>8, <3>1, Going DEF Goes
  <2>9. CASE \E d \in Decision : Answer(r, d)
    BY <2>3, <2>4, <2>5, <2>6, <2>8, <2>9 DEF Live, CapReached
  <2>10. CASE NoAnswer(r)
    <3>1. /\ review'[r].pc = "returning" /\ review'[r].version = review[r].version
          /\ review[r].pc = "asked" /\ rejected' = rejected /\ rounds' = rounds
      BY <1>1, <2>10, Going DEF NoAnswer, Goes, history, verdicts
    <3> QED BY <2>3, <2>4, <2>5, <2>6, <3>1 DEF Live, CapReached
  <2>11. CASE RecordVerdict(r)
    <3>1. /\ review'[r].pc = "recorded" /\ review'[r].version = review[r].version
          /\ review'[r].decision = review[r].decision
      BY <1>1, <2>11, Going DEF Goes
    <3>2. review[r].pc = "decided" /\ rejected' = rejected
      BY <2>11 DEF RecordVerdict, history
    <3>3. CapReached /\ review[r].decision = "reject" => CapReached'
      BY <2>11 DEF RecordVerdict, CapReached
    <3>4. review[r].decision # "escalate" /\ CapReached => CapReached'
      BY <1>1, <2>11, Bounds DEF RecordVerdict, CapReached
    <3> QED BY <2>3, <2>4, <2>5, <2>6, <3>1, <3>2, <3>3, <3>4 DEF Live
  <2>12. CASE \E d \in Decision : Act(r, d)
    <3>1. /\ review'[r].pc = "returning" /\ review'[r].version = review[r].version
          /\ review'[r].decision = review[r].decision
      BY <1>1, <2>12, Going DEF Goes
    <3>2. review[r].pc = "recorded" /\ CapReached' = CapReached
      BY <2>12 DEF Act, Recorded, verdicts, CapReached
    <3>3. Reject(r) => rejected' = rejected \cup {review[r].version} /\ review[r].decision = "reject"
      BY DEF Reject, Act, Recorded
    <3> QED BY <2>3, <2>4, <2>5, <2>6, <3>1, <3>2, <3>3 DEF Live
  <2> QED
    BY <1>1, <1>4, <2>7, <2>9, <2>10, <2>11, <2>12
    DEF Inside, Verdict, Approve, Reject, Revise, Escalate, Decision
<1> QED BY <1>1, <1>2, <1>3, <1>4, Steps

-----------------------------------------------------------------------------
(* The bounces are paid for by rounds and faults. *)

\* Sizes of sets that differ by an element.
LEMMA Sizes ==
  ASSUME NEW S, NEW T, IsFiniteSet(S)
  PROVE  /\ Cardinality(S) \in Nat
         /\ T \subseteq S => Cardinality(T) \in Nat /\ Cardinality(T) <= Cardinality(S)
         /\ \A x : T \subseteq S \cup {x} =>
              Cardinality(T) \in Nat /\ Cardinality(T) <= Cardinality(S) + 1
         /\ \A x \in S : T \subseteq S \ {x} =>
              Cardinality(T) \in Nat /\ Cardinality(T) <= Cardinality(S) - 1
         /\ \A x \in S : \A y : T \subseteq (S \ {x}) \cup {y} =>
              Cardinality(T) \in Nat /\ Cardinality(T) <= Cardinality(S)
<1>1. Cardinality(S) \in Nat
  BY FS_CardinalityType
<1>2. ASSUME T \subseteq S
      PROVE  Cardinality(T) \in Nat /\ Cardinality(T) <= Cardinality(S)
  BY <1>2, FS_Subset, FS_CardinalityType
<1>3. ASSUME NEW x, T \subseteq S \cup {x}
      PROVE  Cardinality(T) \in Nat /\ Cardinality(T) <= Cardinality(S) + 1
  <2>1. /\ IsFiniteSet(S \cup {x})
        /\ Cardinality(S \cup {x}) = IF x \in S THEN Cardinality(S) ELSE Cardinality(S) + 1
    BY FS_AddElement
  <2>2. IsFiniteSet(T) /\ Cardinality(T) <= Cardinality(S \cup {x})
    BY <1>3, <2>1, FS_Subset
  <2>3. Cardinality(T) \in Nat
    BY <2>2, FS_CardinalityType
  <2> QED BY <1>1, <2>1, <2>2, <2>3
<1>4. ASSUME NEW x \in S, T \subseteq S \ {x}
      PROVE  Cardinality(T) \in Nat /\ Cardinality(T) <= Cardinality(S) - 1
  <2>1. IsFiniteSet(S \ {x}) /\ Cardinality(S \ {x}) = Cardinality(S) - 1
    BY FS_RemoveElement
  <2>2. IsFiniteSet(T) /\ Cardinality(T) <= Cardinality(S \ {x})
    BY <1>4, <2>1, FS_Subset
  <2>3. Cardinality(T) \in Nat
    BY <2>2, FS_CardinalityType
  <2> QED BY <1>1, <2>1, <2>2, <2>3
<1>5. ASSUME NEW x \in S, NEW y, T \subseteq (S \ {x}) \cup {y}
      PROVE  Cardinality(T) \in Nat /\ Cardinality(T) <= Cardinality(S)
  <2>1. IsFiniteSet(S \ {x}) /\ Cardinality(S \ {x}) = Cardinality(S) - 1
    BY FS_RemoveElement
  <2>2. /\ IsFiniteSet((S \ {x}) \cup {y})
        /\ Cardinality((S \ {x}) \cup {y}) \in {Cardinality(S) - 1, Cardinality(S)}
    BY <1>1, <2>1, FS_AddElement
  <2>3. IsFiniteSet(T) /\ Cardinality(T) <= Cardinality((S \ {x}) \cup {y})
    BY <1>5, <2>2, FS_Subset
  <2>4. Cardinality(T) \in Nat
    BY <2>3, FS_CardinalityType
  <2> QED BY <1>1, <2>2, <2>3, <2>4
<1> QED BY <1>1, <1>2, <1>3, <1>4, <1>5

\* The chart and the cap allow MaxRounds at each level; a round within the cap is one
\* more, and an escalation takes none away.
LEMMA Rounds ==
  ASSUME NEW n \in Nat, NEW k \in Nat
  PROVE  /\ Regular(n, k) \in Nat /\ Regular(n, k) <= MaxRounds * Height
         /\ Regular(n, k) <= Regular(n, k + 1)
         /\ n < Height /\ k < MaxRounds => Regular(n, k + 1) = Regular(n, k) + 1
         /\ Regular(n, k) <= Regular(n + 1, 0)
<1>1. /\ MaxRounds \in Nat /\ Height \in Nat /\ MaxRounds * Height \in Nat
      /\ MaxRounds * n \in Nat /\ MaxRounds * (n + 1) = MaxRounds * n + MaxRounds
  BY Bounds
<1>2. ASSUME n < Height
      PROVE  MaxRounds * (n + 1) <= MaxRounds * Height
  <2>1. PICK d \in Nat : Height = (n + 1) + d
    <3>1. Height - (n + 1) \in Nat /\ Height = (n + 1) + (Height - (n + 1))
      BY <1>1, <1>2
    <3> QED BY <3>1
  <2>2. MaxRounds * Height = MaxRounds * (n + 1) + MaxRounds * d /\ MaxRounds * d \in Nat
    BY <1>1, <2>1
  <2>3. MaxRounds * (n + 1) \in Nat
    BY <1>1
  <2> QED BY <2>2, <2>3
<1> DEFINE m == MaxRounds * n
           h == MaxRounds * Height
           m1 == MaxRounds * (n + 1)
<1>3. Regular(n, k) = IF n < Height THEN m + (IF k < MaxRounds THEN k ELSE MaxRounds) ELSE h
  BY DEF Regular
<1>4. Regular(n, k + 1) =
        IF n < Height THEN m + (IF k + 1 < MaxRounds THEN k + 1 ELSE MaxRounds) ELSE h
  BY DEF Regular
<1>5. Regular(n + 1, 0) = IF n + 1 < Height THEN m1 ELSE h
  BY <1>1 DEF Regular
<1>6. m \in Nat /\ h \in Nat /\ m1 = m + MaxRounds /\ (n < Height => m1 <= h)
  BY <1>1, <1>2
<1> HIDE DEF m, h, m1
<1>7. MaxRounds * Height = h
  BY DEF h
<1> QED BY <1>1, <1>3, <1>4, <1>5, <1>6, <1>7

\* A step keeps the budget when it adds no charge that a fault or a round does not pay.
LEMMA Kept ==
  ASSUME TypeOK, TypeOK', Budget
  PROVE  /\ reworks' = reworks /\ faults' = faults /\ Charged' \subseteq Charged
              /\ Regular(level, rounds) <= Regular(level, rounds)' => Budget'
         /\ \A x : reworks' = reworks /\ faults' = faults + 1 /\ Charged' \subseteq Charged \cup {x}
              /\ Regular(level, rounds) <= Regular(level, rounds)' => Budget'
         /\ \A x : reworks' = reworks /\ faults' = faults /\ Charged' \subseteq Charged \cup {x}
              /\ Regular(level, rounds) + 1 <= Regular(level, rounds)' => Budget'
         /\ \A x \in Charged : reworks' \in {reworks, reworks + 1} /\ faults' = faults
              /\ Charged' \subseteq Charged \ {x}
              /\ Regular(level, rounds) <= Regular(level, rounds)' => Budget'
         /\ \A x \in Charged : \A y : reworks' = reworks /\ faults' = faults
              /\ Charged' \subseteq (Charged \ {x}) \cup {y}
              /\ Regular(level, rounds) <= Regular(level, rounds)' => Budget'
<1>1. IsFiniteSet(Charged)
  <2>1. Charged \subseteq Review
    BY DEF Charged
  <2> QED BY <2>1, Bounds, FS_Subset
<1>2. /\ reworks \in Nat /\ faults \in Nat /\ faults' \in Nat /\ level \in Nat /\ rounds \in Nat
      /\ level' \in Nat /\ rounds' \in Nat /\ reworks' \in Nat
  BY Bounds DEF TypeOK
<1>3. Regular(level, rounds) \in Nat /\ Regular(level, rounds)' \in Nat
  <2>1. Regular(level, rounds)' = Regular(level', rounds')
    BY DEF Regular
  <2> QED BY <1>2, <2>1, Rounds
<1> DEFINE c == Cardinality(Charged)
           d == Cardinality(Charged')
           g == Regular(level, rounds)
           e == Regular(level, rounds)'
<1>4. c \in Nat
  BY <1>1, Sizes
<1>5. reworks + c <= g + faults
  BY DEF Budget
<1>6. Budget' <=> reworks' + d <= e + faults'
  BY DEF Budget
<1>7. /\ Charged' \subseteq Charged => d \in Nat /\ d <= c
      /\ \A x : Charged' \subseteq Charged \cup {x} => d \in Nat /\ d <= c + 1
      /\ \A x \in Charged : Charged' \subseteq Charged \ {x} => d \in Nat /\ d <= c - 1
      /\ \A x \in Charged : \A y : Charged' \subseteq (Charged \ {x}) \cup {y} => d \in Nat /\ d <= c
  BY <1>1, Sizes
<1>8. g \in Nat /\ e \in Nat /\ g = Regular(level, rounds) /\ e = Regular(level, rounds)'
  BY <1>3
<1> HIDE DEF c, d, g, e
<1>9. ASSUME reworks' = reworks, faults' = faults, d \in Nat, d <= c, g <= e
      PROVE  Budget'
  BY <1>2, <1>4, <1>5, <1>6, <1>8, <1>9
<1>10. ASSUME reworks' = reworks, faults' = faults + 1, d \in Nat, d <= c + 1, g <= e
       PROVE  Budget'
  BY <1>2, <1>4, <1>5, <1>6, <1>8, <1>10
<1>11. ASSUME reworks' = reworks, faults' = faults, d \in Nat, d <= c + 1, g + 1 <= e
       PROVE  Budget'
  BY <1>2, <1>4, <1>5, <1>6, <1>8, <1>11
<1>12. ASSUME reworks' \in {reworks, reworks + 1}, faults' = faults,
              d \in Nat, d <= c - 1, g <= e
       PROVE  Budget'
  BY <1>2, <1>4, <1>5, <1>6, <1>8, <1>12
<1> QED BY <1>7, <1>8, <1>9, <1>10, <1>11, <1>12

\* When no verdict is recorded, the rounds are what they were.
LEMMA SameRounds ==
  ASSUME TypeOK, UNCHANGED verdicts
  PROVE  /\ Regular(level, rounds) <= Regular(level, rounds)' /\ (CanRise' <=> CanRise)
<1>1. Regular(level, rounds) \in Nat
  BY Rounds DEF TypeOK
<1>2. level' = level /\ rounds' = rounds
  BY DEF verdicts
<1>3. Regular(level, rounds)' = Regular(level, rounds)
  BY <1>2 DEF Regular
<1> QED BY <1>1, <1>2, <1>3 DEF CanRise, CapReached

\* Steps from outside, crashes and calls that begin add no charge.
LEMMA BudgetOutside ==
  ASSUME Core, TypeOK', Budget, Outside \/ BeginReview \/ Crash
  PROVE  Budget'
<1>1. TypeOK /\ Held
  BY DEF Core
<1>2. CASE Outside
  <2>1. review' = review /\ UNCHANGED verdicts /\ reworks' = reworks /\ faults' = faults
    BY <1>2, OutsideHeld
    DEF Outside, StartWriter, Deliver, Complete, Sweep, Send, ExpireOrphan,
        SkipReview, Wake, Edit, Unarchive, Boot, vars, history, bounds
  <2>2. Charged' \subseteq Charged
    BY <1>1, <2>1, SameRounds DEF Charged, Undecided
  <2> QED BY <1>1, <2>1, <2>2, SameRounds, Kept
<1>3. CASE Crash
  <2>1. UNCHANGED verdicts /\ reworks' = reworks /\ faults' = faults + 1
    BY <1>3 DEF Crash, history, Fault
  <2>2. Charged' \subseteq Charged \cup {0}
    BY <1>3 DEF Crash, Charged, Undecided, Unused
  <2> QED BY <1>1, <2>1, <2>2, SameRounds, Kept
<1>4. CASE BeginReview
  <2>1. /\ UNCHANGED verdicts /\ reworks' = reworks /\ faults' = faults
        /\ ~CapReached => CanRise
    BY <1>4 DEF BeginReview, history, bounds, Reviewable, HasReviewer, CanRise
  <2>2. PICK r \in Review :
          /\ \A q \in Review \ {r} : review'[q] = review[q]
          /\ review'[r].pc = (IF CapReached THEN "decided" ELSE "asked")
          /\ review'[r].decision = "reject" /\ review'[r].holds
    BY <1>1, <1>4, Begins
  <2>3. CanRise' <=> CanRise
    BY <1>1, <2>1, SameRounds
  <2>4. r \notin Charged'
    BY <2>1, <2>2, <2>3 DEF Charged, Undecided
  <2>5. Charged' \subseteq Charged
    BY <2>2, <2>3, <2>4 DEF Charged, Undecided
  <2> QED BY <1>1, <2>1, <2>5, SameRounds, Kept
<1> QED BY <1>2, <1>3, <1>4

\* A verdict is worth a round, or one of the charges before it.
LEMMA BudgetVerdict ==
  ASSUME Core, TypeOK', Budget, NEW r \in Review, RecordVerdict(r)
  PROVE  Budget'
<1>1. TypeOK /\ Held /\ level \in Nat /\ rounds \in Nat /\ MaxRounds \in Nat /\ Height \in Nat
  BY Bounds DEF Core, TypeOK
<1>2. /\ reworks' = reworks /\ faults' = faults
      /\ review[r].pc = "decided" /\ review[r].decision \in Decision
  <2>1. review[r].decision \in Decision
    BY <1>1 DEF TypeOK
  <2> QED BY <2>1 DEF RecordVerdict, history, bounds
<1>3. /\ \A q \in Review \ {r} : review'[q] = review[q]
      /\ review'[r].pc = "recorded" /\ review'[r].holds = review[r].holds
      /\ review'[r].decision = review[r].decision
  BY <1>1, Going DEF Goes
<1>4. \A q \in Review \ {r} : ~review[q].holds /\ q \in Charged' => q \in Charged
  BY <1>3 DEF Charged, Undecided
<1>5. review[r].holds => Charged' \ {r} \subseteq Charged
  <2>1. review[r].holds => \A q \in Review \ {r} : ~review[q].holds
    BY <1>1 DEF Held
  <2> QED BY <1>4, <2>1 DEF Charged
<1>6. \E h : Charged' \ {r} \subseteq Charged \cup {h}
  <2>1. CASE \E h \in Review : review[h].holds
    <3>1. PICK h \in Review : review[h].holds
      BY <2>1
    <3>2. \A q \in Review : review[q].holds => q = h
      BY <1>1, <3>1 DEF Held
    <3> QED BY <1>4, <3>2 DEF Charged
  <2>2. CASE ~\E h \in Review : review[h].holds
    BY <1>4, <2>2 DEF Charged
  <2> QED BY <2>1, <2>2
<1>7. ~review[r].holds => r \in Charged
  BY <1>2 DEF Charged
<1>8. r \in Charged' => review[r].decision = "revise"
  BY <1>3 DEF Charged, Undecided
<1>9. CASE review[r].decision \in {"approve", "reject"}
  <2>1. UNCHANGED verdicts
    BY <1>9 DEF RecordVerdict, verdicts
  <2>2. Charged' \subseteq Charged
    BY <1>1, <1>3, <1>8, <1>9, <2>1, SameRounds DEF Charged, Undecided
  <2> QED BY <1>1, <1>2, <2>1, <2>2, SameRounds, Kept
<1>10. CASE review[r].decision = "revise"
  <2>1. level' = level /\ rounds' = rounds + 1
    BY <1>10 DEF RecordVerdict
  <2>2. Regular(level, rounds)' = Regular(level, rounds + 1)
    BY <2>1 DEF Regular
  <2>3. CASE CanRise
    <3>1. Regular(level, rounds)' = Regular(level, rounds) + 1
      <4>1. level < Height /\ rounds < MaxRounds
        BY <1>1, <2>3 DEF CanRise, CapReached
      <4> QED BY <1>1, <2>2, <4>1, Rounds
    <3>2. Regular(level, rounds) + 1 <= Regular(level, rounds)'
      <4>1. Regular(level, rounds) \in Nat
        BY <1>1, Rounds
      <4> QED BY <3>1, <4>1
    <3>3. \E x : Charged' \subseteq Charged \cup {x}
      BY <1>5, <1>6, <1>7
    <3> QED BY <1>1, <1>2, <3>2, <3>3, Kept
  <2>4. CASE ~CanRise
    <3>1. Regular(level, rounds) <= Regular(level, rounds)'
      BY <1>1, <2>2, Rounds
    <3>2. ~CanRise'
      BY <1>1, <2>1, <2>4 DEF CanRise, CapReached
    <3>3. r \in Charged
      BY <1>2, <1>10, <2>4 DEF Charged, Undecided
    <3>4. Charged' \subseteq Charged
      BY <1>3, <2>4, <3>2, <3>3 DEF Charged, Undecided
    <3> QED BY <1>1, <1>2, <3>1, <3>4, Kept
  <2> QED BY <2>3, <2>4
<1>11. CASE review[r].decision = "escalate"
  <2>1. level' = level + 1 /\ rounds' = 0
    BY <1>11 DEF RecordVerdict
  <2>2. Regular(level, rounds) <= Regular(level, rounds)'
    <3>1. Regular(level, rounds)' = Regular(level + 1, 0)
      BY <2>1 DEF Regular
    <3> QED BY <1>1, <3>1, Rounds
  <2>3. r \notin Charged'
    BY <1>8, <1>11
  <2>4. CASE review[r].holds
    BY <1>1, <1>2, <1>5, <2>2, <2>3, <2>4, Kept
  <2>5. CASE ~review[r].holds
    BY <1>1, <1>2, <1>6, <1>7, <2>2, <2>3, <2>5, Kept
  <2> QED BY <2>4, <2>5
<1> QED BY <1>2, <1>9, <1>10, <1>11 DEF Decision

\* A bounce settles the charge of its review; a failure makes one more, and pays for it.
LEMMA BudgetInside ==
  ASSUME Core, TypeOK', Budget, NEW r \in Review, Inside(r)
  PROVE  Budget'
<1>1. TypeOK /\ \A q \in Review \ {r} : review'[q] = review[q]
  BY Insider DEF Core
<1>2. ASSUME UNCHANGED verdicts
      PROVE  Charged' \subseteq Charged \cup {r}
  BY <1>1, <1>2, SameRounds DEF Charged, Undecided
<1>3. CASE RecordVerdict(r)
  BY <1>3, BudgetVerdict
<1>4. CASE Overrun(r) \/ RecordFails(r)
  <2>1. UNCHANGED verdicts /\ reworks' = reworks /\ faults' = faults + 1
    BY <1>4 DEF Overrun, RecordFails, Fault, history
  <2> QED BY <1>1, <1>2, <2>1, SameRounds, Kept
<1>5. CASE \E d \in Decision : Answer(r, d)
  <2>1. PICK d \in Decision : Answer(r, d)
    BY <1>5
  <2>2. UNCHANGED verdicts /\ reworks' = reworks /\ faults' = faults /\ review[r].pc = "asked"
    BY <2>1 DEF Answer, history, bounds
  <2>3. review'[r].pc = "decided" /\ review'[r].holds = review[r].holds
    BY <1>1, <2>1, Going DEF Goes
  <2>4. r \in Charged' => r \in Charged
    BY <1>1, <2>2, <2>3, SameRounds DEF Charged, Undecided
  <2> QED BY <1>1, <1>2, <2>2, <2>4, SameRounds, Kept
<1>6. CASE NoAnswer(r) \/ EndReview(r) \/ Approve(r) \/ Reject(r) \/ Escalate(r)
  <2>1. UNCHANGED verdicts /\ reworks' = reworks /\ faults' = faults
    BY <1>6 DEF NoAnswer, EndReview, Approve, Reject, Escalate, Act, history, bounds
  <2>2. review'[r].pc \in {"returning", "unused"}
    BY <1>1, <1>6, Going DEF Goes, Ends, Approve, Reject, Escalate, Decision
  <2>3. r \notin Charged'
    BY <2>2 DEF Charged, Undecided
  <2> QED BY <1>1, <1>2, <2>1, <2>3, SameRounds, Kept
<1>7. CASE Revise(r)
  <2>1. UNCHANGED verdicts /\ reworks' = reworks + 1 /\ faults' = faults
    BY <1>7 DEF Revise, Act, bounds
  <2>2. r \in Charged
    BY <1>7 DEF Revise, Act, Recorded, Charged
  <2>3. review'[r].pc = "returning"
    BY <1>1, <1>7, Going DEF Goes, Revise, Decision
  <2>4. Charged' \subseteq Charged \ {r}
    BY <1>1, <1>2, <2>1, <2>3 DEF Charged, Undecided
  <2> QED BY <1>1, <2>1, <2>2, <2>4, SameRounds, Kept
<1> QED
  BY <1>3, <1>4, <1>5, <1>6, <1>7 DEF Inside, Verdict

\* The budget is kept by every step.
LEMMA BudgetStep ==
  ASSUME Core, Budget, [Next]_vars
  PROVE  Budget'
BY TypeStep, BudgetOutside, BudgetInside, Steps

-----------------------------------------------------------------------------
(* The theorems. *)

\* The invariant holds at first.
LEMMA InitIInv == Init => IInv
<1> SUFFICES ASSUME Init PROVE IInv
  OBVIOUS
<1>1. /\ \A r \in Review : review[r].pc = "unused" /\ ~review[r].holds
      /\ rejected = {} /\ faults = 0 /\ reworks = 0 /\ level = 0 /\ rounds = 0
      /\ job.state = "free" /\ version = 0 /\ writer = "queued"
  BY DEF Init, Unused, FreeJob
<1>2. TypeOK
  <2>1. FreeJob \in JobType /\ Unused \in ReviewType
    BY Bounds DEF FreeJob, Unused, JobType, ReviewType, Decision
  <2>2. review \in [Review -> ReviewType] /\ job \in JobType
    BY <2>1 DEF Init
  <2>3. /\ 0 \in Nat /\ 0 \in 0..MaxVersions /\ 0 \in 0..MaxFaults /\ 0 \in 0..MaxRequests
        /\ {} \subseteq 1..MaxVersions
    BY Bounds
  <2> QED BY <2>2, <2>3 DEF Init, TypeOK, ReviewType, JobType
<1>3. Delivered /\ Held /\ Attended /\ Killed
  BY <1>1 DEF Delivered, Held, Attended, Killed, IsLive, Live
<1>4. Budget
  <2>1. Charged = {}
    BY <1>1 DEF Charged, Undecided
  <2>2. Regular(level, rounds) \in Nat
    BY <1>1, Rounds
  <2>3. Cardinality(Charged) = 0
    BY <2>1, FS_EmptySet
  <2> QED BY <1>1, <2>2, <2>3 DEF Budget
<1> QED BY <1>2, <1>3, <1>4 DEF IInv, Core

\* The invariant is inductive.
LEMMA Always == Spec => []IInv
<1>1. IInv /\ [Next]_vars => IInv'
  BY CoreStep, AttendedStep, KilledStep, BudgetStep DEF IInv
<1> QED BY InitIInv, <1>1, PTL DEF Spec

\* Every variable keeps its type, and a review job is retried RetryLimit times at most,
\* for any chart and any bounds.
THEOREM TypeCorrect == Spec => []TypeOK
<1>1. IInv => TypeOK
  BY DEF IInv, Core
<1> QED BY Always, <1>1, PTL

\* The queue's one key per task keeps any number of calls of dispatchHeadReview apart,
\* while nothing crashes and no agent outlives its job.
THEOREM OneReviewAlways == Spec => []OneReviewWhenFaultless
<1>1. ASSUME IInv, faults = 0
      PROVE  Cardinality(AtWork) <= 1
  <2>1. \A r, q \in AtWork : r = q
    BY <1>1, Lone DEF IInv, AtWork, IsLive
  <2>2. CASE AtWork = {}
    BY <2>2, FS_EmptySet
  <2>3. CASE AtWork # {}
    <3>1. PICK r : r \in AtWork
      BY <2>3
    <3>2. AtWork = {r}
      BY <2>1, <3>1
    <3>3. Cardinality({r}) = 1
      BY FS_Singleton
    <3> QED BY <3>2, <3>3
  <2> QED BY <2>2, <2>3
<1>2. IInv => OneReviewWhenFaultless
  BY <1>1 DEF IInv, Attended, OneReviewWhenFaultless, AtWork
<1> QED BY Always, <1>2, PTL

\* The revise loop ends: MaxRounds bounces for each level of the chart and one for each
\* fault, whatever users do and however many calls, retries and versions there are.
THEOREM ReworksAlways == Spec => []ReworksBounded
<1>1. ASSUME IInv
      PROVE  ReworksBounded
  <2>1. /\ reworks \in Nat /\ faults \in Nat /\ level \in Nat /\ rounds \in Nat
    BY <1>1, Bounds DEF IInv, Core, TypeOK
  <2>2. IsFiniteSet(Charged)
    <3>1. Charged \subseteq Review
      BY DEF Charged
    <3> QED BY <3>1, Bounds, FS_Subset
  <2>3. Cardinality(Charged) \in Nat
    BY <2>2, FS_CardinalityType
  <2>4. Regular(level, rounds) \in Nat /\ Regular(level, rounds) <= MaxRounds * Height
    BY <2>1, Rounds
  <2>5. MaxRounds * Height \in Nat
    BY Bounds
  <2>6. reworks + Cardinality(Charged) <= Regular(level, rounds) + faults
    BY <1>1 DEF IInv, Budget
  <2> DEFINE c == Cardinality(Charged)
             g == Regular(level, rounds)
             h == MaxRounds * Height
  <2>7. c \in Nat /\ g \in Nat /\ h \in Nat /\ g <= h /\ reworks + c <= g + faults
    BY <2>3, <2>4, <2>5, <2>6
  <2>8. ReworksBounded <=> reworks <= h + faults
    BY DEF ReworksBounded
  <2> HIDE DEF c, g, h
  <2> QED BY <2>1, <2>7, <2>8
<1> QED BY Always, <1>1, PTL

\* finalizeTaskDone and rejectReviewedTask: a version that was killed is not sent out
\* later, by any step of any call, unless a fault came first.
THEOREM RejectedAlways == Spec => RejectedStaysUnpublished
<1>1. ASSUME IInv, [Next]_vars, faults' = 0
      PROVE  rejected \cap published' \subseteq published
  <2>1. /\ TypeOK /\ Delivered /\ faults = 0 /\ version \in Nat
    BY <1>1, Faultless DEF IInv, Core, TypeOK
  <2>2. CASE Complete
    <3>1. published' = published \cup {version + 1} /\ rejected \subseteq 1..version
      BY <2>1, <2>2 DEF Complete, Delivered
    <3> QED BY <2>1, <3>1
  <2>3. ASSUME NEW r \in Review, Approve(r)
        PROVE  rejected \cap published' \subseteq published
    <3>1. /\ published' = published \cup {review[r].version}
          /\ IsLive(r) /\ review[r].decision = "approve"
      BY <2>3 DEF Approve, Act, Recorded, IsLive, Live
    <3>2. review[r].version \notin rejected
      BY <1>1, <2>1, <3>1 DEF IInv, Killed
    <3> QED BY <3>1, <3>2
  <2>4. Complete \/ (\E r \in Review : Approve(r)) \/ published' = published
    BY <1>1, Steps
    DEF Outside, StartWriter, Deliver, Sweep, Send, ExpireOrphan,
        SkipReview, Wake, Edit, Unarchive, Boot, vars, history, BeginReview, Crash,
        Inside, Verdict, Answer, NoAnswer, RecordVerdict, RecordFails, Reject,
        Revise, Escalate, EndReview, Overrun
  <2> QED BY <2>2, <2>3, <2>4
<1>2. IInv /\ [Next]_vars => [faults' = 0 => rejected \cap published' \subseteq published]_vars
  BY <1>1
<1> QED BY Always, <1>2, PTL DEF Spec, RejectedStaysUnpublished

-----------------------------------------------------------------------------
(* The exclusive queue. *)

\* Nobody holds a job that is not active.
LEMMA NoHolder ==
  ASSUME Held, job.state # "active"
  PROVE  Holders = {}
BY DEF Held, Holders

\* What becomes of the job's row in a step, by what the step does to job and holders.
LEMMA QueueMoves ==
  ASSUME TypeOK
  PROVE  /\ job' = job /\ Holders' \in {Holders, {}} => Boss!RowStep("review")
         /\ job.state = "free" /\ Holders' = {} /\ job' = [state |-> "queued", tries |-> 0] =>
              Boss!RowStep("review")
         /\ job.state = "active" /\ Holders' = {} /\ job' = Requeue => Boss!RowStep("review")
         /\ (job.state = "queued" \/ (job.state = "active" /\ Holders # {}))
              /\ Holders' = {} /\ job' = FreeJob => Boss!RowStep("review")
<1>1. ASSUME job' = job, Holders' \in {Holders, {}} PROVE Boss!RowStep("review")
  BY <1>1 DEF Boss!RowStep, Boss!Idles, Boss!Orphaned, QueueRow, Rows
<1>2. ASSUME job.state = "free", Holders' = {}, job' = [state |-> "queued", tries |-> 0]
      PROVE  Boss!RowStep("review")
  <2>1. QueueRow = Boss!Free /\ QueueRow' = Boss!Waiting("review", 0)
    BY <1>2 DEF QueueRow, Boss!Free, Boss!Waiting
  <2>2. Boss!Sent("review")
    BY <1>2, <2>1 DEF Boss!Sent, Rows
  <2> QED BY <2>2 DEF Boss!RowStep
<1>3. ASSUME job.state = "active", Holders' = {}, job' = Requeue PROVE Boss!RowStep("review")
  <2>1. QueueRow' = IF job.tries < RetryLimit THEN Boss!Waiting("review", job.tries + 1)
                                              ELSE Boss!Free
    <3>1. CASE job.tries < RetryLimit
      BY <1>3, <3>1 DEF Requeue, QueueRow, Boss!Waiting
    <3>2. CASE ~(job.tries < RetryLimit)
      BY <1>3, <3>2 DEF Requeue, FreeJob, QueueRow, Boss!Free
    <3> QED BY <3>1, <3>2
  <2>2. QueueRow.state = "active" /\ QueueRow.key = "review" /\ QueueRow.tries = job.tries
    BY <1>3 DEF QueueRow
  <2>3. Boss!GivenUp("review")
    BY <1>3, <2>1, <2>2 DEF Boss!GivenUp, Rows
  <2> QED BY <2>3 DEF Boss!RowStep
<1>4. ASSUME job.state = "queued" \/ (job.state = "active" /\ Holders # {}),
             Holders' = {}, job' = FreeJob
      PROVE  Boss!RowStep("review")
  <2>1. QueueRow' = Boss!Free
    BY <1>4 DEF QueueRow, FreeJob, Boss!Free
  <2>2. Boss!Passed("review") \/ Boss!Completed("review")
    BY <1>4, <2>1 DEF Boss!Passed, Boss!Completed, QueueRow, Rows
  <2> QED BY <2>2 DEF Boss!RowStep
<1> QED BY <1>1, <1>2, <1>3, <1>4

\* Every step does to the job what an exclusive queue may do.
LEMMA QueueStep ==
  ASSUME Core, Core', [Next]_vars
  PROVE  Boss!RowStep("review")
<1>1. TypeOK /\ Held /\ Held' /\ job \in JobType
  BY TypesOf DEF Core, Types
<1>2. job.state \in {"free", "queued", "active"}
  BY <1>1 DEF JobType
<1>3. ASSUME job' = Enqueued, review' = review \/ \E r \in Review : Goes(r, "returning")
      PROVE  Boss!RowStep("review")
  <2>1. Holders' = Holders
    BY <1>3 DEF Holders, Goes
  <2> QED BY <1>1, <1>3, <2>1, QueueMoves, NoHolder DEF Enqueued
<1>4. CASE Outside
  <2>1. review' = review
    BY <1>4, OutsideHeld
  <2>2. Holders' = Holders
    BY <2>1 DEF Holders
  <2>3. CASE Send
    BY <1>3, <2>1, <2>3 DEF Send
  <2>4. CASE ExpireOrphan
    <3>1. Holders = {} /\ job.state = "active" /\ job' = Requeue
      BY <2>4 DEF ExpireOrphan, Holders
    <3> QED BY <1>1, <2>2, <3>1, QueueMoves
  <2>5. CASE SkipReview
    <3>1. job.state = "queued" /\ job' = FreeJob
      BY <2>5 DEF SkipReview
    <3> QED BY <1>1, <2>2, <3>1, QueueMoves, NoHolder
  <2>6. CASE ~Send /\ ~ExpireOrphan /\ ~SkipReview
    <3>1. job' = job
      BY <1>4, <2>6
      DEF Outside, StartWriter, Deliver, Complete, Sweep, Wake, Edit, Unarchive, Boot, vars
    <3> QED BY <1>1, <2>2, <3>1, QueueMoves
  <2> QED BY <2>3, <2>4, <2>5, <2>6
<1>5. CASE BeginReview
  <2>1. PICK r \in Review :
          /\ \A q \in Review \ {r} : review'[q] = review[q]
          /\ review'[r].holds
    BY <1>1, <1>5, Begins
  <2>2. job.state = "queued" /\ job' = [job EXCEPT !.state = "active"]
    BY <1>5 DEF BeginReview
  <2>3. Holders = {}
    BY <1>1, <2>2, NoHolder
  <2>4. Holders' = {r}
    BY <2>1, <2>3 DEF Holders
  <2>5. job'.state = "active" /\ job'.tries = job.tries
    BY <1>1, <2>2 DEF JobType
  <2>6. QueueRow' = Boss!Active(QueueRow.key, QueueRow.tries) /\ QueueRow.state = "waiting"
    BY <2>2, <2>5 DEF QueueRow, Boss!Active
  <2>7. Boss!Fetched("review", r)
    BY <2>3, <2>4, <2>6 DEF Boss!Fetched, Rows
  <2> QED BY <2>7 DEF Boss!RowStep
<1>6. CASE Crash
  <2>1. job' = job /\ Holders' = {}
    BY <1>6 DEF Crash, Holders, Unused
  <2> QED BY <1>1, <2>1, QueueMoves
<1>7. ASSUME NEW r \in Review, Inside(r) PROVE Boss!RowStep("review")
  <2>1. CASE EndReview(r)
    <3>1. ~review'[r].holds /\ \A q \in Review \ {r} : review'[q] = review[q]
      BY <1>1, <2>1, Going DEF Ends
    <3>2. CASE review[r].holds
      <4>1. Holders' = {} /\ Holders # {} /\ job.state = "active"
        BY <1>1, <3>1, <3>2 DEF Holders, Held
      <4>2. job' = FreeJob
        BY <2>1, <3>2 DEF EndReview
      <4> QED BY <1>1, <4>1, <4>2, QueueMoves
    <3>3. CASE ~review[r].holds
      <4>1. Holders' = Holders
        BY <3>1, <3>3 DEF Holders
      <4>2. job' = job
        BY <2>1, <3>3 DEF EndReview
      <4> QED BY <1>1, <4>1, <4>2, QueueMoves
    <3> QED BY <3>2, <3>3
  <2>2. CASE Overrun(r)
    <3>1. ~review'[r].holds /\ \A q \in Review \ {r} : review'[q] = review[q]
      BY <1>1, <2>2, Going
    <3>2. review[r].holds /\ job' = Requeue
      BY <2>2 DEF Overrun
    <3>3. Holders' = {} /\ job.state = "active"
      BY <1>1, <3>1, <3>2 DEF Holders, Held
    <3> QED BY <1>1, <3>2, <3>3, QueueMoves
  <2>3. CASE Escalate(r)
    <3>1. Act(r, "escalate") /\ job' \in {Enqueued, job}
      BY <2>3 DEF Escalate
    <3>2. Goes(r, "returning")
      BY <1>1, <3>1, Going DEF Decision
    <3>3. Holders' = Holders
      BY <3>2 DEF Holders, Goes
    <3> QED BY <1>1, <1>3, <3>1, <3>2, <3>3, QueueMoves
  <2>4. CASE ~EndReview(r) /\ ~Overrun(r) /\ ~Escalate(r)
    <3>1. \A q \in Review : review'[q].holds = review[q].holds
      BY <1>1, <1>7, <2>4, Insider
    <3>2. Holders' = Holders
      BY <3>1 DEF Holders
    <3>3. job' = job
      BY <1>7, <2>4
      DEF Inside, Verdict, Answer, NoAnswer, RecordVerdict, RecordFails, Approve, Reject, Revise
    <3> QED BY <1>1, <3>2, <3>3, QueueMoves
  <2> QED BY <2>1, <2>2, <2>3, <2>4
<1> QED BY <1>4, <1>5, <1>6, <1>7, Steps

\* The reviews use their queue as an exclusive queue may be used.
THEOREM QueueRefinement == Spec => RefinesQueue
<1>1. Init => Boss!Init
  <2> SUFFICES ASSUME Init PROVE Boss!Init
    OBVIOUS
  <2>1. QueueRow = Boss!Free /\ Holders = {}
    BY DEF Init, QueueRow, FreeJob, Boss!Free, Holders, Unused
  <2> QED BY <2>1 DEF Boss!Init, Rows
<1>2. IInv /\ IInv' /\ [Next]_vars => [Boss!Next]_(Boss!queue)
  <2> SUFFICES ASSUME Core, Core', [Next]_vars PROVE Boss!Next
    BY DEF IInv
  <2>1. \A j \in Rows : Boss!RowStep(j)
    BY QueueStep DEF Rows
  <2> QED BY <2>1 DEF Boss!Next
<1> QED BY <1>1, <1>2, Always, PTL DEF Spec, RefinesQueue, Boss!Spec
=============================================================================
