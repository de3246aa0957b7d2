--------------------------- MODULE Approvals_proofs ---------------------------
(***************************************************************************)
(* Proofs about Approvals, for any number of rows, handlers, faults and    *)
(* calls.                                                                  *)
(***************************************************************************)
EXTENDS Approvals, TLAPS

-----------------------------------------------------------------------------
(* Types. *)

Status == {"none", "pending", "approved", "rejected", "cancelled"}
Pc == {"idle", "read", "approved", "found", "spawned", "failing"}
RowType == [status : Status, op : Op, payload : Payloads]
CallType == [pc : Pc, a : Approval, verb : Verb, payload : Payloads, target : Nat]
ChildType == [by : Approval, version : Nat]

Rows == row \in [Approval -> RowType]
CallsTyped == call \in [Call -> CallType]
Rest ==
  /\ child \in Seq(ChildType)
  /\ files \in Nat /\ file \in 0..files /\ record \in BOOLEAN /\ edits \in Nat
  /\ applied \in [Approval -> Nat] /\ overlapped \subseteq Approval /\ lost \subseteq Approval
  /\ faults \in 0..MaxFaults /\ requests \in 0..MaxRequests
Target == \A c \in Call : At(c, "found") => (call[c].target = 0 <=> Of(c) = "create")

\* The type invariant in parts.
LEMMA TypeParts == TypeOK <=> Rows /\ CallsTyped /\ Rest /\ Target
BY DEF TypeOK, Rows, CallsTyped, Rest, Target, RowType, CallType, ChildType, Status, Pc

\* A handler goes on, or ends.
Moves(c, pc) ==
  /\ \A d \in Call \ {c} : call'[d] = call[d]
  /\ call'[c].pc = pc /\ call'[c].a = call[c].a /\ call'[c].verb = call[c].verb
Ends(c) == (\A d \in Call \ {c} : call'[d] = call[d]) /\ call'[c].pc = "idle"

\* What Goto and Return make of a handler.
LEMMA Turns ==
  ASSUME CallsTyped, NEW c \in Call
  PROVE  /\ \A pc \in Pc : Goto(c, pc) =>
              /\ Moves(c, pc) /\ CallsTyped'
              /\ call'[c].payload = call[c].payload /\ call'[c].target = call[c].target
         /\ Return(c) => Ends(c) /\ CallsTyped'
<1>1. ASSUME NEW pc \in Pc, Goto(c, pc)
      PROVE  /\ Moves(c, pc) /\ CallsTyped'
             /\ call'[c].payload = call[c].payload /\ call'[c].target = call[c].target
  <2> DEFINE y == [call[c] EXCEPT !.pc = pc]
  <2>1. /\ y \in CallType /\ y.pc = pc /\ y.a = call[c].a /\ y.verb = call[c].verb
        /\ y.payload = call[c].payload /\ y.target = call[c].target
    BY DEF CallsTyped, CallType
  <2>2. call' = [call EXCEPT ![c] = y]
    BY <1>1 DEF Goto
  <2> HIDE DEF y
  <2> QED BY <2>1, <2>2 DEF CallsTyped, Moves
<1>2. ASSUME Return(c) PROVE Ends(c) /\ CallsTyped'
  <2>1. call[c].a \in Approval
    BY DEF CallsTyped, CallType
  <2>2. Idle \in CallType /\ Idle.pc = "idle"
    BY <2>1 DEF Idle, CallType, Pc, Verb, Payloads, Proposed, Stamp
  <2> QED BY <1>2, <2>2 DEF Return, CallsTyped, Ends
<1> QED BY <1>1, <1>2

\* What Write makes of a row.
Writes(a, payload) ==
  /\ \A b \in Approval \ {a} : row'[b] = row[b]
  /\ row'[a].status = row[a].status /\ row'[a].op = row[a].op /\ row'[a].payload = payload

\* It leaves the other rows alone, and the types.
LEMMA WriteRow ==
  ASSUME Rows, CallsTyped, NEW c \in Call, NEW payload \in Payloads, Write(c, payload)
  PROVE  Writes(call[c].a, payload) /\ Rows'
<1> DEFINE a == call[c].a
           y == [row[a] EXCEPT !.payload = payload]
<1>1. a \in Approval
  BY DEF CallsTyped, CallType
<1>2. y \in RowType /\ y.status = row[a].status /\ y.op = row[a].op /\ y.payload = payload
  BY <1>1 DEF Rows, RowType
<1>3. row' = [row EXCEPT ![a] = y]
  BY DEF Write
<1> HIDE DEF y, a
<1>4. Writes(a, payload) /\ Rows'
  BY <1>1, <1>2, <1>3 DEF Writes, Rows
<1> QED BY <1>4 DEF a

\* What a payload written back looks like.
LEMMA PayloadTypes ==
  ASSUME NEW p \in Payloads
  PROVE  /\ \A s \in Stamp : /\ [p EXCEPT !.stamp = s] \in Payloads
                             /\ [p EXCEPT !.stamp = s] = [version |-> p.version, stamp |-> s]
         /\ \A v \in Nat : /\ [p EXCEPT !.version = v] \in Payloads
                           /\ [p EXCEPT !.version = v].stamp = p.stamp
BY DEF Payloads

-----------------------------------------------------------------------------
(* The steps of a handler, in a common form. *)

Keeps(c) == call'[c].payload = call[c].payload /\ call'[c].target = call[c].target
Counts(c) ==
  /\ \A b \in Approval \ {call[c].a} : applied'[b] = applied[b]
  /\ applied'[call[c].a] = applied[call[c].a] + 1
  /\ overlapped' = overlapped /\ lost' = lost

\* A handler's row is one of the rows.
LEMMA OfRow ==
  ASSUME CallsTyped, NEW c \in Call
  PROVE  call[c].a \in Approval /\ call[c].payload \in Payloads /\ call[c].verb \in Verb
BY DEF CallsTyped, CallType

\* The decision, in its two forms.
LEMMA Decides ==
  ASSUME Rows, CallsTyped, NEW c \in Call, Decide(c)
  PROVE  /\ Rows' /\ CallsTyped'
         /\ \A b \in Approval \ {call[c].a} : row'[b] = row[b]
         /\ row'[call[c].a].op = row[call[c].a].op
         /\ row'[call[c].a].payload = row[call[c].a].payload
         /\ \/ /\ Moves(c, "approved") /\ call'[c].payload = row[call[c].a].payload
               /\ row'[call[c].a].status = "approved"
            \/ Ends(c) /\ row'[call[c].a].status \in {"rejected", "cancelled"}
<1> DEFINE a == call[c].a
           s == Outcome(call[c].verb)
           y == [row[a] EXCEPT !.status = s]
           z == [call[c] EXCEPT !.pc = "approved", !.payload = row[a].payload]
<1>1. a \in Approval /\ call[c].verb \in Verb \ {"edit"}
  BY OfRow DEF Decide
<1>2. /\ s \in {"approved", "rejected", "cancelled"}
      /\ s = "approved" <=> call[c].verb = "approve"
  BY <1>1 DEF Outcome, Verb
<1>3. row[a] \in RowType /\ call[c] \in CallType
  BY <1>1 DEF Rows, CallsTyped
<1>4. y \in RowType /\ y.status = s /\ y.op = row[a].op /\ y.payload = row[a].payload
  BY <1>2, <1>3 DEF RowType, Status
<1>5. /\ z \in CallType /\ z.pc = "approved" /\ z.a = a /\ z.verb = call[c].verb
      /\ z.payload = row[a].payload
  BY <1>3 DEF CallType, RowType, Pc
<1>6. row' = [row EXCEPT ![a] = y]
  BY DEF Decide
<1>7. CASE call[c].verb = "approve"
  <2>1. call' = [call EXCEPT ![c] = z]
    BY <1>7 DEF Decide
  <2> HIDE DEF y, z, s, a
  <2>2. /\ Rows' /\ CallsTyped' /\ \A b \in Approval \ {a} : row'[b] = row[b]
        /\ row'[a] = y /\ call'[c] = z /\ \A d \in Call \ {c} : call'[d] = call[d]
    BY <1>1, <1>4, <1>5, <1>6, <2>1 DEF Rows, CallsTyped
  <2>3. a = call[c].a
    BY DEF a
  <2> QED BY <1>2, <1>4, <1>5, <1>7, <2>2, <2>3 DEF Moves
<1>8. CASE call[c].verb # "approve"
  <2>1. Return(c)
    BY <1>8 DEF Decide, Return
  <2>2. Ends(c) /\ CallsTyped'
    BY <2>1, Turns
  <2> HIDE DEF y, s, a
  <2>3. Rows' /\ row'[a] = y /\ \A b \in Approval \ {a} : row'[b] = row[b]
    BY <1>1, <1>4, <1>6 DEF Rows
  <2>4. a = call[c].a
    BY DEF a
  <2> QED BY <1>2, <1>4, <1>8, <2>2, <2>3, <2>4
<1> QED BY <1>7, <1>8

\* Reading a row.
LEMMA Reads ==
  ASSUME Rows, CallsTyped, NEW c \in Call, NEW a \in Approval, NEW verb \in Verb, Read(c, a, verb)
  PROVE  /\ CallsTyped' /\ \A d \in Call \ {c} : call'[d] = call[d]
         /\ call'[c].pc = "read" /\ call'[c].a = a /\ call'[c].payload = row[a].payload
<1> DEFINE z == [pc |-> "read", a |-> a, verb |-> verb, payload |-> row[a].payload, target |-> 0]
<1>1. z \in CallType
  BY DEF Rows, RowType, CallType, Pc
<1>2. z.pc = "read" /\ z.a = a /\ z.payload = row[a].payload /\ call' = [call EXCEPT ![c] = z]
  BY DEF Read
<1> HIDE DEF z
<1> QED BY <1>1, <1>2 DEF CallsTyped

\* Looking for a file.
LEMMA Finds ==
  ASSUME CallsTyped, Rest, NEW c \in Call, FindFile(c)
  PROVE  /\ CallsTyped' /\ call'[c].payload = call[c].payload
         /\ Moves(c, "failing") \/ (Moves(c, "found") /\ (call'[c].target = 0 <=> Of(c) = "create"))
<1> DEFINE pc == IF Found(c) THEN "found" ELSE "failing"
           z == [call[c] EXCEPT !.pc = pc, !.target = file]
<1>1. file \in Nat /\ pc \in {"found", "failing"} /\ (pc = "found" => (file = 0 <=> Of(c) = "create"))
  BY DEF Rest, Found
<1>2. /\ z \in CallType /\ z.pc = pc /\ z.a = call[c].a /\ z.verb = call[c].verb
      /\ z.payload = call[c].payload /\ z.target = file
  BY <1>1 DEF CallsTyped, CallType, Pc
<1>3. call' = [call EXCEPT ![c] = z]
  BY DEF FindFile
<1> HIDE DEF z, pc
<1>4. CallsTyped' /\ call'[c] = z /\ \A d \in Call \ {c} : call'[d] = call[d]
  BY <1>2, <1>3 DEF CallsTyped
<1> QED BY <1>1, <1>2, <1>4 DEF Moves

\* An effect is counted.
LEMMA Tooks ==
  ASSUME CallsTyped, Rest, NEW c \in Call, Took(c)
  PROVE  Counts(c) /\ applied' \in [Approval -> Nat]
BY OfRow DEF Rest, Took, Counts

-----------------------------------------------------------------------------
(* The invariant.  TypeOK alone is not inductive: a proposal sets what its row *)
(* is for, which must not happen under a handler.                              *)

Begun == \A c \in Call : ~At(c, "idle") => row[call[c].a].status # "none"

Core == Rows /\ CallsTyped /\ Rest /\ Target /\ Begun

\* A handler is at work on a row.
On(c, a) == ~At(c, "idle") /\ call[c].a = a

Alone(a) == \A c, d \in Call : On(c, a) /\ On(d, a) => c = d

\* Before the decision nothing has happened, and handlers have only read.
Waiting(a) ==
  row[a].status \in {"none", "pending"} =>
    /\ applied[a] = 0 /\ row[a].payload.stamp = "none"
    /\ \A c \in Call : On(c, a) => At(c, "read")

Denied(a) == row[a].status \in {"rejected", "cancelled"} => applied[a] = 0 /\ Settled(a)

\* What a handler goes by is what the row says, and it has got as far as the effect has.
Working(a) ==
  \A c \in Call : On(c, a) =>
    /\ call[c].payload = row[a].payload /\ row[a].payload.stamp = "none"
    /\ At(c, "read") => row[a].status = "pending"
    /\ ~At(c, "read") => row[a].status = "approved"
    /\ call[c].pc \in {"approved", "found"} => applied[a] = 0
    /\ At(c, "spawned") => applied[a] = 1
    /\ At(c, "failing") /\ a \notin lost => applied[a] = 0

Told(a) ==
  a \notin lost /\ row[a].status = "approved" /\ Settled(a) =>
    (applied[a] = 1 <=> row[a].payload.stamp # "failed")

\* A child is the work of a handler about to record it, or is recorded.
Recorded(a, k) ==
  \/ a \in lost
  \/ \E c \in Call : On(c, a) /\ At(c, "spawned") /\ call[c].payload.version = k.version
  \/ Settled(a) /\ row[a].payload = [version |-> k.version, stamp |-> "spawned"]
Children(a) ==
  \A i \in DOMAIN child : child[i].by = a => applied[a] = 1 /\ Recorded(a, child[i])

Good(a) ==
  Alone(a) /\ Waiting(a) /\ Denied(a) /\ applied[a] <= 1 /\ Working(a) /\ Told(a) /\ Children(a)

Goods == \A a \in Approval \ overlapped : Good(a)

IInv == Core /\ Goods

\* The invariant holds at first.
LEMMA InitIInv == Init => IInv
<1> SUFFICES ASSUME Init PROVE IInv
  OBVIOUS
<1>1. Proposed \in Payloads /\ Proposed.stamp = "none"
  BY DEF Proposed, Payloads, Stamp
<1>2. Rows /\ \A a \in Approval : row[a].status = "none" /\ row[a].payload = Proposed
  BY <1>1 DEF Init, Rows, RowType, Status, Op
<1>3. CallsTyped /\ \A c \in Call : At(c, "idle")
  <2>1. (CHOOSE a \in Approval : TRUE) \in Approval
    BY ApprovalsAssumption
  <2>2. Idle \in CallType /\ Idle.pc = "idle"
    BY <1>1, <2>1 DEF Idle, CallType, Pc, Verb
  <2> QED BY <2>2 DEF Init, CallsTyped, At
<1>4. Rest
  BY ApprovalsAssumption DEF Init, Rest
<1>5. Core
  BY <1>2, <1>3, <1>4 DEF Core, Target, Begun, At
<1>6. ASSUME NEW a \in Approval PROVE Good(a)
  <2>1. \A c \in Call : ~On(c, a)
    BY <1>3 DEF On
  <2>2. applied[a] = 0 /\ DOMAIN child = {}
    BY DEF Init
  <2> QED BY <1>1, <1>2, <2>1, <2>2 DEF Good, Alone, Waiting, Denied, Working, Told, Children
<1> QED BY <1>5, <1>6 DEF IInv, Goods

-----------------------------------------------------------------------------
(* A step changes one handler and its row; what holds of the other rows goes on to hold. *)

\* Nothing that matters to a row has changed.
Same(b) ==
  /\ row'[b] = row[b] /\ applied'[b] = applied[b] /\ (b \in lost => b \in lost')
  /\ \A d \in Call : On(d, b)' <=> On(d, b)
  /\ \A d \in Call : On(d, b) => call'[d].pc = call[d].pc /\ call'[d].payload = call[d].payload
  /\ \A i \in DOMAIN child' : child'[i].by = b => i \in DOMAIN child /\ child'[i] = child[i]

\* Then what held of it still does.
LEMMA SameGood ==
  ASSUME NEW b, Same(b), Good(b)
  PROVE  Good(b)'
<1>1. Alone(b)'
  BY DEF Same, Good, Alone
<1>2. Waiting(b)'
  BY DEF Same, Good, Waiting, At
<1>3. Settled(b)' <=> Settled(b)
  BY DEF Same, Settled, On
<1>4. Denied(b)'
  BY <1>3 DEF Same, Good, Denied
<1>5. (applied[b] <= 1)'
  BY DEF Same, Good
<1>6. Working(b)'
  <2> SUFFICES ASSUME NEW c \in Call, On(c, b)'
               PROVE  /\ call'[c].payload = row'[b].payload /\ row'[b].payload.stamp = "none"
                      /\ (At(c, "read") => row[b].status = "pending")'
                      /\ (~At(c, "read") => row[b].status = "approved")'
                      /\ (call[c].pc \in {"approved", "found"} => applied[b] = 0)'
                      /\ (At(c, "spawned") => applied[b] = 1)'
                      /\ (At(c, "failing") /\ b \notin lost => applied[b] = 0)'
    BY DEF Working
  <2>1. On(c, b) /\ call'[c].pc = call[c].pc /\ call'[c].payload = call[c].payload
    BY DEF Same
  <2> QED BY <2>1 DEF Same, Good, Working, At
<1>7. Told(b)'
  BY <1>3 DEF Same, Good, Told
<1>8. Children(b)'
  <2>1. ASSUME NEW k PROVE Recorded(b, k) => Recorded(b, k)'
    BY <1>3 DEF Same, Recorded, At
  <2>2. ASSUME NEW i \in DOMAIN child', child'[i].by = b
        PROVE  applied'[b] = 1 /\ i \in DOMAIN child /\ child'[i] = child[i] /\ Recorded(b, child[i])
    BY <2>2 DEF Good, Children, Same
  <2> QED BY <2>1, <2>2 DEF Children
<1> QED BY <1>1, <1>2, <1>4, <1>5, <1>6, <1>7, <1>8 DEF Good

\* A handler does its next statement, on its own row.
Frame(c, a) ==
  /\ ~At(c, "idle") /\ call[c].a = a
  /\ Ends(c) \/ \E pc \in Pc \ {"idle"} : Moves(c, pc)
  /\ Rows' /\ CallsTyped' /\ Rest'
  /\ \A b \in Approval \ {a} :
       row'[b] = row[b] /\ applied'[b] = applied[b] /\ (b \in lost => b \in lost')
  /\ row'[a].op = row[a].op
  /\ row'[a].status = "none" => row[a].status = "none"
  /\ overlapped' = overlapped
  /\ \A i \in DOMAIN child' : child'[i].by # a => i \in DOMAIN child /\ child'[i] = child[i]
  /\ call'[c].pc = "found" => (call'[c].target = 0 <=> row[a].op = "create")

\* It is enough that its own row is left as it should be.
LEMMA FrameStep ==
  ASSUME Core, Goods, NEW c \in Call, NEW a, Frame(c, a), a \notin overlapped /\ Good(a) => Good(a)'
  PROVE  Core' /\ Goods'
<1>1. /\ a \in Approval
      /\ \A d \in Call \ {c} : call'[d] = call[d]
      /\ ~(call'[c].pc = "idle") => call'[c].a = a
  BY OfRow DEF Core, Frame, Ends, Moves
<1>2. /\ \A b \in Approval : row'[b].op = row[b].op
      /\ \A b \in Approval : row'[b].status = "none" => row[b].status = "none"
  BY DEF Frame
<1>3. \A d \in Call : call[d].a \in Approval
  BY DEF Core, CallsTyped, CallType
<1>4. Begun'
  <2> SUFFICES ASSUME NEW d \in Call, ~(call'[d].pc = "idle") PROVE row'[call'[d].a].status # "none"
    BY DEF Begun, At
  <2>1. CASE d = c
    BY <1>1, <1>2, <2>1 DEF Frame, Core, Begun, At
  <2>2. CASE d # c
    BY <1>1, <1>2, <1>3, <2>2 DEF Core, Begun, At
  <2> QED BY <2>1, <2>2
<1>5. Target'
  <2> SUFFICES ASSUME NEW d \in Call, call'[d].pc = "found"
               PROVE  call'[d].target = 0 <=> row'[call'[d].a].op = "create"
    BY DEF Target, At, Of
  <2>1. CASE d = c
    BY <1>1, <1>2, <2>1 DEF Frame
  <2>2. CASE d # c
    BY <1>1, <1>2, <1>3, <2>2 DEF Core, Target, At, Of
  <2> QED BY <2>1, <2>2
<1>6. Core'
  BY <1>4, <1>5 DEF Core, Frame
<1>7. ASSUME NEW b \in Approval \ overlapped', b # a PROVE Good(b)'
  <2>1. Good(b) /\ b \in Approval \ {a}
    BY <1>7 DEF Goods, Frame
  <2>2. ~On(c, b) /\ ~On(c, b)'
    BY <1>1, <1>7 DEF Frame, On, At
  <2>3. \A d \in Call \ {c} : On(d, b)' <=> On(d, b)
    BY <1>1 DEF On, At
  <2>4. \A d \in Call : On(d, b) => call'[d].pc = call[d].pc /\ call'[d].payload = call[d].payload
    BY <1>1, <2>2
  <2>5. Same(b)
    BY <2>1, <2>2, <2>3, <2>4, <1>7 DEF Same, Frame
  <2> QED BY <2>1, <2>5, SameGood
<1>8. a \notin overlapped' => Good(a)'
  BY <1>1 DEF Frame, Goods
<1>9. Goods'
  BY <1>7, <1>8 DEF Goods
<1> QED BY <1>6, <1>9

\* A row whose only handler has ended.
LEMMA EndGood ==
  ASSUME NEW a, NEW c \in Call, Alone(a), On(c, a), Ends(c),
         applied'[a] \in {0, 1},
         row'[a].status \in {"none", "pending"} =>
           applied'[a] = 0 /\ row'[a].payload.stamp = "none",
         row'[a].status \in {"rejected", "cancelled"} => applied'[a] = 0,
         a \notin lost' /\ row'[a].status = "approved" =>
           (applied'[a] = 1 <=> row'[a].payload.stamp # "failed"),
         \A i \in DOMAIN child' : child'[i].by = a =>
           /\ applied'[a] = 1
           /\ a \in lost' \/ row'[a].payload = [version |-> child'[i].version, stamp |-> "spawned"]
  PROVE  Good(a)'
<1>1. \A d \in Call : ~(call'[d].pc # "idle" /\ call'[d].a = a)
  BY DEF Alone, Ends, On, At
<1>2. Settled(a)' /\ \A d \in Call : ~On(d, a)'
  BY <1>1 DEF Settled, On, At
<1>3. Alone(a)' /\ Waiting(a)' /\ Denied(a)' /\ Working(a)' /\ Told(a)'
  BY <1>2 DEF Alone, Waiting, Denied, Working, Told
<1>4. Children(a)'
  BY <1>2 DEF Children, Recorded
<1>5. (applied[a] <= 1)'
  OBVIOUS
<1> QED BY <1>3, <1>4, <1>5 DEF Good

\* An approved row whose only handler goes on.
LEMMA MoveGood ==
  ASSUME NEW a, NEW c \in Call, NEW pc \in {"approved", "found", "spawned", "failing"},
         Alone(a), On(c, a), Moves(c, pc),
         applied'[a] \in {0, 1}, row'[a].status = "approved",
         call'[c].payload = row'[a].payload, row'[a].payload.stamp = "none",
         pc \in {"approved", "found"} => applied'[a] = 0,
         pc = "spawned" => applied'[a] = 1,
         pc = "failing" /\ a \notin lost' => applied'[a] = 0,
         \A i \in DOMAIN child' : child'[i].by = a =>
           /\ applied'[a] = 1
           /\ a \in lost' \/ (pc = "spawned" /\ call'[c].payload.version = child'[i].version)
  PROVE  Good(a)'
<1>1. \A d \in Call : (call'[d].pc # "idle" /\ call'[d].a = a) <=> d = c
  BY DEF Alone, Moves, On, At
<1>2. ~Settled(a)' /\ (\A d \in Call : On(d, a)' <=> d = c) /\ call'[c].pc = pc
  BY <1>1 DEF Settled, On, At, Moves
<1>3. Alone(a)' /\ Waiting(a)' /\ Denied(a)' /\ Told(a)'
  BY <1>2 DEF Alone, Waiting, Denied, Told
<1>4. Working(a)'
  BY <1>2 DEF Working, At
<1>5. Children(a)'
  BY <1>2 DEF Children, Recorded, At
<1>6. (applied[a] <= 1)'
  OBVIOUS
<1> QED BY <1>3, <1>4, <1>5, <1>6 DEF Good

-----------------------------------------------------------------------------
(* The steps of a handler. *)

\* What the invariant says of a handler and its row.
LEMMA AtWork ==
  ASSUME Core, NEW c \in Call, Good(call[c].a), ~At(c, "idle")
  PROVE  LET a == call[c].a IN
         /\ a \in Approval /\ Alone(a) /\ On(c, a) /\ row[a] \in RowType
         /\ applied[a] \in {0, 1}
         /\ call[c].payload = row[a].payload /\ row[a].payload.stamp = "none"
         /\ At(c, "read") => row[a].status = "pending" /\ applied[a] = 0
         /\ ~At(c, "read") => row[a].status = "approved"
         /\ call[c].pc \in {"approved", "found"} => applied[a] = 0
         /\ At(c, "spawned") => applied[a] = 1
         /\ At(c, "failing") /\ a \notin lost => applied[a] = 0
         /\ \A i \in DOMAIN child : child[i].by = a => applied[a] = 1
<1>1. call[c].a \in Approval /\ row[call[c].a] \in RowType /\ applied[call[c].a] \in Nat
  BY OfRow DEF Core, Rows, Rest
<1>2. On(c, call[c].a)
  BY DEF On
<1>3. Working(call[c].a) /\ Waiting(call[c].a) /\ Children(call[c].a) /\ applied[call[c].a] <= 1
  BY DEF Good
<1>4. applied[call[c].a] \in {0, 1}
  BY <1>1, <1>3
<1>5. At(c, "read") => row[call[c].a].status = "pending"
  BY <1>2, <1>3 DEF Working
<1>6. At(c, "read") => applied[call[c].a] = 0
  BY <1>3, <1>5 DEF Waiting
<1> QED BY <1>1, <1>2, <1>3, <1>4, <1>5, <1>6 DEF Working, Children, Good

\* The decision: a denial ends the handler, an approval goes on with what the row says.
LEMMA DecideStep ==
  ASSUME Core, Goods, NEW c \in Call, Decide(c)
  PROVE  Core' /\ Goods'
<1>1. PICK a : a = call[c].a
  OBVIOUS
<1>2. At(c, "read") /\ ~At(c, "idle") /\ a \in Approval
  BY <1>1, OfRow DEF Decide, At, Core
<1>3. UNCHANGED <<things, edits, history, bounds>>
  BY DEF Decide
<1>4. /\ Rows' /\ CallsTyped'
      /\ \A b \in Approval \ {a} : row'[b] = row[b]
      /\ row'[a].op = row[a].op /\ row'[a].payload = row[a].payload
      /\ \/ /\ Moves(c, "approved") /\ call'[c].payload = row[a].payload
            /\ row'[a].status = "approved"
         \/ Ends(c) /\ row'[a].status \in {"rejected", "cancelled"}
  BY <1>1, Decides DEF Core
<1>5. Rest'
  BY <1>3 DEF Core, Rest, things, history, bounds
<1>6. Frame(c, a)
  BY <1>1, <1>2, <1>3, <1>4, <1>5 DEF Frame, Moves, Ends, Pc, things, history
<1>7. ASSUME a \notin overlapped, Good(a) PROVE Good(a)'
  <2>1. /\ Alone(a) /\ On(c, a) /\ row[a].payload.stamp = "none" /\ applied'[a] = 0
        /\ \A i \in DOMAIN child' : child'[i].by # a
    BY <1>1, <1>2, <1>3, <1>7, AtWork DEF things, history
  <2>2. CASE Moves(c, "approved") /\ call'[c].payload = row[a].payload /\ row'[a].status = "approved"
    BY <1>4, <2>1, <2>2, MoveGood
  <2>3. CASE Ends(c) /\ row'[a].status \in {"rejected", "cancelled"}
    BY <1>4, <2>1, <2>3, EndGood
  <2> QED BY <1>4, <2>2, <2>3
<1> QED BY <1>6, <1>7, FrameStep

\* An edit of a row that still waits.
LEMMA EditStep ==
  ASSUME Core, Goods, NEW c \in Call, Edit(c)
  PROVE  Core' /\ Goods'
<1>1. PICK a : a = call[c].a
  OBVIOUS
<1> DEFINE p == [call[c].payload EXCEPT !.version = edits']
<1>2. At(c, "read") /\ ~At(c, "idle") /\ a \in Approval /\ call[c].payload \in Payloads
  BY <1>1, OfRow DEF Edit, At, Core
<1>3. UNCHANGED <<things, history, bounds>> /\ edits' \in Nat
  BY DEF Edit, Core, Rest
<1>4. p \in Payloads /\ p.stamp = call[c].payload.stamp
  BY <1>2, <1>3, PayloadTypes
<1>5. Writes(a, p) /\ Rows' /\ Ends(c) /\ CallsTyped'
  <2>1. Write(c, p) /\ Return(c)
    BY DEF Edit
  <2> HIDE DEF p
  <2> QED BY <1>1, <1>4, <2>1, WriteRow, Turns DEF Core
<1> HIDE DEF p
<1>6. Rest'
  BY <1>3 DEF Core, Rest, things, history, bounds
<1>7. Frame(c, a)
  BY <1>1, <1>2, <1>3, <1>5, <1>6 DEF Frame, Writes, Ends, things, history
<1>8. ASSUME a \notin overlapped, Good(a) PROVE Good(a)'
  <2>1. /\ Alone(a) /\ On(c, a) /\ row[a].payload.stamp = "none" /\ applied'[a] = 0
        /\ call[c].payload = row[a].payload /\ row[a].status = "pending"
        /\ \A i \in DOMAIN child' : child'[i].by # a
    BY <1>1, <1>2, <1>3, <1>8, AtWork DEF things, history
  <2> QED BY <1>4, <1>5, <2>1, EndGood DEF Writes
<1> QED BY <1>7, <1>8, FrameStep

\* A handler that goes on without an effect.
LEMMA Onward ==
  ASSUME Core, Goods, NEW c \in Call, NEW pc \in {"found", "failing"}, Moves(c, pc), CallsTyped',
         call'[c].payload = call[c].payload, UNCHANGED <<row, child, applied, overlapped>>,
         Rest', lost \subseteq lost',
         call[c].pc \in {"approved", "found"} \/ (At(c, "spawned") /\ pc = "failing" /\ call[c].a \in lost'),
         pc = "found" => (call'[c].target = 0 <=> Of(c) = "create")
  PROVE  Core' /\ Goods'
<1>1. PICK a : a = call[c].a
  OBVIOUS
<1>2. ~At(c, "idle") /\ ~At(c, "read") /\ a \in Approval /\ Rows'
  BY <1>1, OfRow DEF At, Core, Rows
<1>3. Frame(c, a)
  BY <1>1, <1>2 DEF Frame, Moves, Pc, Of
<1>4. ASSUME a \notin overlapped, Good(a) PROVE Good(a)'
  <2>1. /\ Alone(a) /\ On(c, a) /\ row[a].payload.stamp = "none" /\ row[a].status = "approved"
        /\ call[c].payload = row[a].payload /\ applied[a] \in {0, 1}
        /\ call[c].pc \in {"approved", "found"} => applied[a] = 0
        /\ \A i \in DOMAIN child : child[i].by = a => applied[a] = 1
    BY <1>1, <1>2, <1>4, AtWork
  <2>2. call[c].pc \in {"approved", "found"} \/ (pc = "failing" /\ a \in lost')
    BY <1>1
  <2>3. CASE call[c].pc \in {"approved", "found"}
    <3>1. applied'[a] = 0 /\ \A i \in DOMAIN child' : child'[i].by # a
      BY <2>1, <2>3
    <3> QED BY <2>1, <3>1, MoveGood
  <2>4. CASE pc = "failing" /\ a \in lost'
    BY <2>1, <2>4, MoveGood
  <2> QED BY <2>2, <2>3, <2>4
<1> QED BY <1>3, <1>4, FrameStep

\* A handler that ends with an effect, or without one.
LEMMA Concluded ==
  ASSUME Core, Goods, NEW c \in Call, ~At(c, "idle"), Ends(c), CallsTyped',
         UNCHANGED <<row, child, overlapped>>, Rest', lost \subseteq lost',
         \/ call[c].pc \in {"approved", "found"} /\ Counts(c)
         \/ applied' = applied /\ (At(c, "read") \/ call[c].a \in lost')
  PROVE  Core' /\ Goods'
<1>1. PICK a : a = call[c].a
  OBVIOUS
<1>2. a \in Approval /\ Rows'
  BY <1>1, OfRow DEF Core, Rows
<1>3. Frame(c, a)
  BY <1>1, <1>2 DEF Frame, Ends, Counts
<1>4. ASSUME a \notin overlapped, Good(a) PROVE Good(a)'
  <2>1. /\ Alone(a) /\ On(c, a) /\ row[a].payload.stamp = "none" /\ applied[a] \in {0, 1}
        /\ At(c, "read") => row[a].status = "pending" /\ applied[a] = 0
        /\ ~At(c, "read") => row[a].status = "approved"
        /\ call[c].pc \in {"approved", "found"} => applied[a] = 0
        /\ \A i \in DOMAIN child : child[i].by = a => applied[a] = 1
    BY <1>1, <1>2, <1>4, AtWork
  <2>2. CASE call[c].pc \in {"approved", "found"} /\ Counts(c)
    <3>1. applied'[a] = 1 /\ row'[a].status = "approved" /\ \A i \in DOMAIN child' : child'[i].by # a
      BY <1>1, <2>1, <2>2 DEF Counts, At
    <3> QED BY <2>1, <3>1, EndGood
  <2>3. CASE applied' = applied /\ At(c, "read")
    <3>1. applied'[a] = 0 /\ row'[a].status = "pending" /\ \A i \in DOMAIN child' : child'[i].by # a
      BY <2>1, <2>3
    <3> QED BY <2>1, <3>1, EndGood
  <2>4. CASE applied' = applied /\ ~At(c, "read") /\ a \in lost'
    <3>1. row'[a].status = "approved" /\ applied'[a] \in {0, 1}
      BY <2>1, <2>4
    <3> QED BY <2>1, <2>4, <3>1, EndGood
  <2> QED BY <1>1, <2>2, <2>3, <2>4
<1> QED BY <1>3, <1>4, FrameStep

\* The proposal fails its second look.
LEMMA InvalidStep ==
  ASSUME Core, Goods, NEW c \in Call, NoLongerValid(c)
  PROVE  Core' /\ Goods'
<1>1. UNCHANGED <<row, child, applied, overlapped, lost>> /\ Rest' /\ At(c, "approved")
  BY DEF NoLongerValid, things, history, bounds, Core, Rest
<1>2. Moves(c, "failing") /\ CallsTyped' /\ call'[c].payload = call[c].payload
  BY Turns DEF NoLongerValid, Pc, Core
<1> QED BY <1>1, <1>2, Onward DEF At

\* The file is looked for.
LEMMA FindStep ==
  ASSUME Core, Goods, NEW c \in Call, FindFile(c)
  PROVE  Core' /\ Goods'
<1>1. UNCHANGED <<row, child, applied, overlapped, lost>> /\ Rest' /\ At(c, "approved")
  BY DEF FindFile, things, history, bounds, Core, Rest
<1>2. /\ CallsTyped' /\ call'[c].payload = call[c].payload
      /\ Moves(c, "failing") \/ (Moves(c, "found") /\ (call'[c].target = 0 <=> Of(c) = "create"))
  BY Finds DEF Core
<1>3. CASE Moves(c, "failing")
  BY <1>1, <1>2, <1>3, Onward DEF At
<1>4. CASE Moves(c, "found") /\ (call'[c].target = 0 <=> Of(c) = "create")
  BY <1>1, <1>2, <1>4, Onward DEF At
<1> QED BY <1>2, <1>3, <1>4

\* The file is created, unless it has come to be there.
LEMMA InsertStep ==
  ASSUME Core, Goods, NEW c \in Call, InsertFile(c)
  PROVE  Core' /\ Goods'
<1>1. UNCHANGED <<row, child, record, edits, bounds, overlapped, lost>> /\ At(c, "found")
  BY DEF InsertFile, Took, history
<1>2. CASE file = 0
  <2>1. file' = files + 1 /\ files' = files + 1 /\ Took(c) /\ Return(c)
    BY <1>2 DEF InsertFile
  <2>2. Counts(c) /\ Ends(c) /\ CallsTyped' /\ applied' \in [Approval -> Nat]
    BY <2>1, Tooks, Turns DEF Core
  <2>3. Rest'
    BY <1>1, <2>1, <2>2 DEF Core, Rest, bounds
  <2> QED BY <1>1, <2>2, <2>3, Concluded DEF At
<1>3. CASE file # 0
  <2>1. Goto(c, "failing") /\ UNCHANGED <<file, files, history>>
    BY <1>3 DEF InsertFile
  <2>2. Moves(c, "failing") /\ CallsTyped' /\ call'[c].payload = call[c].payload
    BY <2>1, Turns DEF Pc, Core
  <2>3. Rest' /\ applied' = applied
    BY <1>1, <2>1 DEF Core, Rest, bounds, history
  <2> QED BY <1>1, <2>2, <2>3, Onward DEF At
<1> QED BY <1>2, <1>3

\* The file is changed or deleted, if it is still the one that was found.
LEMMA ChangeStep ==
  ASSUME Core, Goods, NEW c \in Call, ChangeFile(c)
  PROVE  Core' /\ Goods'
<1>1. UNCHANGED <<row, child, files, record, edits, bounds>> /\ At(c, "found") /\ Return(c)
  BY DEF ChangeFile
<1>2. Ends(c) /\ CallsTyped'
  BY <1>1, Turns DEF Core
<1>3. CASE file = call[c].target
  <2>1. file' = (IF Of(c) = "delete" THEN 0 ELSE file) /\ Took(c)
    BY <1>3 DEF ChangeFile
  <2>2. Counts(c) /\ applied' \in [Approval -> Nat]
    BY <2>1, Tooks DEF Core
  <2>3. Rest' /\ UNCHANGED <<overlapped, lost>>
    BY <1>1, <2>1, <2>2 DEF Core, Rest, bounds, Took
  <2> QED BY <1>1, <1>2, <2>2, <2>3, Concluded DEF At
<1>4. CASE file # call[c].target
  <2>1. lost' = lost \cup {call[c].a} /\ UNCHANGED <<file, applied, overlapped>>
    BY <1>4 DEF ChangeFile
  <2>2. Rest'
    BY <1>1, <2>1, OfRow DEF Core, Rest, bounds
  <2> QED BY <1>1, <1>2, <2>1, <2>2, Concluded DEF At
<1> QED BY <1>3, <1>4

\* The record is removed, if it is there.
LEMMA RemoveStep ==
  ASSUME Core, Goods, NEW c \in Call, RemoveRecord(c)
  PROVE  Core' /\ Goods'
<1>1. UNCHANGED <<row, child, file, files, edits, bounds>> /\ At(c, "approved") /\ record' = FALSE
  BY DEF RemoveRecord
<1>2. CASE record
  <2>1. Took(c) /\ Return(c)
    BY <1>2 DEF RemoveRecord
  <2>2. Counts(c) /\ Ends(c) /\ CallsTyped' /\ applied' \in [Approval -> Nat]
    BY <2>1, Tooks, Turns DEF Core
  <2>3. Rest' /\ UNCHANGED <<overlapped, lost>>
    BY <1>1, <2>1, <2>2 DEF Core, Rest, bounds, Took
  <2> QED BY <1>1, <2>2, <2>3, Concluded DEF At
<1>3. CASE ~record
  <2>1. UNCHANGED history /\ Goto(c, "failing")
    BY <1>3 DEF RemoveRecord, NotRemoved
  <2>2. Moves(c, "failing") /\ CallsTyped' /\ call'[c].payload = call[c].payload
    BY <2>1, Turns DEF Pc, Core
  <2>3. Rest' /\ UNCHANGED <<applied, overlapped, lost>>
    BY <1>1, <2>1 DEF Core, Rest, bounds, history
  <2> QED BY <1>1, <2>2, <2>3, Onward DEF At
<1> QED BY <1>2, <1>3

\* The child is created, and its handler goes on to record it.
LEMMA SpawnStep ==
  ASSUME Core, Goods, NEW c \in Call, SpawnChild(c)
  PROVE  Core' /\ Goods'
<1>1. PICK a : a = call[c].a
  OBVIOUS
<1> DEFINE k == [by |-> a, version |-> call[c].payload.version]
<1>2. /\ At(c, "approved") /\ ~At(c, "idle") /\ ~At(c, "read") /\ call[c].pc \in {"approved", "found"}
      /\ UNCHANGED <<row, file, files, record, edits, bounds>>
      /\ child' = Append(child, k) /\ Took(c) /\ Goto(c, "spawned")
  BY <1>1 DEF SpawnChild, At
<1>3. a \in Approval /\ call[c].payload \in Payloads /\ k \in ChildType
  BY <1>1, OfRow DEF Core, ChildType, Payloads
<1>4. k.by = a /\ k.version = call[c].payload.version
  OBVIOUS
<1> HIDE DEF k
<1>5. /\ Moves(c, "spawned") /\ CallsTyped' /\ call'[c].payload = call[c].payload
      /\ Counts(c) /\ applied' \in [Approval -> Nat]
  BY <1>2, Turns, Tooks DEF Pc, Core
<1>6. child \in Seq(ChildType)
  BY DEF Core, Rest
<1>7. /\ child' \in Seq(ChildType) /\ DOMAIN child' = 1..(Len(child) + 1)
      /\ DOMAIN child = 1..Len(child) /\ Len(child) \in Nat
      /\ \A i \in 1..Len(child) : child'[i] = child[i]
      /\ child'[Len(child) + 1] = k
  BY <1>2, <1>3, <1>6
<1>8. /\ \A i \in DOMAIN child : i \in DOMAIN child' /\ child'[i] = child[i]
      /\ \A i \in DOMAIN child' : i \in DOMAIN child \/ child'[i] = k
  BY <1>7
<1>9. Rest' /\ Rows'
  BY <1>2, <1>5, <1>7 DEF Core, Rest, Rows, Counts, bounds
<1>10. Frame(c, a)
  BY <1>1, <1>2, <1>4, <1>5, <1>8, <1>9 DEF Frame, Counts, Moves, Pc
<1>11. ASSUME a \notin overlapped, Good(a) PROVE Good(a)'
  <2>1. /\ Alone(a) /\ On(c, a) /\ row[a].payload.stamp = "none" /\ row[a].status = "approved"
        /\ call[c].payload = row[a].payload /\ applied[a] = 0
        /\ \A i \in DOMAIN child : child[i].by = a => applied[a] = 1
    BY <1>1, <1>2, <1>11, AtWork
  <2>2. applied'[a] = 1
    BY <1>1, <2>1, <1>5 DEF Counts
  <2>3. \A i \in DOMAIN child' : child'[i].by = a => call'[c].payload.version = child'[i].version
    BY <1>4, <1>5, <1>8, <2>1
  <2> QED BY <1>2, <1>5, <2>1, <2>2, <2>3, MoveGood
<1> QED BY <1>10, <1>11, FrameStep

\* What became of the approval is written, with the payload the handler has.
LEMMA StampStep ==
  ASSUME Core, Goods, NEW c \in Call, StampSpawned(c) \/ StampFailure(c)
  PROVE  Core' /\ Goods'
<1>1. PICK a : a = call[c].a
  OBVIOUS
<1>2. PICK s \in {"spawned", "failed"} :
        /\ s = "spawned" => At(c, "spawned")
        /\ s = "failed" => At(c, "failing")
        /\ Write(c, [call[c].payload EXCEPT !.stamp = s]) /\ Return(c)
        /\ UNCHANGED <<things, edits, history, bounds>>
  BY DEF StampSpawned, StampFailure
<1>3. /\ a \in Approval /\ ~At(c, "idle") /\ ~At(c, "read")
      /\ call[c].payload \in Payloads
  BY <1>1, <1>2, OfRow DEF At, Core
<1>4. PICK p : p = [call[c].payload EXCEPT !.stamp = s]
  OBVIOUS
<1>5. p \in Payloads /\ p = [version |-> call[c].payload.version, stamp |-> s]
  BY <1>3, <1>4, PayloadTypes DEF Stamp
<1>6. Writes(a, p) /\ Rows' /\ Ends(c) /\ CallsTyped'
  BY <1>1, <1>2, <1>4, <1>5, WriteRow, Turns DEF Core
<1>7. Rest' /\ UNCHANGED <<child, applied, overlapped, lost>>
  BY <1>2 DEF Core, Rest, things, history, bounds
<1>8. Frame(c, a)
  BY <1>1, <1>3, <1>6, <1>7 DEF Frame, Writes, Ends
<1>9. ASSUME a \notin overlapped, Good(a) PROVE Good(a)'
  <2>1. /\ Alone(a) /\ On(c, a) /\ row[a].status = "approved" /\ applied[a] \in {0, 1}
        /\ At(c, "spawned") => applied[a] = 1
        /\ At(c, "failing") /\ a \notin lost => applied[a] = 0
        /\ \A i \in DOMAIN child : child[i].by = a => applied[a] = 1
        /\ Children(a) /\ Alone(a)
    BY <1>1, <1>3, <1>9, AtWork DEF Good
  <2>2. p.stamp = s /\ row'[a].payload = p /\ row'[a].status = "approved"
    BY <1>5, <1>6, <2>1 DEF Writes
  <2>3. a \notin lost' => (applied'[a] = 1 <=> row'[a].payload.stamp # "failed")
    BY <1>2, <1>7, <2>1, <2>2
  <2>4. ASSUME NEW i \in DOMAIN child', child'[i].by = a
        PROVE  /\ applied'[a] = 1
               /\ a \in lost' \/ row'[a].payload = [version |-> child'[i].version, stamp |-> "spawned"]
    <3>1. i \in DOMAIN child /\ applied[a] = 1 /\ Recorded(a, child[i])
      BY <1>7, <2>1, <2>4 DEF Children
    <3>2. ~Settled(a)
      BY <1>1, <1>3 DEF Settled
    <3>3. CASE a \in lost
      BY <1>7, <3>1, <3>3
    <3>4. CASE a \notin lost
      <4>1. PICK d \in Call : On(d, a) /\ At(d, "spawned") /\ call[d].payload.version = child[i].version
        BY <3>1, <3>2, <3>4 DEF Recorded
      <4>2. d = c
        BY <2>1, <4>1 DEF Alone
      <4>3. s = "spawned"
        BY <1>2, <4>1, <4>2 DEF At
      <4> QED BY <1>5, <1>7, <2>2, <3>1, <4>1, <4>2, <4>3
    <3> QED BY <3>3, <3>4
  <2> QED BY <1>6, <1>7, <2>1, <2>2, <2>3, <2>4, EndGood
<1> QED BY <1>8, <1>9, FrameStep

\* A statement throws.
LEMMA ThrowStep ==
  ASSUME Core, Goods, NEW c \in Call, Throw(c)
  PROVE  Core' /\ Goods'
<1>1. /\ UNCHANGED <<row, child, file, files, record, edits, applied, overlapped, requests>>
      /\ faults' \in 0..MaxFaults /\ ~At(c, "idle")
      /\ lost' = IF call[c].pc \in {"spawned", "failing"} THEN lost \cup {call[c].a} ELSE lost
  BY ApprovalsAssumption DEF Throw, Fault, things, Core, Rest
<1>2. call[c].a \in Approval /\ call[c].pc \in Pc
  BY OfRow DEF Core, CallsTyped, CallType
<1>3. Rest' /\ lost \subseteq lost'
  BY <1>1, <1>2 DEF Core, Rest
<1>4. CASE call[c].pc \in {"approved", "found", "spawned"}
  <2>1. Moves(c, "failing") /\ CallsTyped' /\ call'[c].payload = call[c].payload
    BY <1>4, Turns DEF Throw, Pc, Core
  <2>2. At(c, "spawned") => call[c].a \in lost'
    BY <1>1 DEF At
  <2> QED BY <1>1, <1>3, <1>4, <2>1, <2>2, Onward DEF At
<1>5. CASE call[c].pc \notin {"approved", "found", "spawned"}
  <2>1. Ends(c) /\ CallsTyped'
    BY <1>5, Turns DEF Throw, Core
  <2>2. At(c, "read") \/ call[c].a \in lost'
    BY <1>1, <1>2, <1>5 DEF At, Pc
  <2> QED BY <1>1, <1>3, <2>1, <2>2, Concluded
<1> QED BY <1>4, <1>5

-----------------------------------------------------------------------------
(* The other steps. *)

\* A proposal: no handler is at work on its row yet.
LEMMA ProposeStep ==
  ASSUME Core, Goods, NEW a \in Approval, NEW op \in Op, Propose(a, op)
  PROVE  Core' /\ Goods'
<1> DEFINE y == [row[a] EXCEPT !.status = "pending", !.op = op]
<1>1. row[a].status = "none" /\ UNCHANGED <<call, things, edits, history, bounds>>
  BY DEF Propose
<1>2. row[a] \in RowType
  BY DEF Core, Rows
<1>3. y \in RowType /\ y.status = "pending" /\ y.payload = row[a].payload
  BY <1>2 DEF RowType, Status
<1>4. row' = [row EXCEPT ![a] = y]
  BY DEF Propose
<1> HIDE DEF y
<1>5. Rows' /\ row'[a] = y /\ \A b \in Approval \ {a} : row'[b] = row[b]
  BY <1>3, <1>4 DEF Core, Rows
<1>6. \A c \in Call : call[c].pc # "idle" => call[c].a \in Approval \ {a}
  BY <1>1, OfRow DEF Core, Begun, At
<1>7. Rest' /\ CallsTyped' /\ UNCHANGED <<call, child, applied, overlapped, lost>>
  BY <1>1 DEF Core, Rest, CallsTyped, things, history, bounds
<1>8. Begun'
  BY <1>5, <1>6, <1>7 DEF Core, Begun, At
<1>9. Target'
  <2> SUFFICES ASSUME NEW c \in Call, call[c].pc = "found"
               PROVE  call[c].target = 0 <=> row'[call[c].a].op = "create"
    BY <1>7 DEF Target, At, Of
  <2>1. row'[call[c].a] = row[call[c].a]
    BY <1>5, <1>6
  <2> QED BY <2>1 DEF Core, Target, At, Of
<1>10. ASSUME NEW b \in Approval \ overlapped', b # a PROVE Good(b)'
  <2>1. Same(b) /\ Good(b)
    BY <1>5, <1>7, <1>10 DEF Same, On, At, Goods
  <2> QED BY <2>1, SameGood
<1>11. ASSUME a \notin overlapped' PROVE Good(a)'
  <2>1. Good(a)
    BY <1>7, <1>11 DEF Goods
  <2>2. applied'[a] = 0 /\ row'[a].payload.stamp = "none" /\ \A i \in DOMAIN child' : child'[i].by # a
    BY <1>1, <1>3, <1>5, <1>7, <2>1 DEF Good, Waiting, Children
  <2>3. \A c \in Call : ~(call'[c].pc # "idle" /\ call'[c].a = a)
    BY <1>6, <1>7
  <2>4. \A c \in Call : ~On(c, a)'
    BY <2>3 DEF On, At
  <2>5. row'[a].status = "pending"
    BY <1>3, <1>5
  <2> QED BY <2>2, <2>4, <2>5 DEF Good, Alone, Waiting, Denied, Working, Told, Children
<1>12. Goods'
  BY <1>10, <1>11 DEF Goods
<1> QED BY <1>5, <1>7, <1>8, <1>9, <1>12 DEF Core

\* A handler begins: alone on the row, or the row is overlapped from now on.
LEMMA ReadStep ==
  ASSUME Core, Goods, NEW c \in Call, NEW a \in Approval, NEW verb \in Verb, Read(c, a, verb)
  PROVE  Core' /\ Goods'
<1>1. /\ At(c, "idle") /\ row[a].status = "pending"
      /\ UNCHANGED <<row, child, file, files, record, edits, applied, lost, faults>>
      /\ requests' \in 0..MaxRequests
      /\ overlapped' = IF Settled(a) THEN overlapped ELSE overlapped \cup {a}
  BY ApprovalsAssumption DEF Read, Request, Decidable, things, Core, Rest
<1>2. /\ CallsTyped' /\ \A d \in Call \ {c} : call'[d] = call[d]
      /\ call'[c].pc = "read" /\ call'[c].a = a /\ call'[c].payload = row[a].payload
  BY Reads DEF Core
<1>3. Rows' /\ Rest'
  BY <1>1 DEF Core, Rows, Rest
<1>4. Begun'
  <2> SUFFICES ASSUME NEW d \in Call, call'[d].pc # "idle" PROVE row[call'[d].a].status # "none"
    BY <1>1 DEF Begun, At
  <2> QED BY <1>1, <1>2 DEF Core, Begun, At
<1>5. Target'
  <2> SUFFICES ASSUME NEW d \in Call, call'[d].pc = "found"
               PROVE  call'[d].target = 0 <=> row[call'[d].a].op = "create"
    BY <1>1 DEF Target, At, Of
  <2>1. d # c
    BY <1>2
  <2> QED BY <1>2, <2>1 DEF Core, Target, At, Of
<1>6. ASSUME NEW b \in Approval \ overlapped', b # a PROVE Good(b)'
  <2>1. Good(b)
    BY <1>1, <1>6 DEF Goods
  <2>2. ~On(c, b) /\ ~On(c, b)'
    BY <1>1, <1>2, <1>6 DEF On, At
  <2>3. \A d \in Call \ {c} : On(d, b)' <=> On(d, b)
    BY <1>2 DEF On, At
  <2>4. Same(b)
    BY <1>1, <1>2, <2>2, <2>3 DEF Same
  <2> QED BY <2>1, <2>4, SameGood
<1>7. ASSUME a \notin overlapped' PROVE Good(a)'
  <2>1. Settled(a) /\ Good(a)
    BY <1>1, <1>7 DEF Goods
  <2>2. /\ applied'[a] = 0 /\ row'[a].payload.stamp = "none" /\ row'[a].status = "pending"
        /\ \A i \in DOMAIN child' : child'[i].by # a
    BY <1>1, <2>1 DEF Good, Waiting, Children
  <2>3. \A d \in Call : (call'[d].pc # "idle" /\ call'[d].a = a) <=> d = c
    BY <1>2, <2>1 DEF Settled, At
  <2>4. \A d \in Call : On(d, a)' <=> d = c
    BY <2>3 DEF On, At
  <2>5. call'[c].payload = row'[a].payload
    BY <1>1, <1>2
  <2>6. Alone(a)' /\ Waiting(a)' /\ Denied(a)' /\ Told(a)' /\ Children(a)' /\ (applied[a] <= 1)'
    BY <1>2, <2>2, <2>4 DEF Alone, Waiting, Denied, Told, Children, At
  <2>7. Working(a)'
    BY <1>2, <2>2, <2>4, <2>5 DEF Working, At
  <2> QED BY <2>6, <2>7 DEF Good
<1>8. Goods'
  BY <1>6, <1>7 DEF Goods
<1> QED BY <1>2, <1>3, <1>4, <1>5, <1>8 DEF Core

\* A crash ends every handler; the approvals they were carrying out are lost.
LEMMA CrashStep ==
  ASSUME Core, Goods, Crash
  PROVE  Core' /\ Goods'
<1>1. /\ UNCHANGED <<row, child, file, files, record, edits, applied, overlapped, requests>>
      /\ faults' \in 0..MaxFaults
      /\ lost' = lost \cup {call[c].a : c \in {d \in Call : call[d].pc \notin {"idle", "read"}}}
      /\ call' = [c \in Call |-> Idle]
  BY ApprovalsAssumption DEF Crash, Fault, things, Core, Rest
<1>2. (CHOOSE a \in Approval : TRUE) \in Approval
  BY ApprovalsAssumption
<1>3. Idle \in CallType /\ Idle.pc = "idle"
  BY <1>2 DEF Idle, CallType, Pc, Verb, Payloads, Proposed, Stamp
<1>4. CallsTyped' /\ \A c \in Call : call'[c].pc = "idle"
  BY <1>1, <1>3 DEF CallsTyped
<1>5. \A c \in Call : call[c].a \in Approval
  BY OfRow DEF Core
<1>6. Rows' /\ Rest' /\ lost \subseteq lost'
  BY <1>1, <1>5 DEF Core, Rows, Rest
<1>7. Core'
  BY <1>4, <1>6 DEF Core, Begun, Target, At
<1>8. ASSUME NEW a \in Approval \ overlapped' PROVE Good(a)'
  <2>1. Good(a)
    BY <1>1 DEF Goods
  <2>2. Settled(a)' /\ \A c \in Call : ~On(c, a)'
    BY <1>4 DEF On, At, Settled
  <2>3. \A c \in Call : On(c, a) /\ ~At(c, "read") => a \in lost'
    BY <1>1 DEF On, At
  <2>4. row[a].status = "approved" => Settled(a) \/ a \in lost'
    BY <2>1, <2>3 DEF Good, Working, Settled, On
  <2>5. Alone(a)' /\ Waiting(a)' /\ Denied(a)' /\ (applied[a] <= 1)' /\ Working(a)'
    BY <1>1, <2>1, <2>2 DEF Good, Alone, Waiting, Denied, Working
  <2>6. Told(a)'
    BY <1>1, <1>6, <2>1, <2>4 DEF Good, Told
  <2>7. Children(a)'
    <3> SUFFICES ASSUME NEW i \in DOMAIN child, child[i].by = a
                 PROVE  applied[a] = 1 /\ Recorded(a, child[i])'
      BY <1>1 DEF Children
    <3>1. applied[a] = 1 /\ Recorded(a, child[i])
      BY <2>1 DEF Good, Children
    <3>2. a \in lost' \/ row[a].payload = [version |-> child[i].version, stamp |-> "spawned"]
      BY <1>6, <2>3, <3>1 DEF Recorded, At
    <3> QED BY <1>1, <2>2, <3>1, <3>2 DEF Recorded
  <2> QED BY <2>5, <2>6, <2>7 DEF Good
<1> QED BY <1>7, <1>8 DEF Goods

\* What touches neither rows nor handlers.
LEMMA AsideStep ==
  ASSUME Core, Goods, UNCHANGED <<row, call, child, history>>, Rest'
  PROVE  Core' /\ Goods'
<1>1. Core'
  BY DEF Core, Rows, CallsTyped, Target, Begun, At, Of
<1>2. ASSUME NEW a \in Approval \ overlapped' PROVE Good(a)'
  <2>1. Same(a) /\ Good(a)
    BY DEF Same, Goods, On, At, history
  <2> QED BY <2>1, SameGood
<1> QED BY <1>1, <1>2 DEF Goods

\* The operator at work on the same things.
LEMMA HandStep ==
  ASSUME Core, Goods, CreateByHand \/ DeleteByHand \/ RemoveByHand
  PROVE  Core' /\ Goods'
<1>1. UNCHANGED <<row, call, child, history>>
  BY DEF CreateByHand, DeleteByHand, RemoveByHand
<1>2. requests' \in 0..MaxRequests /\ faults' = faults
  BY ApprovalsAssumption DEF CreateByHand, DeleteByHand, RemoveByHand, Request, Core, Rest
<1>3. edits' = edits /\ UNCHANGED <<child, applied, overlapped, lost>>
  BY DEF CreateByHand, DeleteByHand, RemoveByHand, history
<1>4. files' \in Nat /\ file' \in 0..files' /\ record' \in BOOLEAN
  <2>1. CASE CreateByHand
    BY <2>1 DEF CreateByHand, Core, Rest
  <2>2. CASE DeleteByHand
    BY <2>2 DEF DeleteByHand, Core, Rest
  <2>3. CASE RemoveByHand
    BY <2>3 DEF RemoveByHand, Core, Rest
  <2> QED BY <2>1, <2>2, <2>3
<1>5. Rest'
  BY <1>2, <1>3, <1>4 DEF Core, Rest
<1> QED BY <1>1, <1>5, AsideStep

\* Every step keeps the invariant.
LEMMA NextIInv == IInv /\ [Next]_vars => IInv'
<1> SUFFICES ASSUME Core, Goods, [Next]_vars PROVE Core' /\ Goods'
  BY DEF IInv
<1>1. ASSUME NEW a \in Approval, NEW op \in Op, Propose(a, op) PROVE Core' /\ Goods'
  BY <1>1, ProposeStep
<1>2. ASSUME NEW a \in Approval, NEW c \in Call, NEW verb \in Verb, Read(c, a, verb)
      PROVE Core' /\ Goods'
  BY <1>2, ReadStep
<1>3. ASSUME NEW c \in Call, Handle(c) PROVE Core' /\ Goods'
  <2>1. CASE Decide(c)
    BY <2>1, DecideStep
  <2>2. CASE Edit(c)
    BY <2>2, EditStep
  <2>3. CASE NoLongerValid(c)
    BY <2>3, InvalidStep
  <2>4. CASE SpawnChild(c)
    BY <2>4, SpawnStep
  <2>5. CASE StampSpawned(c) \/ StampFailure(c)
    BY <2>5, StampStep
  <2>6. CASE FindFile(c)
    BY <2>6, FindStep
  <2>7. CASE InsertFile(c)
    BY <2>7, InsertStep
  <2>8. CASE ChangeFile(c)
    BY <2>8, ChangeStep
  <2>9. CASE RemoveRecord(c)
    BY <2>9, RemoveStep
  <2> QED BY <1>3, <2>1, <2>2, <2>3, <2>4, <2>5, <2>6, <2>7, <2>8, <2>9 DEF Handle
<1>4. ASSUME NEW c \in Call, Throw(c) PROVE Core' /\ Goods'
  BY <1>4, ThrowStep
<1>5. CASE Crash
  BY <1>5, CrashStep
<1>6. CASE CreateByHand \/ DeleteByHand \/ RemoveByHand
  BY <1>6, HandStep
<1>7. CASE UNCHANGED vars
  <2>1. UNCHANGED <<row, call, child, history>> /\ Rest'
    BY <1>7 DEF vars, things, bounds, history, Core, Rest
  <2> QED BY <2>1, AsideStep
<1> QED BY <1>1, <1>2, <1>3, <1>4, <1>5, <1>6, <1>7 DEF Next

\* The invariant always holds.
LEMMA Invariant == Spec => []IInv
BY InitIInv, NextIInv, PTL DEF Spec

-----------------------------------------------------------------------------
(* The theorems. *)

\* Types, and that a handler about to change a file has found one.
THEOREM TypeCorrect == Spec => []TypeOK
<1>1. IInv => TypeOK
  BY TypeParts DEF IInv, Core
<1> QED BY <1>1, Invariant, PTL

\* What was rejected or dismissed has done nothing (decide, dismiss).
THEOREM DeniedAlways == Spec => []DeniedHasNoEffect
<1>1. IInv => DeniedHasNoEffect
  <2> SUFFICES ASSUME IInv, NEW a \in Approval \ overlapped, row[a].status # "approved"
               PROVE  applied[a] = 0
    BY DEF DeniedHasNoEffect
  <2>1. Good(a) /\ row[a].status \in Status
    BY DEF IInv, Core, Goods, Rows, RowType
  <2> QED BY <2>1 DEF Good, Waiting, Denied, Status
<1> QED BY <1>1, Invariant, PTL

\* An approval takes effect once (decide, runApprovalSideEffect).
THEOREM AppliedOnceAlways == Spec => []AppliedOnce
<1>1. IInv => AppliedOnce
  BY DEF IInv, Goods, Good, AppliedOnce
<1> QED BY <1>1, Invariant, PTL

\* An approved row at rest has had its effect or says it failed (decide's stamp).
THEOREM StoryAlways == Spec => []RowTellsTheStory
<1>1. IInv => RowTellsTheStory
  BY DEF IInv, Goods, Good, Told, RowTellsTheStory
<1> QED BY <1>1, Invariant, PTL

\* The child that an approved delegation spawned is the one its row describes.
THEOREM ChildAlways == Spec => []ChildAsRecorded
<1>1. IInv => ChildAsRecorded
  <2> SUFFICES ASSUME IInv, NEW i \in DOMAIN child, NEW a, a = child[i].by,
                      a \notin overlapped \cup lost, Settled(a)
               PROVE  row[a].payload = [version |-> child[i].version, stamp |-> "spawned"]
    BY DEF ChildAsRecorded
  <2>1. child[i] \in ChildType
    <3>1. child \in Seq(ChildType)
      BY DEF IInv, Core, Rest
    <3> QED BY <3>1
  <2>2. a \in Approval
    BY <2>1 DEF ChildType
  <2>3. Recorded(a, child[i])
    BY <2>2 DEF IInv, Goods, Good, Children
  <2>4. \A c \in Call : ~On(c, a)
    BY DEF Settled, On
  <2> QED BY <2>3, <2>4 DEF Recorded
<1> QED BY <1>1, Invariant, PTL
=============================================================================
