----------------------------- MODULE EngineProofs -----------------------------
(***************************************************************************)
(* Proofs about Engine, for any processes and bounds.  The first part        *)
(* depends on the order of an operation's steps.  The second part says what   *)
(* a view folds to, of any ledger; the third what holds of the calls as long *)
(* as none overlaps another or is cut short; the last what holds of the      *)
(* checkpoints as long as no restore crosses another call.                   *)
(***************************************************************************)
EXTENDS Engine, FiniteSetTheorems, WellFoundedInduction, TLAPS

-----------------------------------------------------------------------------
(* The order of the steps of an operation *)

\* What the place of a step in its operation's plan says about the restores.
LEMMA PlanSteps ==
  ASSUME NEW p \in Procs, op[p].kind \in Kinds
  PROVE  /\ At(p, "append") /\ op[p].kind \in {"fork", "resume", "rollback"} => pc[p] = 3
         /\ At(p, "append") => op[p].kind # "none"
         /\ At(p, "view") /\ op[p].kind \in {"fork", "resume"} => pc[p] = 2
         /\ At(p, "view") /\ op[p].kind = "rollback" => pc[p] = 1
         /\ At(p, "snapshot") => op[p].kind = "checkpoint"
<1>1. CASE op[p].kind \in {"fork", "resume"}
  <2>1. Plan(op[p].kind) = <<"materialize", "view", "append">>
    BY <1>1 DEF Plan
  <2> QED
    BY <1>1, <2>1 DEF At
<1>2. CASE op[p].kind = "rollback"
  <2>1. Plan(op[p].kind) = <<"view", "materialize", "append">>
    BY <1>2 DEF Plan
  <2> QED
    BY <1>2, <2>1 DEF At
<1>3. CASE op[p].kind = "checkpoint"
  BY <1>3
<1>4. CASE op[p].kind \in {"startRun", "record"}
  <2>1. Plan(op[p].kind) = <<"view", "append">>
    BY <1>4 DEF Plan
  <2> QED
    BY <1>4, <2>1 DEF At
<1>5. CASE op[p].kind = "none"
  <2>1. Plan(op[p].kind) = <<>>
    BY <1>5 DEF Plan
  <2> QED
    BY <1>5, <2>1 DEF At
<1> QED
  BY <1>1, <1>2, <1>3, <1>4, <1>5 DEF Kinds

\* The events that say that a run works in its execution worktree.
RestoreTypes == {"agent.restored", "agent.forked"}

\* Only a restore appends such an event.
LEMMA RestoreEvents ==
  ASSUME NEW p \in Procs, op[p].kind \in Kinds, At(p, "append"), Final(p).type \in RestoreTypes
  PROVE  op[p].kind \in {"fork", "resume", "rollback"}
<1>1. op[p].kind # "none"
  BY PlanSteps
<1>2. CASE op[p].kind = "startRun"
  <2>1. Final(p).type = "run.created"
    BY <1>2 DEF Final, Created, Event
  <2> QED
    BY <2>1 DEF RestoreTypes
<1>3. CASE op[p].kind = "record"
  <2>1. Final(p).type = "observation"
    BY <1>3 DEF Final, Event
  <2> QED
    BY <2>1 DEF RestoreTypes
<1>4. CASE op[p].kind = "checkpoint"
  <2>1. Final(p).type = "checkpoint.created"
    BY <1>4 DEF Final, Event
  <2> QED
    BY <2>1 DEF RestoreTypes
<1> QED
  BY <1>1, <1>2, <1>3, <1>4 DEF Kinds

-----------------------------------------------------------------------------
(* The inductive invariant *)

\* What the steps rely on of the locals of the calls.
OpShape ==
  /\ op = [p \in Procs |-> op[p]]
  /\ \A p \in Procs : op[p] \in [kind : Kinds, target : Commits,
                                 from : {op[p].from}, replaced : BOOLEAN]

\* The shapes that the steps rely on.  They leave out the types of what a view
\* holds, and so of what a snapshot reads: a view is what the ledger folds to.
Shapes ==
  /\ log \in Seq({log[i] : i \in DOMAIN log})
  /\ base \in [Workspaces -> SUBSET Nat]
  /\ pc \in [Procs -> Nat]
  /\ OpShape

\* The operation has checked its commit out.
CheckedOut(p) ==
  \/ op[p].kind \in {"fork", "resume"} /\ pc[p] >= 2
  \/ op[p].kind = "rollback" /\ pc[p] >= 3

\* An operation that has checked its commit out leaves a worktree behind, which
\* is what makes ExecutionTreeExists hold when it appends its event.
TreeInv ==
  /\ Shapes
  /\ \A p \in Procs : CheckedOut(p) => base["execution"] # Absent
  /\ ExecutionTreeExists

LEMMA AppendShape ==
  ASSUME NEW e, log \in Seq({log[i] : i \in DOMAIN log})
  PROVE  LET longer == Append(log, e)
         IN /\ longer \in Seq({longer[i] : i \in DOMAIN longer})
            /\ Len(longer) = Len(log) + 1
            /\ DOMAIN longer = 1..(Len(log) + 1)
            /\ \A i \in DOMAIN log : longer[i] = log[i]
            /\ longer[Len(log) + 1] = e
<1> DEFINE S == {log[i] : i \in DOMAIN log} \cup {e}
           longer == Append(log, e)
<1>1. log \in Seq(S)
  OBVIOUS
<1>2. /\ longer \in Seq(S)
      /\ Len(longer) = Len(log) + 1
      /\ DOMAIN longer = 1..(Len(log) + 1)
      /\ \A i \in 1..Len(log) : longer[i] = log[i]
      /\ longer[Len(log) + 1] = e
  BY <1>1
<1>3. longer \in Seq({longer[i] : i \in DOMAIN longer})
  BY <1>2
<1> QED
  BY <1>2, <1>3

LEMMA InitTree == Init => TreeInv
<1> SUFFICES ASSUME Init PROVE TreeInv
  OBVIOUS
<1> DEFINE Start == [p \in Procs |-> NoOp]
<1>1. /\ base \in [Workspaces -> SUBSET Nat]
      /\ pc = [p \in Procs |-> IF Idle(p) THEN 0 ELSE 1]
  BY EngineAssumption DEF Init, Workspaces, Absent, NoCommit, CommitOf
<1>2. /\ log \in Seq({log[i] : i \in DOMAIN log})
      /\ \A i \in DOMAIN log : log[i].type \notin RestoreTypes
  <2>1. CASE log = <<Created, FirstCheckpoint>>
    <3>1. /\ Created.type = "run.created"
          /\ FirstCheckpoint.type = "checkpoint.created"
      BY DEF Created, FirstCheckpoint, Event
    <3>2. Len(log) = 2 /\ DOMAIN log = {1, 2} /\ log[1] = Created /\ log[2] = FirstCheckpoint
      BY <2>1
    <3>3. log \in Seq({Created, FirstCheckpoint})
      BY <2>1
    <3>4. {log[i] : i \in DOMAIN log} = {Created, FirstCheckpoint}
      BY <3>2
    <3> QED
      BY <3>1, <3>2, <3>3, <3>4 DEF RestoreTypes
  <2>2. CASE log = <<>>
    BY <2>2
  <2> QED
    BY <2>1, <2>2 DEF Init
<1>3. /\ {"none", "startRun", "fork"} \subseteq Kinds
      /\ {NoCommit, ForkCommit} \subseteq Commits
  BY EngineAssumption DEF Kinds, Commits, NoCommit, ForkCommit
<1>4. OpShape
  <2>1. CASE op = Start
    BY <2>1, EngineAssumption DEF OpShape, NoOp, Kinds, Commits, NoCommit
  <2>2. ASSUME NEW creator \in Procs, op = [Start EXCEPT ![creator].kind = "startRun"]
        PROVE  OpShape
    <3> DEFINE first == [NoOp EXCEPT !.kind = "startRun"]
    <3>1. /\ first \in [kind : Kinds, target : Commits, from : {{}}, replaced : BOOLEAN]
          /\ first.from = {}
      <4>1. NoOp \in [kind : Kinds, target : Commits, from : {{}}, replaced : BOOLEAN]
        BY <1>3 DEF NoOp
      <4>2. first \in [kind : Kinds, target : Commits, from : {{}}, replaced : BOOLEAN]
        BY <4>1, <1>3 DEF first
      <4> QED
        BY <4>2
    <3>2. op = [p \in Procs |-> IF p = creator THEN first ELSE NoOp]
      BY <2>2
    <3> HIDE DEF first, Start
    <3>3. NoOp.from = {} /\ NoOp \in [kind : Kinds, target : Commits, from : {{}}, replaced : BOOLEAN]
      BY EngineAssumption DEF NoOp, Kinds, Commits, NoCommit
    <3>4. ASSUME NEW p \in Procs
          PROVE  op[p] \in [kind : Kinds, target : Commits, from : {op[p].from}, replaced : BOOLEAN]
      BY <3>1, <3>2, <3>3
    <3> QED
      BY <3>2, <3>4 DEF OpShape
  <2>3. ASSUME NEW creator \in Procs,
               op = [Start EXCEPT ![creator].kind = "fork", ![creator].target = ForkCommit]
        PROVE  OpShape
    <3> DEFINE first == [NoOp EXCEPT !.kind = "fork", !.target = ForkCommit]
    <3>1. /\ first \in [kind : Kinds, target : Commits, from : {{}}, replaced : BOOLEAN]
          /\ first.from = {}
      <4>1. NoOp \in [kind : Kinds, target : Commits, from : {{}}, replaced : BOOLEAN]
        BY <1>3 DEF NoOp
      <4>2. first \in [kind : Kinds, target : Commits, from : {{}}, replaced : BOOLEAN]
        BY <4>1, <1>3 DEF first
      <4> QED
        BY <4>2
    <3>2. op = [p \in Procs |-> IF p = creator THEN first ELSE NoOp]
      BY <2>3
    <3> HIDE DEF first, Start
    <3>3. NoOp.from = {} /\ NoOp \in [kind : Kinds, target : Commits, from : {{}}, replaced : BOOLEAN]
      BY EngineAssumption DEF NoOp, Kinds, Commits, NoCommit
    <3>4. ASSUME NEW p \in Procs
          PROVE  op[p] \in [kind : Kinds, target : Commits, from : {op[p].from}, replaced : BOOLEAN]
      BY <3>1, <3>2, <3>3
    <3> QED
      BY <3>2, <3>4 DEF OpShape
  <2> QED
    BY <2>1, <2>2, <2>3 DEF Init
<1>5. \A p \in Procs : pc[p] \in {0, 1}
  BY <1>1
<1>6. \A p \in Procs : ~CheckedOut(p)
  BY <1>5 DEF CheckedOut
<1>7. pc \in [Procs -> Nat]
  BY <1>1
<1> QED
  BY <1>1, <1>2, <1>4, <1>6, <1>7 DEF TreeInv, Shapes, ExecutionTreeExists, RestoreTypes

-----------------------------------------------------------------------------
(* What a step does to the ledger, the worktree and the calls *)

\* What keeps TreeInv: the ledger grows by at most an event, which is a restore
\* only if the worktree exists; the worktree stays once it exists; and only a
\* call that checks out comes to have checked out.
LedgerStep ==
  \/ UNCHANGED log
  \/ \E e : /\ log' = Append(log, e)
            /\ e.type \in RestoreTypes => base["execution"] # Absent

TreeStep ==
  /\ base' \in [Workspaces -> SUBSET Nat]
  /\ base["execution"] # Absent => base'["execution"] # Absent

CallStep ==
  /\ pc' \in [Procs -> Nat]
  /\ OpShape'
  /\ \A p \in Procs : CheckedOut(p)' => CheckedOut(p) \/ base'["execution"] # Absent

\* A call that starts, ends or takes a new step that does not check out.
LEMMA EndCall ==
  ASSUME Shapes, NEW p \in Procs, NEW outcome, End(p, outcome)
  PROVE  /\ pc' \in [Procs -> Nat]
         /\ OpShape'
         /\ \A q \in Procs : CheckedOut(q)' => CheckedOut(q)
<1>1. NoOp.from = {} /\ NoOp.kind = "none"
      /\ NoOp \in [kind : Kinds, target : Commits, from : {{}}, replaced : BOOLEAN]
  BY EngineAssumption DEF NoOp, Kinds, Commits, NoCommit
<1>2. /\ pc' \in [Procs -> Nat] /\ pc'[p] = 0
      /\ \A q \in Procs \ {p} : pc'[q] = pc[q]
  BY DEF End, Shapes
<1>3. /\ op' = [q \in Procs |-> op'[q]] /\ op'[p] = NoOp
      /\ \A q \in Procs \ {p} : op'[q] = op[q]
  BY DEF End, Shapes, OpShape
<1>4. OpShape'
  BY <1>1, <1>3 DEF Shapes, OpShape
<1>5. ASSUME NEW q \in Procs, CheckedOut(q)' PROVE CheckedOut(q)
  BY <1>1, <1>2, <1>3, <1>5 DEF CheckedOut
<1> QED
  BY <1>2, <1>4, <1>5

\* The appended event is a restore only if its call has checked out.
LEMMA FinalStep ==
  ASSUME TreeInv, NEW p \in Procs, At(p, "append"), Final(p).type \in RestoreTypes
  PROVE  base["execution"] # Absent
<1>1. op[p].kind \in Kinds
  BY DEF TreeInv, Shapes, OpShape
<1>2. op[p].kind \in {"fork", "resume", "rollback"}
  BY <1>1, RestoreEvents
<1>3. pc[p] = 3
  BY <1>1, <1>2, PlanSteps
<1>4. CheckedOut(p)
  BY <1>2, <1>3 DEF CheckedOut
<1> QED
  BY <1>4 DEF TreeInv

\* The workspace that a checkpoint was made from exists afterwards.
LEMMA DescendStep ==
  ASSUME Shapes, NEW p \in Procs, Descend(p), Len(log) < MaxEvents
  PROVE  TreeStep
<1>1. Len(log) \in Nat
  BY DEF Shapes
<1>2. CommitOf(Len(log) + 1) \in Nat /\ CommitOf(Len(log) + 1) # MaxEvents + 2
  BY <1>1, EngineAssumption DEF CommitOf
<1> DEFINE w == view[p].workspace
           kept == (base[w] \ op[p].from) \cup {CommitOf(Len(log) + 1)}
<1>3. CASE base' = base
  BY <1>3 DEF TreeStep, Shapes
<1>4. CASE base' = [base EXCEPT ![w] = kept]
  <2>1. kept # Absent
    BY <1>2 DEF Absent
  <2>2. w \in Workspaces => kept \in SUBSET Nat
    BY <1>2 DEF Shapes
  <2> HIDE DEF kept, w
  <2>3. base' \in [Workspaces -> SUBSET Nat]
    BY <1>4, <2>2 DEF Shapes
  <2>4. base'["execution"] = IF w = "execution" THEN kept ELSE base["execution"]
    BY <1>4 DEF Shapes, Workspaces
  <2> QED
    BY <2>1, <2>3, <2>4 DEF TreeStep
<1> QED
  BY <1>3, <1>4 DEF Descend

\* A step that leaves the call of its process, or the calls, as they are.
LEMMA SameCalls ==
  ASSUME Shapes, UNCHANGED <<pc, op>>
  PROVE  /\ pc' \in [Procs -> Nat]
         /\ OpShape'
         /\ \A q \in Procs : CheckedOut(q)' => CheckedOut(q)
BY DEF Shapes, OpShape, CheckedOut

\* A call moves to its next step, and its workspace is checked out only if it
\* was before or is by now.
LEMMA NextStep ==
  ASSUME Shapes, NEW p \in Procs, pc' = [pc EXCEPT ![p] = @ + 1], OpShape',
         \A q \in Procs : op'[q].kind = op[q].kind,
         \/ base'["execution"] # Absent
         \/ At(p, "view") \/ At(p, "snapshot")
  PROVE  CallStep
<1>1. pc' \in [Procs -> Nat] /\ pc'[p] = pc[p] + 1
      /\ \A q \in Procs \ {p} : pc'[q] = pc[q]
  BY DEF Shapes
<1>2. ASSUME NEW q \in Procs, CheckedOut(q)', ~CheckedOut(q)
      PROVE  base'["execution"] # Absent
  <2>1. q = p
    BY <1>1, <1>2 DEF CheckedOut
  <2>2. op[p].kind \in Kinds /\ pc[p] \in Nat
    BY DEF Shapes, OpShape
  <2>3. ~At(p, "view") /\ ~At(p, "snapshot")
    <3>1. CASE op[p].kind \in {"fork", "resume"}
      BY <1>1, <1>2, <2>1, <2>2, <3>1, PlanSteps DEF CheckedOut
    <3>2. CASE op[p].kind = "rollback"
      BY <1>1, <1>2, <2>1, <2>2, <3>2, PlanSteps DEF CheckedOut
    <3> QED
      BY <1>2, <2>1, <3>1, <3>2 DEF CheckedOut
  <2> QED
    BY <2>3
<1> QED
  BY <1>1, <1>2 DEF CallStep

-----------------------------------------------------------------------------
(* The steps *)

GoodStep == LedgerStep /\ TreeStep /\ CallStep

\* What CutAppend does to the ledger and the worktree.
LEMMA CutAppendStep ==
  ASSUME TreeInv, NEW p \in Procs, CutAppend(p)
  PROVE  LedgerStep /\ TreeStep
<1>1. Shapes /\ Len(log) < MaxEvents
  BY DEF TreeInv, CutAppend, CanWrite
<1>2. CASE UNCHANGED <<log, base>>
  BY <1>1, <1>2 DEF LedgerStep, TreeStep, Shapes
<1>3. CASE log' = Append(log, Final(p)) /\ Descend(p)
  BY <1>1, <1>3, FinalStep, DescendStep DEF LedgerStep, CutAppend
<1>4. CASE log' = Append(log, Skipped) /\ UNCHANGED base
  <2>1. Skipped.type \notin RestoreTypes
    BY DEF Skipped, Event, RestoreTypes
  <2> QED
    BY <1>1, <1>4, <2>1 DEF LedgerStep, TreeStep, Shapes
<1> QED
  BY <1>2, <1>3, <1>4 DEF CutAppend

LEMMA StepIsGood ==
  ASSUME TreeInv, NEW p \in Procs,
         \/ \E kind \in {"record", "checkpoint", "resume", "rollback"}, target \in Commits :
              Call(p, kind, target)
         \/ View(p) \/ Snapshot(p)
         \/ Materialize(p) \/ MaterializeFails(p)
         \/ AppendEvent(p) \/ AppendEventCorrupt(p) \/ AppendSkipped(p) \/ CreateCheckpoint(p)
         \/ RunLocked(p) \/ AppendFails(p) \/ Exit(p)
  PROVE  GoodStep
<1>1. Shapes
  BY DEF TreeInv
<1>2. UNCHANGED base => TreeStep
  BY <1>1 DEF TreeStep, Shapes
<1>4. \A k \in {"none", "record", "checkpoint", "resume", "rollback"}, t \in Commits :
        LET new == [NoOp EXCEPT !.kind = k, !.target = t]
        IN new.kind = k /\ new.from = {} /\
           new \in [kind : Kinds, target : Commits, from : {{}}, replaced : BOOLEAN]
  <2> SUFFICES ASSUME NEW k \in {"none", "record", "checkpoint", "resume", "rollback"},
                      NEW t \in Commits
               PROVE  LET new == [NoOp EXCEPT !.kind = k, !.target = t]
                      IN new.kind = k /\ new.from = {} /\
                         new \in [kind : Kinds, target : Commits, from : {{}}, replaced : BOOLEAN]
    OBVIOUS
  <2>1. k \in Kinds /\ "none" \in Kinds /\ NoCommit \in Commits
    BY EngineAssumption DEF Kinds, Commits, NoCommit
  <2>2. NoOp \in [kind : Kinds, target : Commits, from : {{}}, replaced : BOOLEAN]
    BY <2>1 DEF NoOp
  <2> QED
    BY <2>1, <2>2
<1>5. ASSUME NEW kind \in {"record", "checkpoint", "resume", "rollback"}, NEW target \in Commits,
             Call(p, kind, target)
      PROVE  GoodStep
  <2> DEFINE new == [NoOp EXCEPT !.kind = kind, !.target = target]
  <2>1. /\ new.kind = kind /\ new.from = {}
        /\ new \in [kind : Kinds, target : Commits, from : {{}}, replaced : BOOLEAN]
    BY <1>4
  <2>2. op' = [op EXCEPT ![p] = new] /\ pc' = [pc EXCEPT ![p] = 1]
    BY <1>5 DEF Call
  <2> HIDE DEF new
  <2>3. OpShape'
    BY <1>1, <2>1, <2>2 DEF Shapes, OpShape
  <2>4. pc' \in [Procs -> Nat] /\ \A q \in Procs : CheckedOut(q)' => CheckedOut(q)
    BY <1>1, <2>1, <2>2 DEF Shapes, OpShape, CheckedOut
  <2> QED
    BY <1>2, <1>5, <2>3, <2>4 DEF Call, GoodStep, LedgerStep, CallStep, store
<1>6. CASE View(p)
  <2>1. OpShape' /\ \A q \in Procs : op'[q].kind = op[q].kind
    BY <1>1, <1>6 DEF View, Shapes, OpShape
  <2>2. CallStep
    BY <1>1, <1>6, <2>1, NextStep DEF View
  <2> QED
    BY <1>2, <1>6, <2>2 DEF View, GoodStep, LedgerStep, store
<1>7. CASE Snapshot(p)
  <2> DEFINE read == base[view[p].workspace]
             new == [op[p] EXCEPT !.from = read, !.replaced = FALSE]
  <2>1. op[p] \in [kind : Kinds, target : Commits, from : {op[p].from}, replaced : BOOLEAN]
    BY <1>1 DEF Shapes, OpShape
  <2>2. new.kind = op[p].kind /\ new.from = read
        /\ new \in [kind : Kinds, target : Commits, from : {read}, replaced : BOOLEAN]
    BY <2>1
  <2>3. op' = [op EXCEPT ![p] = new]
    BY <1>7 DEF Snapshot
  <2> HIDE DEF new, read
  <2>4. OpShape' /\ \A q \in Procs : op'[q].kind = op[q].kind
    BY <1>1, <2>2, <2>3 DEF Shapes, OpShape
  <2>5. CallStep
    BY <1>1, <1>7, <2>4, NextStep DEF Snapshot
  <2> QED
    BY <1>2, <1>7, <2>5 DEF Snapshot, GoodStep, LedgerStep, store
<1>8. CASE Materialize(p)
  <2>1. op[p].target \in Commits /\ op[p].target \in Nat
    BY <1>1, EngineAssumption DEF Shapes, OpShape, Commits
  <2>2. base'["execution"] = {op[p].target} /\ base' \in [Workspaces -> SUBSET Nat]
    <3> DEFINE out == {op[p].target}
    <3>1. out \in SUBSET Nat /\ base' = [base EXCEPT !["execution"] = out]
      BY <1>8, <2>1 DEF Materialize
    <3> HIDE DEF out
    <3>2. base'["execution"] = out /\ base' \in [Workspaces -> SUBSET Nat]
      BY <1>1, <3>1 DEF Shapes, Workspaces
    <3> QED
      BY <3>2 DEF out
  <2>3. base'["execution"] # Absent
    BY <2>1, <2>2, EngineAssumption DEF Absent, Commits
  <2>4. ASSUME NEW q \in Procs
        PROVE  LET new == [op[q] EXCEPT !.replaced = q # p /\ ~Idle(q)]
               IN new.kind = op[q].kind /\ new.from = op[q].from /\
                  new \in [kind : Kinds, target : Commits, from : {op[q].from}, replaced : BOOLEAN]
    BY <1>1 DEF Shapes, OpShape
  <2>5. OpShape' /\ \A q \in Procs : op'[q].kind = op[q].kind
    BY <1>8, <2>4 DEF Materialize, Replace, OpShape
  <2>6. CallStep
    BY <1>1, <1>8, <2>3, <2>5, NextStep DEF Materialize
  <2> QED
    BY <1>8, <2>2, <2>3, <2>6 DEF Materialize, GoodStep, LedgerStep, TreeStep, store
<1>9. CASE MaterializeFails(p)
  <2>1. base'["execution"] = {} /\ base' \in [Workspaces -> SUBSET Nat]
    BY <1>1, <1>9 DEF MaterializeFails, Shapes, Workspaces
  <2>2. base'["execution"] # Absent
    BY <2>1 DEF Absent
  <2>3. ASSUME NEW q \in Procs
        PROVE  LET new == [op[q] EXCEPT !.replaced = ~Idle(q)]
               IN new.from = op[q].from /\
                  new \in [kind : Kinds, target : Commits, from : {op[q].from}, replaced : BOOLEAN]
    BY <1>1 DEF Shapes, OpShape
  <2>4. NoOp.from = {} /\ NoOp \in [kind : Kinds, target : Commits, from : {{}}, replaced : BOOLEAN]
    BY EngineAssumption DEF NoOp, Kinds, Commits, NoCommit
  <2>5. OpShape'
    BY <1>9, <2>3, <2>4 DEF MaterializeFails, OpShape
  <2>6. pc' \in [Procs -> Nat]
    BY <1>1, <1>9 DEF MaterializeFails, Shapes
  <2> QED
    BY <1>9, <2>1, <2>2, <2>5, <2>6
    DEF MaterializeFails, GoodStep, LedgerStep, TreeStep, CallStep, store
<1>10. CASE AppendEvent(p)
  <2>1. /\ log' = Append(log, Final(p)) /\ Len(log) < MaxEvents /\ UNCHANGED base
        /\ At(p, "append") /\ End(p, "ok")
    BY <1>10 DEF AppendEvent, Write, CanWrite
  <2>2. LedgerStep
    BY <2>1, FinalStep DEF LedgerStep
  <2>3. CallStep
    BY <1>1, <2>1, EndCall DEF CallStep
  <2> QED
    BY <1>2, <2>1, <2>2, <2>3 DEF GoodStep
<1>11. CASE AppendEventCorrupt(p)
  <2>1. /\ log' = Append(log, Final(p)) /\ UNCHANGED base
        /\ At(p, "append") /\ End(p, "ERR_CORRUPT")
    BY <1>11 DEF AppendEventCorrupt, Write
  <2>2. LedgerStep
    BY <2>1, FinalStep DEF LedgerStep
  <2>3. CallStep
    BY <1>1, <2>1, EndCall DEF CallStep
  <2> QED
    BY <1>2, <2>1, <2>2, <2>3 DEF GoodStep
<1>12. CASE AppendSkipped(p)
  <2>1. Skipped.type \notin RestoreTypes
    BY DEF Skipped, Event, RestoreTypes
  <2>2. LedgerStep /\ TreeStep
    BY <1>2, <1>12, <2>1 DEF AppendSkipped, Write, LedgerStep
  <2>3. CASE Folds(p)
    BY <1>1, <1>12, <2>2, <2>3, SameCalls DEF AppendSkipped, GoodStep, CallStep
  <2>4. CASE ~Folds(p)
    BY <1>1, <1>12, <2>2, <2>4, EndCall DEF AppendSkipped, GoodStep, CallStep
  <2> QED
    BY <2>3, <2>4
<1>13. CASE CreateCheckpoint(p)
  <2>1. /\ log' = Append(log, Final(p)) /\ Len(log) < MaxEvents /\ Descend(p)
        /\ At(p, "append") /\ End(p, "ok") /\ op[p].kind = "checkpoint"
    BY <1>13 DEF CreateCheckpoint, Write, CanWrite
  <2>2. Final(p).type = "checkpoint.created"
    BY <2>1 DEF Final, Event
  <2>3. LedgerStep /\ TreeStep
    BY <1>1, <2>1, <2>2, DescendStep DEF LedgerStep, RestoreTypes
  <2>4. CallStep
    BY <1>1, <2>1, EndCall DEF CallStep
  <2> QED
    BY <2>3, <2>4 DEF GoodStep
<1>14. CASE RunLocked(p)
  BY <1>1, <1>2, <1>14, EndCall DEF RunLocked, GoodStep, LedgerStep, CallStep, store
<1>15. CASE AppendFails(p)
  BY <1>1, <1>15, CutAppendStep, EndCall DEF AppendFails, GoodStep, CallStep
<1>16. CASE Exit(p)
  <2>1. LedgerStep /\ TreeStep
    BY <1>2, <1>16, CutAppendStep DEF Exit, LedgerStep
  <2>2. NoOp.from = {} /\ NoOp.kind = "none"
        /\ NoOp \in [kind : Kinds, target : Commits, from : {{}}, replaced : BOOLEAN]
    BY EngineAssumption DEF NoOp, Kinds, Commits, NoCommit
  <2>3. op' = [op EXCEPT ![p] = NoOp] /\ pc' = [pc EXCEPT ![p] = 0]
    BY <1>16 DEF Exit
  <2>4. OpShape' /\ pc' \in [Procs -> Nat]
    BY <1>1, <2>2, <2>3 DEF Shapes, OpShape
  <2>5. \A q \in Procs : CheckedOut(q)' => CheckedOut(q)
    BY <1>1, <2>2, <2>3 DEF Shapes, OpShape, CheckedOut
  <2> QED
    BY <1>16, <2>1, <2>4, <2>5 DEF Exit, GoodStep, CallStep
<1> QED
  BY <1>5, <1>6, <1>7, <1>8, <1>9, <1>10, <1>11, <1>12, <1>13, <1>14, <1>15, <1>16

LEMMA NextTree == TreeInv /\ [Next]_vars => TreeInv'
<1> SUFFICES ASSUME TreeInv, [Next]_vars PROVE TreeInv'
  OBVIOUS
<1>1. CASE UNCHANGED vars
  BY <1>1 DEF TreeInv, Shapes, OpShape, CheckedOut, ExecutionTreeExists, vars, store
<1>2. CASE Next
  <2>1. GoodStep
    BY <1>2, StepIsGood DEF Next
  <2> DEFINE Grown ==
        /\ log' \in Seq({log'[i] : i \in DOMAIN log'})
        /\ \A i \in DOMAIN log' : \/ i \in DOMAIN log /\ log'[i] = log[i]
                                  \/ log'[i].type \in RestoreTypes => base["execution"] # Absent
  <2>2. Grown
    <3>1. CASE UNCHANGED log
      BY <3>1 DEF TreeInv, Shapes
    <3>2. ASSUME NEW e, log' = Append(log, e), e.type \in RestoreTypes => base["execution"] # Absent
          PROVE  Grown
      <4>1. log \in Seq({log[i] : i \in DOMAIN log}) /\ DOMAIN log = 1..Len(log) /\ Len(log) \in Nat
        BY DEF TreeInv, Shapes
      <4>2. /\ log' \in Seq({log'[i] : i \in DOMAIN log'})
            /\ DOMAIN log' = 1..(Len(log) + 1)
            /\ \A i \in DOMAIN log : log'[i] = log[i]
            /\ log'[Len(log) + 1] = e
        BY <3>2, <4>1, AppendShape
      <4> QED
        BY <3>2, <4>1, <4>2
    <3> QED
      BY <2>1, <3>1, <3>2 DEF GoodStep, LedgerStep
  <2>3. Shapes'
    BY <2>1, <2>2 DEF Shapes, GoodStep, TreeStep, CallStep
  <2>4. \A p \in Procs : CheckedOut(p)' => base'["execution"] # Absent
    BY <2>1 DEF TreeInv, GoodStep, TreeStep, CallStep
  <2>5. ExecutionTreeExists'
    BY <2>1, <2>2 DEF TreeInv, ExecutionTreeExists, RestoreTypes, GoodStep, TreeStep
  <2> QED
    BY <2>3, <2>4, <2>5 DEF TreeInv, Absent
<1> QED
  BY <1>1, <1>2

-----------------------------------------------------------------------------
(* Theorems *)

\* The invariant holds in every reachable state.
THEOREM TreeInvariant == Spec => []TreeInv
BY InitTree, NextTree, PTL DEF Spec

\* A run whose ledger says that it works in its execution worktree has one: every
\* restore and fork checks its commit out before it appends its event, and no
\* call removes the worktree (engine.ts:408, 424, 469).
THEOREM TreeExists == Spec => []ExecutionTreeExists
<1>1. TreeInv => ExecutionTreeExists
  BY DEF TreeInv
<1> QED
  BY <1>1, TreeInvariant, PTL

-----------------------------------------------------------------------------
(* Least counterexamples, and the steps of a fold *)

\* The least of a set of naturals.
LEMMA LeastOf ==
  ASSUME NEW S \in SUBSET Nat, S # {}
  PROVE  Min(S) \in S /\ \A i \in S : Min(S) <= i
<1>1. PICK m \in S : \A i \in S : <<i, m>> \notin OpToRel(<, Nat)
  <2>1. IsWellFoundedOn(OpToRel(<, Nat), Nat)
    BY NatLessThanWellFounded
  <2> QED
    BY <2>1, WFMin
<1>2. \A i \in S : ~(i < m)
  BY <1>1, Zenon DEF OpToRel
<1>3. \A i \in S : m <= i
  BY <1>2
<1> QED
  BY <1>3 DEF Min

\* The greatest of a set of numbers up to n.
LEMMA GreatestOf ==
  ASSUME NEW n \in Nat, NEW S \in SUBSET (0..n), S # {}
  PROVE  Max(S) \in S /\ \A i \in S : i <= Max(S)
<1> DEFINE T == {n - i : i \in S}
<1>1. T \in SUBSET Nat /\ T # {}
  <2>1. \A i \in S : i \in 0..n /\ n - i \in Nat
    OBVIOUS
  <2>2. \E i \in S : TRUE
    OBVIOUS
  <2> QED
    BY <2>1, <2>2
<1>2. PICK m \in S : Min(T) = n - m
  BY <1>1, LeastOf
<1>3. \A i \in S : i <= m
  <2> TAKE i \in S
  <2>1. n - i \in T
    OBVIOUS
  <2>2. Min(T) <= n - i
    BY <1>1, <2>1, LeastOf
  <2> QED
    BY <1>2, <2>2
<1> QED
  BY <1>3 DEF Max

\* A property of 0 that goes from each number to the next one, up to n.
LEMMA UpTo ==
  ASSUME NEW n \in Nat, NEW good, 0 \in good, \A k \in 0..(n - 1) : k \in good => k + 1 \in good
  PROVE  \A k \in 0..n : k \in good
<1> DEFINE bad == {k \in 0..n : k \notin good}
<1> SUFFICES ASSUME bad # {} PROVE FALSE
  OBVIOUS
<1>1. Min(bad) \in bad /\ \A i \in bad : Min(bad) <= i
  BY LeastOf
<1>2. Min(bad) - 1 \in 0..(n - 1) /\ Min(bad) - 1 \notin bad
  BY <1>1
<1> QED
  BY <1>1, <1>2

\* The value at each subset of D is a step, by the element picked, from the value
\* without it.
FoldsBy(g, D, pick, b, step) ==
  \A s \in SUBSET D : g[s] = IF s = {} THEN b ELSE step[pick[s]][g[s \ {pick[s]}]]

\* A fold that takes the elements of a finite set in any order.
LEMMA FoldExists ==
  ASSUME NEW D, IsFiniteSet(D), NEW pick, \A s \in SUBSET D : s # {} => pick[s] \in s,
         NEW S, NEW b \in S, NEW step \in [D -> [S -> S]]
  PROVE  \E g \in [SUBSET D -> S] : FoldsBy(g, D, pick, b, step)
<1> DEFINE Small(n) == {s \in SUBSET D : Cardinality(s) <= n}
           good == {n \in Nat : \E g \in [Small(n) -> S] :
                      \A s \in Small(n) : g[s] = IF s = {} THEN b ELSE step[pick[s]][g[s \ {pick[s]}]]}
           N == Cardinality(D)
<1>1. N \in Nat /\ \A s \in SUBSET D : IsFiniteSet(s) /\ Cardinality(s) \in 0..N
  BY FS_Subset, FS_CardinalityType
<1>2. \A s \in SUBSET D : s = {} <=> Cardinality(s) = 0
  BY <1>1, FS_EmptySet
<1>3. \A s \in SUBSET D : s # {} => /\ s \ {pick[s]} \in SUBSET D
                                    /\ Cardinality(s \ {pick[s]}) = Cardinality(s) - 1
  BY <1>1, FS_RemoveElement
<1>4. 0 \in good
  <2> DEFINE g == [s \in Small(0) |-> b]
  <2>1. g \in [Small(0) -> S]
    OBVIOUS
  <2>2. \A s \in Small(0) : s = {}
    BY <1>1, <1>2
  <2>3. \A s \in Small(0) : g[s] = IF s = {} THEN b ELSE step[pick[s]][g[s \ {pick[s]}]]
    BY <2>2
  <2> HIDE DEF g, Small
  <2> QED
    BY <2>1, <2>3
<1>5. ASSUME NEW n \in 0..(N - 1), n \in good PROVE n + 1 \in good
  <2>1. PICK g \in [Small(n) -> S] :
          \A s \in Small(n) : g[s] = IF s = {} THEN b ELSE step[pick[s]][g[s \ {pick[s]}]]
    BY <1>5
  <2> DEFINE h == [s \in Small(n + 1) |-> IF s \in Small(n) THEN g[s] ELSE step[pick[s]][g[s \ {pick[s]}]]]
  <2>2. \A s \in Small(n + 1) : s # {} => s \ {pick[s]} \in Small(n) /\ s \ {pick[s]} \in Small(n + 1)
    BY <1>1, <1>3
  <2>3. \A s \in Small(n + 1) : s = {} => s \in Small(n)
    BY <1>2
  <2>4. h \in [Small(n + 1) -> S]
    <3> SUFFICES ASSUME NEW s \in Small(n + 1), s \notin Small(n)
                 PROVE  step[pick[s]][g[s \ {pick[s]}]] \in S
      OBVIOUS
    <3>1. s # {} /\ pick[s] \in D /\ g[s \ {pick[s]}] \in S
      BY <2>2, <2>3
    <3>2. step[pick[s]] \in [S -> S]
      BY <3>1
    <3> QED
      BY <3>1, <3>2
  <2>5. \A s \in Small(n + 1) : h[s] = IF s = {} THEN b ELSE step[pick[s]][h[s \ {pick[s]}]]
    <3> TAKE s \in Small(n + 1)
    <3>1. s # {} => h[s \ {pick[s]}] = g[s \ {pick[s]}]
      BY <2>2
    <3> QED
      BY <2>1, <2>3, <3>1
  <2> HIDE DEF h, Small
  <2>6. n + 1 \in Nat
    BY <1>1
  <2> QED
    BY <2>4, <2>5, <2>6
<1>6. \A n \in 0..N : n \in good
  <2> HIDE DEF good, N
  <2> QED
    BY <1>1, <1>4, <1>5, UpTo
<1>7. Small(N) = SUBSET D
  BY <1>1
<1>8. \E g \in [Small(N) -> S] :
        \A s \in Small(N) : g[s] = IF s = {} THEN b ELSE step[pick[s]][g[s \ {pick[s]}]]
  BY <1>1, <1>6
<1> HIDE DEF Small
<1> QED
  BY <1>7, <1>8 DEF FoldsBy

\* A fold that takes the greatest first, that is, applies steps from left to right.
FoldsUp(g, D, b, step) ==
  \A s \in SUBSET D : g[s] = IF s = {} THEN b ELSE step[Max(s)][g[s \ {Max(s)}]]

LEMMA FoldUp ==
  ASSUME NEW n \in Nat, NEW S, NEW b \in S, NEW step \in [1..n -> [S -> S]]
  PROVE  \E g \in [SUBSET (1..n) -> S] : FoldsUp(g, 1..n, b, step)
<1> DEFINE D == 1..n
<1>1. PICK pick : pick = [s \in SUBSET D |-> Max(s)]
  OBVIOUS
<1>2. \A s \in SUBSET D : pick[s] = Max(s)
  BY <1>1
<1>3. \A s \in SUBSET D : s # {} => pick[s] \in s
  <2> TAKE s \in SUBSET D
  <2> HAVE s # {}
  <2>1. s \in SUBSET (0..n)
    OBVIOUS
  <2> QED
    BY <1>2, <2>1, GreatestOf
<1>4. IsFiniteSet(D)
  BY FS_Interval
<1>5. step \in [D -> [S -> S]]
  OBVIOUS
<1> HIDE DEF D
<1>6. PICK g \in [SUBSET D -> S] : FoldsBy(g, D, pick, b, step)
  BY <1>3, <1>4, <1>5, FoldExists
<1>7. FoldsUp(g, D, b, step)
  BY <1>2, <1>6 DEF FoldsBy, FoldsUp
<1> QED
  BY <1>6, <1>7 DEF D

-----------------------------------------------------------------------------
(* What a view is of *)

\* The events that move a run to another commit, and the one that each moves it to.
Moves == {"checkpoint.created", "agent.restored", "agent.forked"}
MovesTo(L, i) == IF L[i].type = "checkpoint.created" THEN CommitOf(i) ELSE L[i].commit

\* After its first k events a ledger is at the commit of the latest move.
IsCurrent(L, k, c) ==
  \/ c = NoCommit /\ \A i \in 1..k : L[i].type \notin Moves
  \/ \E i \in 1..k : /\ L[i].type \in Moves /\ c = MovesTo(L, i)
                     /\ \A j \in (i + 1)..k : L[j].type \notin Moves

\* After its first k events a run works here.
WorksIn(L, k) == IF \E i \in 1..k : L[i].type \in RestoreTypes THEN "execution" ELSE "repo"

\* What a view of the first events of L says of where the run is.
IsView(L, v) ==
  /\ v.seq \in 0..Len(L)
  /\ IsCurrent(L, v.seq, v.current)
  /\ v.workspace = WorksIn(L, v.seq)

EventTypes == {"run.created", "observation"} \cup Moves
Events == [type : EventTypes, commit : Nat, current : BOOLEAN, from : SUBSET Nat]
Views == [seq : Nat, current : Nat, workspace : Workspaces, lineage : SUBSET (Nat \X Nat)]

\* What the next event makes of a view is a view.
LEMMA FoldEventType ==
  ASSUME NEW v \in Views, NEW e \in Events
  PROVE  /\ FoldEvent(v, e) \in Views
         /\ FoldEvent(v, e).seq = v.seq + 1
         /\ FoldEvent(v, e).current = IF e.type = "checkpoint.created" THEN CommitOf(v.seq + 1)
                                      ELSE IF e.type \in Moves THEN e.commit ELSE v.current
         /\ FoldEvent(v, e).workspace = IF e.type \in RestoreTypes THEN "execution" ELSE v.workspace
<1> DEFINE c == CASE e.type = "checkpoint.created" -> CommitOf(v.seq + 1)
                  [] e.type \in {"agent.restored", "agent.forked"} -> e.commit
                  [] OTHER -> v.current
           w == IF e.type \in {"agent.restored", "agent.forked"} THEN "execution" ELSE v.workspace
           l == IF e.type = "agent.restored" THEN v.lineage \cup {<<v.seq + 1, e.commit>>} ELSE v.lineage
<1>1. FoldEvent(v, e) = [v EXCEPT !.seq = v.seq + 1, !.current = c, !.workspace = w, !.lineage = l]
  BY Zenon DEF FoldEvent
<1>2. /\ c = IF e.type = "checkpoint.created" THEN CommitOf(v.seq + 1)
             ELSE IF e.type \in Moves THEN e.commit ELSE v.current
      /\ c \in Nat
  BY DEF Moves, Views, Events, CommitOf
<1>3. /\ w = IF e.type \in RestoreTypes THEN "execution" ELSE v.workspace
      /\ w \in Workspaces
  BY DEF RestoreTypes, Views, Workspaces
<1>4. l \in SUBSET (Nat \X Nat)
  BY DEF Views, Events
<1>5. v.seq + 1 \in Nat
  BY DEF Views
<1> HIDE DEF c, w, l
<1> QED
  BY <1>1, <1>2, <1>3, <1>4, <1>5 DEF Views

\* The steps of folding events into a view.
LEMMA FoldSteps ==
  ASSUME NEW L \in Seq(Events), NEW old \in Views
  PROVE  \E h : /\ h[0] = old
                /\ \A k \in 1..Len(L) : h[k] = FoldEvent(h[k - 1], L[k])
                /\ FoldLeft(FoldEvent, old, L) = h[Len(L)]
<1> DEFINE D == 1..Len(L)
           id == [i \in DOMAIN L |-> i]
           step == [i \in D |-> [v \in Views |-> FoldEvent(v, L[i])]]
           IsIter(g) == g = [s \in SUBSET D |->
                               IF s = {} THEN old ELSE FoldEvent(g[s \ {Max(s)}], L[Max(s)])]
<1>1. DOMAIN L = D /\ Len(L) \in Nat /\ \A i \in D : L[i] \in Events
  OBVIOUS
<1>2. FoldLeft(FoldEvent, old, L) = (CHOOSE g : IsIter(g))[D]
  BY <1>1, Zenon DEF FoldLeft, MapThenFoldSet
<1>3. \A s \in SUBSET D : s # {} => Max(s) \in s
  <2> TAKE s \in SUBSET D
  <2> HAVE s # {}
  <2>1. s \in SUBSET (0..Len(L))
    BY <1>1
  <2> QED
    BY <1>1, <2>1, GreatestOf
<1>4. step \in [D -> [Views -> Views]]
  BY <1>1, FoldEventType
<1>5. \E g : IsIter(g)
  <2> HIDE DEF step
  <2>2. PICK g \in [SUBSET D -> Views] : FoldsUp(g, D, old, step)
    BY <1>1, <1>4, FoldUp
  <2> HIDE DEF D
  <2>3. \A s \in SUBSET D : g[s] = IF s = {} THEN old ELSE FoldEvent(g[s \ {Max(s)}], L[Max(s)])
    <3> TAKE s \in SUBSET D
    <3>1. s = {} => g[s] = old
      BY <2>2 DEF FoldsUp
    <3>2. ASSUME s # {} PROVE g[s] = FoldEvent(g[s \ {Max(s)}], L[Max(s)])
      <4>1. g[s] = step[Max(s)][g[s \ {Max(s)}]]
        BY <2>2, <3>2 DEF FoldsUp
      <4>2. Max(s) \in D /\ g[s \ {Max(s)}] \in Views
        BY <1>3, <2>2, <3>2
      <4> QED
        BY <4>1, <4>2 DEF step
    <3> QED
      BY <3>1, <3>2
  <2>5. g = [s \in SUBSET D |-> g[s]]
    BY <2>2
  <2>6. IsIter(g)
    BY <2>3, <2>5, Zenon
  <2> QED
    BY <2>6
<1> DEFINE G == CHOOSE g : IsIter(g)
           h == [k \in 0..Len(L) |-> G[1..k]]
<1>6. IsIter(G)
  BY <1>5
<1>7. \A k \in 0..Len(L) : 1..k \in SUBSET D
  BY <1>1
<1>8. h[0] = old
  <2>1. 1..0 = {} /\ 0 \in 0..Len(L)
    BY <1>1
  <2> HIDE DEF G
  <2> QED
    BY <1>6, <1>7, <2>1
<1>9. \A k \in 1..Len(L) : h[k] = FoldEvent(h[k - 1], L[k])
  <2> TAKE k \in 1..Len(L)
  <2>1. 1..k \in SUBSET (0..k) /\ k \in 1..k /\ k \in Nat /\ \A i \in 1..k : i <= k
    BY <1>1
  <2>2. Max(1..k) = k
    <3>1. Max(1..k) \in 1..k /\ k <= Max(1..k)
      BY <2>1, GreatestOf
    <3> QED
      BY <2>1, <3>1
  <2>3. (1..k) \ {k} = 1..(k - 1) /\ k - 1 \in 0..Len(L) /\ k \in 0..Len(L)
    BY <1>1, <2>1
  <2> HIDE DEF G
  <2>5. 1..k \in SUBSET D /\ 1..k # {}
    BY <1>1, <1>7, <2>1, <2>3
  <2> HIDE DEF D
  <2>6. G[1..k] = IF 1..k = {} THEN old ELSE FoldEvent(G[(1..k) \ {Max(1..k)}], L[Max(1..k)])
    BY <1>6, <2>5, Zenon
  <2>4. G[1..k] = FoldEvent(G[1..(k - 1)], L[k])
    BY <2>2, <2>3, <2>5, <2>6
  <2> QED
    BY <2>3, <2>4
<1>11. FoldLeft(FoldEvent, old, L) = h[Len(L)]
  BY <1>1, <1>2
<1> HIDE DEF h
<1> QED
  BY <1>8, <1>9, <1>11

\* A ledger is at one commit.
LEMMA OneCurrent ==
  ASSUME NEW L, NEW k \in Nat, NEW c, NEW d, IsCurrent(L, k, c), IsCurrent(L, k, d)
  PROVE  c = d
<1>1. CASE \A i \in 1..k : L[i].type \notin Moves
  BY <1>1 DEF IsCurrent
<1>2. CASE \E i \in 1..k : L[i].type \in Moves
  <2>1. PICK i \in 1..k : /\ L[i].type \in Moves /\ c = MovesTo(L, i)
                          /\ \A j \in (i + 1)..k : L[j].type \notin Moves
    BY <1>2 DEF IsCurrent
  <2>2. PICK j \in 1..k : /\ L[j].type \in Moves /\ d = MovesTo(L, j)
                          /\ \A m \in (j + 1)..k : L[m].type \notin Moves
    BY <1>2 DEF IsCurrent
  <2>3. i = j
    BY <2>1, <2>2
  <2> QED
    BY <2>1, <2>2, <2>3
<1> QED
  BY <1>1, <1>2

\* Where the next event takes a ledger.
LEMMA CurrentNext ==
  ASSUME NEW L \in Seq(Events), NEW k \in 0..(Len(L) - 1), NEW c
  PROVE  /\ L[k + 1].type \in Moves => (IsCurrent(L, k + 1, c) <=> c = MovesTo(L, k + 1))
         /\ L[k + 1].type \notin Moves => (IsCurrent(L, k + 1, c) <=> IsCurrent(L, k, c))
<1>1. Len(L) \in Nat /\ k \in Nat /\ k + 1 \in 1..(k + 1)
      /\ \A i \in 1..(k + 1) : i \in 1..k \/ i = k + 1
  OBVIOUS
<1>2. ASSUME L[k + 1].type \in Moves PROVE IsCurrent(L, k + 1, c) <=> c = MovesTo(L, k + 1)
  <2>1. ASSUME c = MovesTo(L, k + 1) PROVE IsCurrent(L, k + 1, c)
    <3>1. \A j \in ((k + 1) + 1)..(k + 1) : L[j].type \notin Moves
      BY <1>1
    <3> QED
      BY <1>1, <1>2, <2>1, <3>1 DEF IsCurrent
  <2>2. ASSUME IsCurrent(L, k + 1, c) PROVE c = MovesTo(L, k + 1)
    <3>1. PICK i \in 1..(k + 1) : /\ L[i].type \in Moves /\ c = MovesTo(L, i)
                                  /\ \A j \in (i + 1)..(k + 1) : L[j].type \notin Moves
      BY <1>1, <1>2, <2>2 DEF IsCurrent
    <3>2. i = k + 1
      <4> SUFFICES ASSUME i # k + 1 PROVE FALSE
        OBVIOUS
      <4>1. k + 1 \in (i + 1)..(k + 1)
        BY <1>1
      <4> QED
        BY <1>2, <3>1, <4>1
    <3> QED
      BY <3>1, <3>2
  <2> QED
    BY <2>1, <2>2
<1>3. ASSUME L[k + 1].type \notin Moves PROVE IsCurrent(L, k + 1, c) <=> IsCurrent(L, k, c)
  <2>1. (\A i \in 1..(k + 1) : L[i].type \notin Moves) <=> \A i \in 1..k : L[i].type \notin Moves
    BY <1>1, <1>3
  <2>2. \A i \in 1..k : (\A j \in (i + 1)..(k + 1) : L[j].type \notin Moves)
                          <=> \A j \in (i + 1)..k : L[j].type \notin Moves
    BY <1>1, <1>3
  <2>3. \A i : i \in 1..(k + 1) /\ L[i].type \in Moves <=> i \in 1..k /\ L[i].type \in Moves
    BY <1>1, <1>3
  <2> QED
    BY <2>1, <2>2, <2>3 DEF IsCurrent
<1> QED
  BY <1>2, <1>3

\* Where the next event makes a run work.
LEMMA WorksInNext ==
  ASSUME NEW L \in Seq(Events), NEW k \in 0..(Len(L) - 1)
  PROVE  WorksIn(L, k + 1) = IF L[k + 1].type \in RestoreTypes THEN "execution" ELSE WorksIn(L, k)
<1>1. k + 1 \in 1..(k + 1) /\ \A i : i \in 1..(k + 1) <=> i \in 1..k \/ i = k + 1
  OBVIOUS
<1> QED
  BY <1>1 DEF WorksIn

\* Folding the next event of a ledger into a view of it gives a view of it.
LEMMA FoldNext ==
  ASSUME NEW L \in Seq(Events), NEW v \in Views, IsView(L, v), v.seq < Len(L)
  PROVE  LET next == FoldEvent(v, L[v.seq + 1])
         IN  next \in Views /\ IsView(L, next) /\ next.seq = v.seq + 1
<1> DEFINE e == L[v.seq + 1]
           next == FoldEvent(v, e)
<1>1. v.seq \in 0..(Len(L) - 1) /\ v.seq + 1 \in 0..Len(L) /\ e \in Events
  BY DEF Views, IsView
<1>2. /\ next \in Views
      /\ next.seq = v.seq + 1
      /\ next.current = IF e.type = "checkpoint.created" THEN CommitOf(v.seq + 1)
                        ELSE IF e.type \in Moves THEN e.commit ELSE v.current
      /\ next.workspace = IF e.type \in RestoreTypes THEN "execution" ELSE v.workspace
  BY <1>1, FoldEventType
<1>3. IsCurrent(L, v.seq + 1, next.current)
  <2>1. CASE e.type \in Moves
    <3>1. next.current = MovesTo(L, v.seq + 1)
      BY <1>2, <2>1 DEF MovesTo
    <3> HIDE DEF next
    <3> QED
      BY <1>1, <2>1, <3>1, CurrentNext
  <2>2. CASE e.type \notin Moves
    <3>1. next.current = v.current
      BY <1>2, <2>2 DEF Moves
    <3>2. IsCurrent(L, v.seq, v.current)
      BY DEF IsView
    <3> HIDE DEF next
    <3> QED
      BY <1>1, <2>2, <3>1, <3>2, CurrentNext
  <2> QED
    BY <2>1, <2>2
<1>4. next.workspace = WorksIn(L, v.seq + 1)
  <2>1. v.workspace = WorksIn(L, v.seq)
    BY DEF IsView
  <2> HIDE DEF next
  <2> QED
    BY <1>1, <1>2, <2>1, WorksInNext
<1> HIDE DEF next
<1>5. IsView(L, next)
  BY <1>1, <1>2, <1>3, <1>4 DEF IsView
<1> QED
  BY <1>2, <1>5 DEF next

\* A refreshed view is a view of what the index holds.
LEMMA RefreshedView ==
  ASSUME log \in Seq(Events), shown \in 0..Len(log),
         NEW old \in Views, IsView(log, old), old.seq <= shown
  PROVE  Refreshed(old) \in Views /\ IsView(log, Refreshed(old)) /\ Refreshed(old).seq = shown
<1> DEFINE L == SubSeq(log, old.seq + 1, shown)
           n == shown - old.seq
<1>1. old.seq \in Nat /\ shown \in Nat /\ Len(log) \in Nat /\ n \in Nat
  BY DEF Views
<1>2. /\ L \in Seq(Events) /\ Len(L) = n
      /\ \A k \in 1..n : L[k] = log[old.seq + k]
  BY <1>1
<1>3. PICK h : /\ h[0] = old
               /\ \A k \in 1..Len(L) : h[k] = FoldEvent(h[k - 1], L[k])
               /\ FoldLeft(FoldEvent, old, L) = h[Len(L)]
  <2> HIDE DEF L
  <2> QED
    BY <1>2, FoldSteps
<1>4. Refreshed(old) = h[n]
  BY <1>2, <1>3, Zenon DEF Refreshed
<1> DEFINE good == {k \in 0..n : h[k] \in Views /\ IsView(log, h[k]) /\ h[k].seq = old.seq + k}
<1>5. 0 \in good
  BY <1>1, <1>3
<1>6. ASSUME NEW k \in 0..(n - 1), k \in good PROVE k + 1 \in good
  <2>1. k + 1 \in 1..n /\ (k + 1) - 1 = k /\ k + 1 \in 0..n /\ k \in Nat
    BY <1>1
  <2>2. h[k + 1] = FoldEvent(h[k], log[(old.seq + k) + 1])
    <3>1. k + 1 \in 1..Len(L)
      <4> HIDE DEF L, n
      <4> QED
        BY <1>2, <2>1
    <3>4. old.seq + (k + 1) = (old.seq + k) + 1
      BY <1>1, <2>1
    <3>2. L[k + 1] = log[old.seq + (k + 1)]
      BY <1>2, <2>1
    <3> HIDE DEF L
    <3>3. h[k + 1] = FoldEvent(h[(k + 1) - 1], L[k + 1])
      BY <1>3, <3>1
    <3> QED
      BY <2>1, <3>2, <3>3, <3>4
  <2>3. h[k] \in Views /\ IsView(log, h[k]) /\ h[k].seq = old.seq + k
    BY <1>6
  <2>4. h[k].seq < Len(log)
    BY <1>1, <2>1, <2>3
  <2>5. h[k + 1] \in Views /\ IsView(log, h[k + 1]) /\ h[k + 1].seq = (old.seq + k) + 1
    BY <2>2, <2>3, <2>4, FoldNext
  <2> QED
    BY <1>1, <2>1, <2>5
<1>7. n \in good
  <2> HIDE DEF good, n
  <2>1. \A k \in 0..n : k \in good
    BY <1>1, <1>5, <1>6, UpTo
  <2> QED
    BY <1>1, <2>1
<1>8. h[n] \in Views /\ IsView(log, h[n]) /\ h[n].seq = old.seq + n
  BY <1>7
<1> QED
  BY <1>1, <1>4, <1>8

\* What the first events of a ledger say stays when it grows.
LEMMA FirstStay ==
  ASSUME NEW L \in Seq(Events), NEW e \in Events, NEW k \in 0..Len(L)
  PROVE  /\ \A c : IsCurrent(Append(L, e), k, c) <=> IsCurrent(L, k, c)
         /\ WorksIn(Append(L, e), k) = WorksIn(L, k)
<1> DEFINE M == Append(L, e)
<1>1. \A i \in 1..k : M[i] = L[i]
  OBVIOUS
<1>2. \A i \in 1..k : \A j \in (i + 1)..k : j \in 1..k
  OBVIOUS
<1> HIDE DEF M
<1>3. \A i \in 1..k : MovesTo(M, i) = MovesTo(L, i)
  BY <1>1 DEF MovesTo
<1>4. \A c : IsCurrent(M, k, c) <=> IsCurrent(L, k, c)
  BY <1>1, <1>2, <1>3 DEF IsCurrent
<1>5. WorksIn(M, k) = WorksIn(L, k)
  BY <1>1 DEF WorksIn
<1> QED
  BY <1>4, <1>5 DEF M

\* A view stays one when the ledger grows.
LEMMA ViewGrows ==
  ASSUME NEW L \in Seq(Events), NEW e \in Events, NEW v \in Views, IsView(L, v)
  PROVE  IsView(Append(L, e), v)
<1>1. v.seq \in 0..Len(L) /\ Len(Append(L, e)) = Len(L) + 1 /\ v.seq \in 0..(Len(L) + 1)
  BY DEF IsView
<1> QED
  BY <1>1, FirstStay DEF IsView

\* Where an appended event takes a run.
LEMMA HeadNext ==
  ASSUME NEW L \in Seq(Events), NEW e \in Events
  PROVE  LET M == Append(L, e)
         IN  /\ Len(M) = Len(L) + 1
             /\ WorksIn(M, Len(M)) = IF e.type \in RestoreTypes THEN "execution" ELSE WorksIn(L, Len(L))
             /\ \A c : IsCurrent(M, Len(M), c)
                         <=> IF e.type = "checkpoint.created" THEN c = CommitOf(Len(L) + 1)
                             ELSE IF e.type \in Moves THEN c = e.commit
                             ELSE IsCurrent(L, Len(L), c)
<1> DEFINE M == Append(L, e)
           k == Len(L)
<1>1. /\ M \in Seq(Events) /\ Len(M) = k + 1 /\ k \in Nat /\ k \in 0..(Len(M) - 1) /\ k \in 0..Len(L)
      /\ M[k + 1] = e
  OBVIOUS
<1>2. /\ \A c : IsCurrent(M, k, c) <=> IsCurrent(L, k, c)
      /\ WorksIn(M, k) = WorksIn(L, k)
  BY <1>1, FirstStay
<1>3. MovesTo(M, k + 1) = IF e.type = "checkpoint.created" THEN CommitOf(k + 1) ELSE e.commit
  BY <1>1 DEF MovesTo
<1> HIDE DEF M, k
<1>4. WorksIn(M, k + 1) = IF e.type \in RestoreTypes THEN "execution" ELSE WorksIn(L, k)
  BY <1>1, <1>2, WorksInNext
<1>5. \A c : /\ e.type \in Moves => (IsCurrent(M, k + 1, c) <=> c = MovesTo(M, k + 1))
             /\ e.type \notin Moves => (IsCurrent(M, k + 1, c) <=> IsCurrent(M, k, c))
  BY <1>1, CurrentNext
<1>6. "checkpoint.created" \in Moves
  BY DEF Moves
<1>7. \A c : IsCurrent(M, k + 1, c) <=> IF e.type = "checkpoint.created" THEN c = CommitOf(k + 1)
                                        ELSE IF e.type \in Moves THEN c = e.commit
                                        ELSE IsCurrent(L, k, c)
  BY <1>2, <1>3, <1>5, <1>6
<1> QED
  BY <1>1, <1>4, <1>7 DEF M, k

-----------------------------------------------------------------------------
(* Views are views of the ledger *)

\* Every view is one of the ledger's beginning, whatever failed or raced.
ViewInv ==
  /\ TreeInv
  /\ log \in Seq(Events)
  /\ view \in [Procs -> Views]
  /\ shown \in 0..Len(log)
  /\ cuts \in Nat
  /\ \A p \in Procs : /\ IsView(log, view[p]) /\ view[p].seq <= shown
                       /\ op[p].from \in SUBSET Nat

\* What a run appends.
LEMMA AppendsEvents ==
  ASSUME ViewInv, NEW p \in Procs, At(p, "append")
  PROVE  Final(p) \in Events /\ Skipped \in Events /\ Skipped.type = "observation"
<1>1. op[p].kind \in Kinds /\ op[p].target \in Nat /\ view[p].current \in Nat /\ op[p].kind # "none"
  BY PlanSteps, EngineAssumption DEF ViewInv, TreeInv, Shapes, OpShape, Commits, Views
<1>2. \A type \in EventTypes, commit \in Nat, current \in BOOLEAN, from \in SUBSET Nat :
        Event(type, commit, current, from) \in Events
  BY DEF Event, Events
<1>3. /\ NoCommit \in Nat /\ Folds(p) \in BOOLEAN /\ {} \in SUBSET Nat
      /\ op[p].from \in SUBSET Nat
  BY DEF NoCommit, Folds, ViewInv
<1>4. {"run.created", "observation", "agent.forked", "agent.restored", "checkpoint.created"}
        \subseteq EventTypes
  BY DEF EventTypes, Moves
<1>10. Final(p) \in Events
  <2>5. CASE op[p].kind = "startRun"
    BY <1>2, <1>3, <1>4, <2>5 DEF Final, Created
  <2>6. CASE op[p].kind = "fork"
    BY <1>1, <1>2, <1>3, <1>4, <2>6 DEF Final
  <2>7. CASE op[p].kind = "record"
    BY <1>2, <1>3, <1>4, <2>7 DEF Final
  <2>8. CASE op[p].kind = "checkpoint"
    <3>1. Final(p) = Event("checkpoint.created", view[p].current, Folds(p), op[p].from)
      BY <2>8 DEF Final
    <3> QED
      BY <1>1, <1>2, <1>3, <1>4, <3>1
  <2>9. CASE op[p].kind \in {"resume", "rollback"}
    <3>1. Final(p) = Event("agent.restored", op[p].target, TRUE, {})
      BY <2>9 DEF Final
    <3> QED
      BY <1>1, <1>2, <1>3, <1>4, <3>1
  <2> QED
    BY <1>1, <2>5, <2>6, <2>7, <2>8, <2>9 DEF Kinds
<1>11. Skipped \in Events /\ Skipped.type = "observation"
  BY <1>2, <1>3, <1>4 DEF Skipped, Event
<1> QED
  BY <1>10, <1>11

\* The rest of ViewInv.
ViewShape ==
  /\ log \in Seq(Events)
  /\ view \in [Procs -> Views]
  /\ shown \in 0..Len(log)
  /\ cuts \in Nat
  /\ \A p \in Procs : IsView(log, view[p]) /\ view[p].seq <= shown

\* An empty view is one of any ledger.
LEMMA EmptyIsView ==
  ASSUME NEW L \in Seq(Events)
  PROVE  EmptyView \in Views /\ IsView(L, EmptyView) /\ EmptyView.seq = 0
<1>1. /\ EmptyView.seq = 0 /\ EmptyView.current = NoCommit /\ EmptyView.workspace = "repo"
      /\ EmptyView \in Views
  BY DEF EmptyView, Views, Workspaces, NoCommit
<1>2. IsCurrent(L, 0, NoCommit)
  BY DEF IsCurrent
<1>3. WorksIn(L, 0) = "repo"
  BY DEF WorksIn
<1> QED
  BY <1>1, <1>2, <1>3 DEF IsView

LEMMA InitView == Init => ViewInv
<1> SUFFICES ASSUME Init PROVE ViewInv
  OBVIOUS
<1>1. TreeInv
  BY InitTree
<1>2. log \in Seq(Events)
  <2>1. Created \in Events /\ FirstCheckpoint \in Events
    BY DEF Created, FirstCheckpoint, Event, Events, EventTypes, Moves, NoCommit
  <2>2. \A x, y \in Events : <<x, y>> \in Seq(Events)
    OBVIOUS
  <2>3. <<Created, FirstCheckpoint>> \in Seq(Events)
    BY <2>1, <2>2
  <2>4. log = <<Created, FirstCheckpoint>> \/ log = <<>>
    BY DEF Init
  <2>5. <<>> \in Seq(Events)
    OBVIOUS
  <2> QED
    BY <2>3, <2>4, <2>5
<1>3. shown \in 0..Len(log) /\ cuts \in Nat
  BY <1>2 DEF Init
<1>4. view = [p \in Procs |-> EmptyView]
  BY DEF Init
<1>5. \A p \in Procs : op[p].from = {}
  <2> DEFINE Start == [p \in Procs |-> NoOp]
  <2>1. CASE op = Start
    BY <2>1 DEF NoOp
  <2>2. ASSUME NEW creator \in Procs,
               \/ op = [Start EXCEPT ![creator].kind = "startRun"]
               \/ op = [Start EXCEPT ![creator].kind = "fork", ![creator].target = ForkCommit]
        PROVE  \A p \in Procs : op[p].from = {}
    <3>1. \A p \in Procs \ {creator} : op[p] = NoOp
      BY <2>2
    <3>2. op[creator].from = {}
      BY <2>2 DEF NoOp
    <3> QED
      BY <3>1, <3>2 DEF NoOp
  <2> QED
    BY <2>1, <2>2 DEF Init
<1> QED
  BY <1>1, <1>2, <1>3, <1>4, <1>5, EmptyIsView DEF ViewInv

\* Nothing that a view rests on changes.
LEMMA ViewsStay ==
  ASSUME ViewShape, UNCHANGED <<log, shown, view>>, cuts' \in Nat
  PROVE  ViewShape'
BY DEF ViewShape

\* The ledger and the index grow, and the views stay, but for at most one.
LEMMA ViewsGrow ==
  ASSUME ViewShape, cuts' \in Nat, shown' \in shown..Len(log'),
         \/ UNCHANGED log
         \/ \E e \in Events : log' = Append(log, e),
         \/ UNCHANGED view
         \/ \E p \in Procs : \E v \in Views :
              view' = [view EXCEPT ![p] = v] /\ IsView(log', v) /\ v.seq <= shown'
  PROVE  ViewShape'
<1>1. /\ log' \in Seq(Events)
      /\ \A v \in Views : IsView(log, v) => IsView(log', v)
  <2>1. CASE UNCHANGED log
    BY <2>1 DEF ViewShape
  <2>2. ASSUME NEW e \in Events, log' = Append(log, e)
        PROVE  log' \in Seq(Events) /\ \A v \in Views : IsView(log, v) => IsView(log', v)
    BY <2>2, ViewGrows DEF ViewShape
  <2> QED
    BY <2>1, <2>2
<1>2. shown \in Nat /\ Len(log') \in Nat /\ shown' \in Nat /\ shown <= shown' /\ shown' \in 0..Len(log')
  BY <1>1 DEF ViewShape
<1>3. \A q \in Procs : view[q] \in Views /\ IsView(log', view[q]) /\ view[q].seq <= shown'
  <2> TAKE q \in Procs
  <2>1. view[q] \in Views /\ IsView(log, view[q]) /\ view[q].seq <= shown
    BY DEF ViewShape
  <2>2. view[q].seq \in Nat
    BY <2>1 DEF Views
  <2> QED
    BY <1>1, <1>2, <2>1, <2>2
<1>4. CASE UNCHANGED view
  BY <1>1, <1>2, <1>3, <1>4 DEF ViewShape
<1>5. ASSUME NEW p \in Procs, NEW v \in Views,
             view' = [view EXCEPT ![p] = v] /\ IsView(log', v) /\ v.seq <= shown'
      PROVE  ViewShape'
  <2>1. view' \in [Procs -> Views] /\ view'[p] = v /\ \A q \in Procs \ {p} : view'[q] = view[q]
    BY <1>5 DEF ViewShape
  <2> QED
    BY <1>1, <1>2, <1>3, <1>5, <2>1 DEF ViewShape
<1> QED
  BY <1>4, <1>5

\* What CutAppend leaves of the ledger and the index.
LEMMA CutAppendViews ==
  ASSUME ViewInv, NEW p \in Procs, CutAppend(p)
  PROVE  /\ shown' \in shown..Len(log')
         /\ UNCHANGED log \/ \E e \in Events : log' = Append(log, e)
<1>1. Final(p) \in Events /\ Skipped \in Events
  BY AppendsEvents DEF CutAppend
<1>2. UNCHANGED log \/ \E e \in Events : log' = Append(log, e)
  BY <1>1 DEF CutAppend
<1>3. Len(log) \in Nat /\ Len(log') \in Nat /\ Len(log) <= Len(log')
  <2>1. log \in Seq(Events)
    BY DEF ViewInv
  <2> QED
    BY <1>2, <2>1
<1>4. shown' \in {shown, Len(log)} /\ shown \in 0..Len(log)
  BY DEF CutAppend, ViewInv
<1> QED
  BY <1>2, <1>3, <1>4

\* A write makes the index complete.
LEMMA WriteViews ==
  ASSUME ViewInv, NEW p \in Procs, NEW e \in Events, Write(p, e)
  PROVE  /\ shown' \in shown..Len(log')
         /\ log' = Append(log, e)
         /\ Len(log') = Len(log) + 1 /\ log'[Len(log')] = e /\ log'[Len(log) + 1] = e
         /\ log' \in Seq(Events) /\ shown' = Len(log')
BY DEF ViewInv, Write

\* A view that has all of the ledger takes the appended event.
LEMMA FoldAppended ==
  ASSUME ViewInv, NEW p \in Procs, NEW e \in Events, Write(p, e), Folds(p)
  PROVE  LET next == FoldEvent(view[p], e)
         IN  /\ next \in Views /\ IsView(log', next)
             /\ next.seq = Len(log') /\ next.seq <= shown'
<1>1. /\ log' = Append(log, e) /\ Len(log') = Len(log) + 1 /\ shown' = Len(log')
      /\ log'[Len(log) + 1] = e /\ log' \in Seq(Events)
  BY WriteViews
<1>2. view[p] \in Views /\ IsView(log, view[p]) /\ log \in Seq(Events)
  BY DEF ViewInv
<1>3. view[p].seq = Len(log) /\ Len(log) \in Nat
  BY <1>2 DEF Folds, Views
<1>4. IsView(log', view[p])
  BY <1>1, <1>2, ViewGrows
<1>5. /\ FoldEvent(view[p], e) \in Views /\ IsView(log', FoldEvent(view[p], e))
      /\ FoldEvent(view[p], e).seq = view[p].seq + 1
  <2>1. PICK L : L = log'
    OBVIOUS
  <2>2. PICK v : v = view[p]
    OBVIOUS
  <2>3. L \in Seq(Events) /\ v \in Views /\ IsView(L, v) /\ v.seq < Len(L) /\ L[v.seq + 1] = e
    BY <1>1, <1>2, <1>3, <1>4, <2>1, <2>2
  <2>4. FoldEvent(v, e) \in Views /\ IsView(L, FoldEvent(v, e)) /\ FoldEvent(v, e).seq = v.seq + 1
    BY <2>3, FoldNext
  <2> QED
    BY <2>1, <2>2, <2>4
<1> QED
  BY <1>1, <1>3, <1>5

LEMMA StepView ==
  ASSUME ViewInv, NEW p \in Procs,
         \/ \E kind \in {"record", "checkpoint", "resume", "rollback"}, target \in Commits :
              Call(p, kind, target)
         \/ View(p) \/ Snapshot(p)
         \/ Materialize(p) \/ MaterializeFails(p)
         \/ AppendEvent(p) \/ AppendEventCorrupt(p) \/ AppendSkipped(p) \/ CreateCheckpoint(p)
         \/ RunLocked(p) \/ AppendFails(p) \/ Exit(p)
  PROVE  ViewShape'
<1>1. ViewShape /\ cuts \in Nat /\ view[p] \in Views
  BY DEF ViewShape, ViewInv
<1>2. CASE \E kind \in {"record", "checkpoint", "resume", "rollback"}, target \in Commits :
             Call(p, kind, target)
  BY <1>1, <1>2, ViewsStay DEF Call, store
<1>3. CASE View(p)
  <2>1. /\ Refreshed(view[p]) \in Views /\ IsView(log, Refreshed(view[p]))
        /\ Refreshed(view[p]).seq = shown
    BY RefreshedView DEF ViewInv
  <2>2. view' = [view EXCEPT ![p] = Refreshed(view[p])] /\ UNCHANGED <<log, shown, cuts>>
    BY <1>3 DEF View, store
  <2>3. shown' \in shown..Len(log') /\ shown \in Nat /\ IsView(log', Refreshed(view[p]))
        /\ Refreshed(view[p]).seq <= shown'
    BY <1>1, <2>1, <2>2 DEF ViewShape
  <2> QED
    BY <1>1, <2>1, <2>2, <2>3, ViewsGrow
<1>4. CASE Snapshot(p)
  BY <1>1, <1>4, ViewsStay DEF Snapshot, store
<1>5. CASE Materialize(p)
  BY <1>1, <1>5, ViewsStay DEF Materialize, store
<1>6. CASE MaterializeFails(p)
  BY <1>1, <1>6, ViewsStay DEF MaterializeFails, Cut, store
<1>7. CASE AppendEvent(p)
  <2>1. Final(p) \in Events /\ Write(p, Final(p)) /\ Folds(p) /\ UNCHANGED cuts
    BY <1>7, AppendsEvents DEF AppendEvent, Folds
  <2>2. shown' \in shown..Len(log') /\ log' = Append(log, Final(p))
    BY <2>1, WriteViews
  <2> DEFINE next == FoldEvent(view[p], Final(p))
  <2>3. next \in Views /\ IsView(log', next) /\ next.seq <= shown'
    BY <2>1, FoldAppended
  <2>4. view' = [view EXCEPT ![p] = next]
    BY <1>7 DEF AppendEvent
  <2> HIDE DEF next
  <2> QED
    BY <1>1, <2>1, <2>2, <2>3, <2>4, ViewsGrow
<1>8. CASE AppendEventCorrupt(p)
  <2>1. Final(p) \in Events /\ Write(p, Final(p)) /\ UNCHANGED <<cuts, view>>
    BY <1>8, AppendsEvents DEF AppendEventCorrupt
  <2>2. shown' \in shown..Len(log') /\ log' = Append(log, Final(p))
    BY <2>1, WriteViews
  <2> QED
    BY <1>1, <2>1, <2>2, ViewsGrow
<1>9. CASE AppendSkipped(p)
  <2>1. Skipped \in Events /\ Write(p, Skipped) /\ UNCHANGED cuts
    BY <1>9, AppendsEvents DEF AppendSkipped
  <2>2. /\ shown' \in shown..Len(log') /\ log' = Append(log, Skipped)
        /\ log'[Len(log')] = Skipped
    BY <2>1, WriteViews
  <2>3. CASE Folds(p)
    <3> DEFINE next == FoldEvent(view[p], Skipped)
    <3>1. next \in Views /\ IsView(log', next) /\ next.seq <= shown'
      BY <2>1, <2>3, FoldAppended DEF Folds
    <3>2. view' = [view EXCEPT ![p] = next]
      BY <1>9, <2>2, <2>3 DEF AppendSkipped
    <3> HIDE DEF next
    <3> QED
      BY <1>1, <2>1, <2>2, <3>1, <3>2, ViewsGrow
  <2>4. CASE ~Folds(p)
    <3>1. UNCHANGED view
      BY <1>9, <2>4 DEF AppendSkipped
    <3> QED
      BY <1>1, <2>1, <2>2, <3>1, ViewsGrow
  <2> QED
    BY <2>3, <2>4
<1>10. CASE CreateCheckpoint(p)
  <2>1. Final(p) \in Events /\ Write(p, Final(p)) /\ UNCHANGED cuts
    BY <1>10, AppendsEvents DEF CreateCheckpoint
  <2>2. /\ shown' \in shown..Len(log') /\ log' = Append(log, Final(p))
        /\ Len(log') = Len(log) + 1 /\ shown' = Len(log') /\ log' \in Seq(Events)
    BY <2>1, WriteViews
  <2>3. CASE Folds(p)
    <3> DEFINE n == Len(log')
               next == [view[p] EXCEPT !.seq = n, !.current = CommitOf(n)]
    <3>1. n \in Nat /\ n = Len(log) + 1 /\ CommitOf(n) \in Nat /\ log \in Seq(Events)
      BY <1>1, <2>2 DEF CommitOf, ViewShape
    <3>2. view' = [view EXCEPT ![p] = next]
      BY <1>1, <1>10, <2>3 DEF CreateCheckpoint, ViewShape
    <3>3. /\ next \in Views /\ next.seq = n /\ next.current = CommitOf(n)
          /\ next.workspace = view[p].workspace
      BY <1>1, <3>1 DEF Views
    <3>4. Final(p).type = "checkpoint.created"
      BY <1>10 DEF CreateCheckpoint, Final, Event
    <3>5. view[p].seq = Len(log) /\ view[p].workspace = WorksIn(log, Len(log))
      BY <1>1, <2>3 DEF Folds, ViewShape, IsView, Views
    <3> HIDE DEF next, n
    <3>6. n = Len(log')
      BY DEF n
    <3>7. IsCurrent(log', n, CommitOf(n)) /\ WorksIn(log', n) = WorksIn(log, Len(log))
      <4>1. "checkpoint.created" \notin RestoreTypes
        BY DEF RestoreTypes
      <4> QED
        BY <2>1, <2>2, <3>1, <3>4, <3>6, <4>1, HeadNext
    <3>8. IsView(log', next) /\ next.seq <= shown'
      BY <2>2, <3>1, <3>3, <3>5, <3>6, <3>7 DEF IsView
    <3> QED
      BY <1>1, <2>1, <2>2, <3>2, <3>3, <3>8, ViewsGrow
  <2>4. CASE ~Folds(p)
    <3>1. UNCHANGED view
      BY <1>10, <2>4 DEF CreateCheckpoint
    <3> QED
      BY <1>1, <2>1, <2>2, <3>1, ViewsGrow
  <2> QED
    BY <2>3, <2>4
<1>11. CASE RunLocked(p)
  <2>1. cuts' \in Nat
    <3>1. Max({cuts, 1}) \in Nat
      <4> DEFINE S == {cuts, 1}
      <4>1. S \in SUBSET (0..(cuts + 1)) /\ cuts + 1 \in Nat /\ S # {} /\ S \in SUBSET Nat
        BY <1>1
      <4> HIDE DEF S
      <4>2. Max(S) \in S
        BY <4>1, GreatestOf
      <4> QED
        BY <4>1, <4>2 DEF S
    <3> QED
      BY <1>1, <1>11, <3>1 DEF RunLocked
  <2> QED
    BY <1>1, <1>11, <2>1, ViewsStay DEF RunLocked, store
<1>12. CASE AppendFails(p)
  <2>1. cuts' \in Nat /\ UNCHANGED view /\ CutAppend(p)
    BY <1>1, <1>12 DEF AppendFails, Cut
  <2>2. shown' \in shown..Len(log') /\ (UNCHANGED log \/ \E e \in Events : log' = Append(log, e))
    BY <2>1, CutAppendViews
  <2> QED
    BY <1>1, <2>1, <2>2, ViewsGrow
<1>13. CASE Exit(p)
  <2>1. cuts' \in Nat
    BY <1>1, <1>13 DEF Exit, Cut
  <2>2. shown' \in shown..Len(log') /\ (UNCHANGED log \/ \E e \in Events : log' = Append(log, e))
    <3>1. CASE CutAppend(p)
      BY <3>1, CutAppendViews
    <3>2. CASE UNCHANGED <<log, shown, base>>
      BY <1>1, <3>2 DEF ViewShape
    <3> QED
      BY <1>13, <3>1, <3>2 DEF Exit
  <2>3. log' \in Seq(Events) /\ shown' \in Nat
    BY <1>1, <2>2 DEF ViewShape
  <2>4. view' = [view EXCEPT ![p] = EmptyView]
    BY <1>13 DEF Exit
  <2>5. EmptyView \in Views /\ IsView(log', EmptyView) /\ EmptyView.seq <= shown'
    BY <2>3, EmptyIsView
  <2> QED
    BY <1>1, <2>1, <2>2, <2>4, <2>5, ViewsGrow
<1> QED
  BY <1>2, <1>3, <1>4, <1>5, <1>6, <1>7, <1>8, <1>9, <1>10, <1>11, <1>12, <1>13

\* What a snapshot continues is what some workspace did.
LEMMA FromsStay ==
  ASSUME ViewInv, NEW p \in Procs, NEW q \in Procs,
         \/ \E kind \in {"record", "checkpoint", "resume", "rollback"}, target \in Commits :
              Call(p, kind, target)
         \/ View(p) \/ Snapshot(p)
         \/ Materialize(p) \/ MaterializeFails(p)
         \/ AppendEvent(p) \/ AppendEventCorrupt(p) \/ AppendSkipped(p) \/ CreateCheckpoint(p)
         \/ RunLocked(p) \/ AppendFails(p) \/ Exit(p)
  PROVE  op'[q].from \in SUBSET Nat
<1>1. /\ op = [r \in Procs |-> op[r]]
      /\ op[q] \in [kind : Kinds, target : Commits, from : {op[q].from}, replaced : BOOLEAN]
      /\ op[q].from \in SUBSET Nat
  BY DEF ViewInv, TreeInv, Shapes, OpShape
<1>2. NoOp.from = {}
  BY DEF NoOp
<1>3. CASE \E kind \in {"record", "checkpoint", "resume", "rollback"}, target \in Commits :
             Call(p, kind, target)
  <2>1. PICK kind \in {"record", "checkpoint", "resume", "rollback"}, target \in Commits :
          Call(p, kind, target)
    BY <1>3
  <2> DEFINE new == [NoOp EXCEPT !.kind = kind, !.target = target]
  <2>2. new.from = {}
    BY DEF NoOp
  <2>3. op' = [op EXCEPT ![p] = new]
    BY <2>1 DEF Call
  <2> HIDE DEF new
  <2>4. op'[q] = IF q = p THEN new ELSE op[q]
    BY <1>1, <2>3
  <2> QED
    BY <1>1, <2>2, <2>4
<1>4. CASE Snapshot(p)
  <2> DEFINE read == base[view[p].workspace]
             new == [op[p] EXCEPT !.from = read, !.replaced = FALSE]
  <2>1. read \in SUBSET Nat
    BY DEF ViewInv, TreeInv, Shapes, Views
  <2>2. op' = [op EXCEPT ![p] = new]
    BY <1>4 DEF Snapshot
  <2>3. op[p] \in [kind : Kinds, target : Commits, from : {op[p].from}, replaced : BOOLEAN]
    BY DEF ViewInv, TreeInv, Shapes, OpShape
  <2>4. new.from = read
    BY <2>3
  <2> HIDE DEF new, read
  <2>5. op'[q] = IF q = p THEN new ELSE op[q]
    BY <1>1, <2>2
  <2> QED
    BY <1>1, <2>1, <2>4, <2>5
<1>5. CASE Materialize(p)
  <2>1. op'[q] = [op[q] EXCEPT !.replaced = q # p /\ ~Idle(q)]
    BY <1>5 DEF Materialize, Replace
  <2> QED
    BY <1>1, <2>1
<1>6. CASE MaterializeFails(p)
  <2>1. op'[q] = IF q = p THEN NoOp ELSE [op[q] EXCEPT !.replaced = ~Idle(q)]
    BY <1>6 DEF MaterializeFails
  <2> QED
    BY <1>1, <1>2, <2>1
<1>7. CASE UNCHANGED op
  BY <1>1, <1>7
<1>8. CASE op' = [op EXCEPT ![p] = NoOp]
  <2>1. op'[q] = IF q = p THEN NoOp ELSE op[q]
    BY <1>1, <1>8
  <2> QED
    BY <1>1, <1>2, <2>1
<1>9. View(p) \/ AppendSkipped(p) => UNCHANGED op \/ op' = [op EXCEPT ![p] = NoOp]
  BY DEF View, AppendSkipped, End
<1>10. AppendEvent(p) \/ AppendEventCorrupt(p) \/ CreateCheckpoint(p) \/ RunLocked(p)
       \/ AppendFails(p) \/ Exit(p) => op' = [op EXCEPT ![p] = NoOp]
  BY DEF AppendEvent, AppendEventCorrupt, CreateCheckpoint, RunLocked, AppendFails, Exit, End
<1> QED
  BY <1>3, <1>4, <1>5, <1>6, <1>7, <1>8, <1>9, <1>10

LEMMA NextView == ViewInv /\ [Next]_vars => ViewInv'
<1> SUFFICES ASSUME ViewInv, [Next]_vars PROVE ViewInv'
  OBVIOUS
<1>1. TreeInv'
  BY NextTree DEF ViewInv
<1>2. ViewShape'
  <2>1. CASE UNCHANGED vars
    BY <2>1 DEF ViewInv, ViewShape, vars, store
  <2>2. CASE Next
    BY <2>2, StepView DEF Next
  <2> QED
    BY <2>1, <2>2
<1>3. \A q \in Procs : op'[q].from \in SUBSET Nat
  <2>1. CASE UNCHANGED vars
    BY <2>1 DEF ViewInv, vars
  <2>2. CASE Next
    BY <2>2, FromsStay DEF Next
  <2> QED
    BY <2>1, <2>2
<1> QED
  BY <1>1, <1>2, <1>3 DEF ViewInv, ViewShape

-----------------------------------------------------------------------------
(* Calls that nothing disturbs *)

\* The call has refreshed its view.
Viewed(p) ==
  \/ op[p].kind \in {"startRun", "record", "checkpoint", "rollback"} /\ pc[p] >= 2
  \/ op[p].kind \in {"fork", "resume"} /\ pc[p] >= 3

\* The workspace that the run works in continues the commit that it is at.
HeadIsHeld ==
  \A c \in Nat : IsCurrent(log, Len(log), c) => c \in base[WorksIn(log, Len(log))]

\* At most one process has a call in progress.
OneAtATime == \A p, q \in Procs : Idle(p) \/ Idle(q) \/ p = q

\* A call that has its view has all of the ledger.
CallsKnowAll == \A p \in Procs : Viewed(p) => view[p].seq = Len(log)

\* What a call has checked out is still there.
CheckoutsHold == \A p \in Procs : CheckedOut(p) => base["execution"] = {op[p].target}

\* A snapshot continues the commit that the run is at, and is not replaced.
SnapshotsHold ==
  \A p \in Procs : /\ ~op[p].replaced
                   /\ op[p].kind = "checkpoint" /\ pc[p] >= 3 => view[p].current \in op[p].from

CheckpointsCompose == \A seq \in CheckpointSeqs : log[seq].commit \in log[seq].from /\ log[seq].current

Undisturbed == ~overlapped /\ cuts = 0

\* While no call overlapped another and none was cut short: the index is complete,
\* and the workspace continues the commit that the run is at, but while a call
\* has checked out another one.
QuietInv ==
  /\ shown = Len(log)
  /\ OneAtATime
  /\ CallsKnowAll
  /\ CheckoutsHold
  /\ (\A p \in Procs : ~CheckedOut(p)) => HeadIsHeld
  /\ SnapshotsHold
  /\ CheckpointsCompose
  /\ NoFalseCorrupt

ComposeInv == ViewInv /\ (Undisturbed => QuietInv)

\* Where the steps of an operation are in its plan.
LEMMA PlanPlaces ==
  ASSUME NEW p \in Procs, op[p].kind \in Kinds
  PROVE  /\ At(p, "view") => \/ op[p].kind \in {"startRun", "record", "checkpoint", "rollback"} /\ pc[p] = 1
                             \/ op[p].kind \in {"fork", "resume"} /\ pc[p] = 2
         /\ At(p, "snapshot") => op[p].kind = "checkpoint" /\ pc[p] = 2
         /\ At(p, "materialize") => \/ op[p].kind \in {"fork", "resume"} /\ pc[p] = 1
                                    \/ op[p].kind = "rollback" /\ pc[p] = 2
         /\ At(p, "append") => \/ op[p].kind \in {"startRun", "record"} /\ pc[p] = 2
                               \/ op[p].kind \in {"checkpoint", "fork", "resume", "rollback"} /\ pc[p] = 3
<1>1. CASE op[p].kind \in {"fork", "resume"}
  <2>1. Plan(op[p].kind) = <<"materialize", "view", "append">>
    BY <1>1 DEF Plan
  <2> QED
    BY <1>1, <2>1 DEF At
<1>2. CASE op[p].kind = "rollback"
  <2>1. Plan(op[p].kind) = <<"view", "materialize", "append">>
    BY <1>2 DEF Plan
  <2> QED
    BY <1>2, <2>1 DEF At
<1>3. CASE op[p].kind = "checkpoint"
  <2>1. Plan(op[p].kind) = <<"view", "snapshot", "append">>
    BY <1>3 DEF Plan
  <2> QED
    BY <1>3, <2>1 DEF At
<1>4. CASE op[p].kind \in {"startRun", "record"}
  <2>1. Plan(op[p].kind) = <<"view", "append">>
    BY <1>4 DEF Plan
  <2> QED
    BY <1>4, <2>1 DEF At
<1>5. CASE op[p].kind = "none"
  <2>1. Plan(op[p].kind) = <<>>
    BY <1>5 DEF Plan
  <2> QED
    BY <1>5, <2>1 DEF At
<1> QED
  BY <1>1, <1>2, <1>3, <1>4, <1>5 DEF Kinds

\* An idle process has nothing to lose.
LEMMA IdleCalls ==
  ASSUME NEW q \in Procs, Idle(q)
  PROVE  ~Viewed(q) /\ ~CheckedOut(q) /\ op[q].kind # "checkpoint"
BY DEF Idle, Viewed, CheckedOut

\* When the only call ends, every process is idle.
LEMMA EndQuiet ==
  ASSUME Shapes, OneAtATime, SnapshotsHold, NEW p \in Procs, ~Idle(p),
         NEW outcome, End(p, outcome)
  PROVE  OneAtATime' /\ CallsKnowAll' /\ CheckoutsHold' /\ SnapshotsHold'
<1>1. op' = [op EXCEPT ![p] = NoOp] /\ NoOp.kind = "none" /\ NoOp.replaced = FALSE
  BY DEF End, NoOp
<1>2. \A q \in Procs : op'[q].kind = "none" /\ ~op'[q].replaced
  BY <1>1 DEF Shapes, OpShape, OneAtATime, SnapshotsHold, Idle
<1> QED
  BY <1>2 DEF OneAtATime, CallsKnowAll, CheckoutsHold, SnapshotsHold, Idle, Viewed, CheckedOut

\* The ledger takes an event.
LEMMA ComposeNext ==
  ASSUME log \in Seq(Events), NEW e \in Events, log' = Append(log, e), CheckpointsCompose,
         e.type = "checkpoint.created" => e.commit \in e.from /\ e.current
  PROVE  CheckpointsCompose'
<1>1. DOMAIN log' = 1..(Len(log) + 1) /\ DOMAIN log = 1..Len(log) /\ Len(log) \in Nat
      /\ \A i \in DOMAIN log : log'[i] = log[i]
      /\ log'[Len(log) + 1] = e
  OBVIOUS
<1> QED
  BY <1>1 DEF CheckpointsCompose, CheckpointSeqs

\* An event that moves nothing keeps what the workspace continues.
LEMMA HeadStays ==
  ASSUME log \in Seq(Events), NEW e \in Events, log' = Append(log, e), e.type \notin Moves,
         UNCHANGED base, HeadIsHeld
  PROVE  HeadIsHeld'
<1>1. e.type \notin RestoreTypes /\ e.type # "checkpoint.created"
  BY DEF Moves, RestoreTypes
<1>2. /\ WorksIn(log', Len(log')) = WorksIn(log, Len(log))
      /\ \A c : IsCurrent(log', Len(log'), c) <=> IsCurrent(log, Len(log), c)
  BY <1>1, HeadNext
<1> QED
  BY <1>2 DEF HeadIsHeld

\* The view of a call that has all of the ledger says where the run is.
LEMMA ViewOfHead ==
  ASSUME ViewInv, NEW p \in Procs, view[p].seq = Len(log)
  PROVE  /\ view[p].current \in Nat /\ IsCurrent(log, Len(log), view[p].current)
         /\ view[p].workspace = WorksIn(log, Len(log)) /\ view[p].workspace \in Workspaces
BY DEF ViewInv, Views, IsView

LEMMA InitQuiet == Init => QuietInv
<1> SUFFICES ASSUME Init PROVE QuietInv
  OBVIOUS
<1>1. \A p \in Procs : pc[p] \in {0, 1}
  BY DEF Init
<1>2. \A p \in Procs : ~Viewed(p) /\ ~CheckedOut(p) /\ ~(pc[p] >= 3)
  BY <1>1 DEF Viewed, CheckedOut
<1>3. OneAtATime /\ \A p \in Procs : ~op[p].replaced
  <2> DEFINE Start == [p \in Procs |-> NoOp]
  <2>1. NoOp.kind = "none" /\ NoOp.replaced = FALSE
    BY DEF NoOp
  <2>2. CASE op = Start
    BY <2>1, <2>2 DEF OneAtATime, Idle
  <2>3. ASSUME NEW creator \in Procs,
               \/ op = [Start EXCEPT ![creator].kind = "startRun"]
               \/ op = [Start EXCEPT ![creator].kind = "fork", ![creator].target = ForkCommit]
        PROVE  OneAtATime /\ \A p \in Procs : ~op[p].replaced
    <3>1. \A p \in Procs \ {creator} : op[p] = NoOp
      BY <2>3
    <3>2. ~op[creator].replaced
      BY <2>3 DEF NoOp
    <3> QED
      BY <2>1, <3>1, <3>2 DEF OneAtATime, Idle
  <2> QED
    BY <2>2, <2>3 DEF Init
<1>4. HeadIsHeld /\ CheckpointsCompose
  <2>1. CASE log = <<>>
    <3>1. base["repo"] = {NoCommit}
      BY <2>1 DEF Init
    <3>2. WorksIn(log, Len(log)) = "repo" /\ \A c : IsCurrent(log, Len(log), c) => c = NoCommit
      BY <2>1 DEF WorksIn, IsCurrent
    <3>3. HeadIsHeld
      BY <3>1, <3>2 DEF HeadIsHeld
    <3> QED
      BY <2>1, <3>3 DEF CheckpointsCompose, CheckpointSeqs
  <2>2. CASE log = <<Created, FirstCheckpoint>>
    <3>1. base["repo"] = {CommitOf(2)}
      BY <2>2 DEF Init
    <3>2. /\ Created.type = "run.created"
          /\ FirstCheckpoint.type = "checkpoint.created" /\ FirstCheckpoint.current
          /\ FirstCheckpoint.commit \in FirstCheckpoint.from
      BY DEF Created, FirstCheckpoint, Event
    <3>3. Len(log) = 2 /\ DOMAIN log = {1, 2} /\ log[1] = Created /\ log[2] = FirstCheckpoint
      BY <2>2
    <3>4. WorksIn(log, 2) = "repo"
      BY <3>2, <3>3 DEF WorksIn, RestoreTypes
    <3>5. \A c : IsCurrent(log, 2, c) => c = CommitOf(2)
      <4>1. IsCurrent(log, 2, CommitOf(2))
        <5>1. MovesTo(log, 2) = CommitOf(2)
          BY <3>2, <3>3 DEF MovesTo
        <5>2. 2 \in 1..2 /\ log[2].type \in Moves /\ \A j \in (2 + 1)..2 : FALSE
          BY <3>2, <3>3 DEF Moves
        <5> QED
          BY <5>1, <5>2 DEF IsCurrent
      <4> QED
        BY <4>1, OneCurrent
    <3>6. HeadIsHeld
      BY <3>1, <3>3, <3>4, <3>5 DEF HeadIsHeld
    <3> QED
      BY <3>2, <3>3, <3>6 DEF CheckpointsCompose, CheckpointSeqs
  <2> QED
    BY <2>1, <2>2 DEF Init
<1>5. NoFalseCorrupt /\ shown = Len(log)
  BY DEF Init, NoFalseCorrupt
<1> QED
  BY <1>2, <1>3, <1>4, <1>5 DEF QuietInv, CallsKnowAll, CheckoutsHold, SnapshotsHold

\* Nothing disturbed the calls before a step that leaves them undisturbed.
LEMMA UndisturbedBefore ==
  ASSUME ViewInv, NEW p \in Procs, Undisturbed',
         \/ \E kind \in {"record", "checkpoint", "resume", "rollback"}, target \in Commits :
              Call(p, kind, target)
         \/ View(p) \/ Snapshot(p)
         \/ Materialize(p) \/ MaterializeFails(p)
         \/ AppendEvent(p) \/ AppendEventCorrupt(p) \/ AppendSkipped(p) \/ CreateCheckpoint(p)
         \/ RunLocked(p) \/ AppendFails(p) \/ Exit(p)
  PROVE  /\ Undisturbed
         /\ ~MaterializeFails(p) /\ ~AppendFails(p) /\ (Exit(p) => Idle(p))
         /\ RunLocked(p) => op[p].kind \notin {"fork", "resume", "rollback"}
<1>1. cuts \in Nat /\ ~overlapped' /\ cuts' = 0
  BY DEF ViewInv, Undisturbed
<1>2. ~Cut(p)
  BY <1>1 DEF Cut
<1>3. Max({cuts, 1}) >= 1
  <2> DEFINE S == {cuts, 1}
  <2>1. S \in SUBSET (0..(cuts + 1)) /\ cuts + 1 \in Nat /\ S # {} /\ 1 \in S
    BY <1>1
  <2> HIDE DEF S
  <2>2. 1 <= Max(S)
    BY <2>1, GreatestOf
  <2>3. Max(S) \in S
    BY <2>1, GreatestOf
  <2> QED
    BY <2>2, <2>3, <1>1 DEF S
<1>4. RunLocked(p) => op[p].kind \notin {"fork", "resume", "rollback"} /\ UNCHANGED cuts
  BY <1>1, <1>3 DEF RunLocked, Restores
<1>5. ~MaterializeFails(p) /\ ~AppendFails(p) /\ (Exit(p) => Idle(p) /\ UNCHANGED cuts)
  BY <1>2 DEF MaterializeFails, AppendFails, Exit
<1>6. UNCHANGED cuts
  BY <1>4, <1>5 DEF Call, View, Snapshot, Materialize, AppendEvent, AppendEventCorrupt,
                    AppendSkipped, CreateCheckpoint
<1>7. ~overlapped
  BY <1>1 DEF Call, View, Snapshot, Materialize, MaterializeFails, AppendEvent, AppendEventCorrupt,
              AppendSkipped, CreateCheckpoint, RunLocked, AppendFails, Exit
<1> QED
  BY <1>1, <1>4, <1>5, <1>6, <1>7 DEF Undisturbed

\* A call has what its step at the ledger needs: its view has all of the ledger,
\* and its snapshot, or the worktree that it checked out, is as it left it.
LEMMA AtAppend ==
  ASSUME ViewInv, QuietInv, NEW p \in Procs, At(p, "append")
  PROVE  /\ ~Idle(p) /\ Viewed(p) /\ view[p].seq = Len(log) /\ Folds(p)
         /\ op[p].kind = "checkpoint" => view[p].current \in op[p].from /\ ~op[p].replaced
         /\ IF op[p].kind \in {"fork", "resume", "rollback"}
            THEN base["execution"] = {op[p].target}
            ELSE HeadIsHeld
<1>1. op[p].kind \in Kinds /\ log \in Seq(Events)
  BY DEF ViewInv, TreeInv, Shapes, OpShape
<1>2. \/ op[p].kind \in {"startRun", "record"} /\ pc[p] = 2
      \/ op[p].kind \in {"checkpoint", "fork", "resume", "rollback"} /\ pc[p] = 3
  BY <1>1, PlanPlaces
<1>3. ~Idle(p) /\ Viewed(p)
  BY <1>2 DEF Idle, Viewed
<1>4. view[p].seq = Len(log)
  BY <1>3 DEF QuietInv, CallsKnowAll
<1>5. Folds(p)
  BY <1>1, <1>4 DEF Folds
<1>6. op[p].kind = "checkpoint" => view[p].current \in op[p].from /\ ~op[p].replaced
  BY <1>2 DEF QuietInv, SnapshotsHold
<1>7. ASSUME op[p].kind \in {"fork", "resume", "rollback"} PROVE base["execution"] = {op[p].target}
  <2>1. CheckedOut(p)
    BY <1>2, <1>7 DEF CheckedOut
  <2> QED
    BY <2>1 DEF QuietInv, CheckoutsHold
<1>8. ASSUME op[p].kind \notin {"fork", "resume", "rollback"} PROVE HeadIsHeld
  <2>1. ~CheckedOut(p)
    BY <1>8 DEF CheckedOut
  <2>2. \A q \in Procs \ {p} : ~CheckedOut(q)
    BY <1>3, IdleCalls DEF QuietInv, OneAtATime
  <2> QED
    BY <2>1, <2>2 DEF QuietInv
<1> QED
  BY <1>3, <1>4, <1>5, <1>6, <1>7, <1>8

LEMMA CallQuiet ==
  ASSUME ViewInv, QuietInv, Undisturbed', NEW p \in Procs,
         NEW kind \in {"record", "checkpoint", "resume", "rollback"}, NEW target \in Commits,
         Call(p, kind, target)
  PROVE  QuietInv'
<1>1. /\ op' = [op EXCEPT ![p] = [NoOp EXCEPT !.kind = kind, !.target = target]]
      /\ pc' = [pc EXCEPT ![p] = 1]
      /\ UNCHANGED <<log, shown, base, view>> /\ answer' = "none"
      /\ Idle(p) /\ \A q \in Procs \ {p} : Idle(q)
  BY DEF Call, store, Undisturbed
<1>2. op'[p].kind = kind /\ ~op'[p].replaced /\ pc'[p] = 1
      /\ \A q \in Procs \ {p} : op'[q] = op[q]
  BY <1>1 DEF ViewInv, TreeInv, Shapes, OpShape, NoOp
<1>3. \A q \in Procs \ {p} : op'[q].kind = "none" /\ ~op'[q].replaced
  BY <1>1, <1>2 DEF Idle, QuietInv, SnapshotsHold
<1>4. \A q \in Procs : ~Viewed(q)' /\ ~CheckedOut(q)' /\ ~(op'[q].kind = "checkpoint" /\ pc'[q] >= 3)
  BY <1>2, <1>3 DEF Viewed, CheckedOut
<1>5. OneAtATime'
  BY <1>3 DEF OneAtATime, Idle
<1>6. CallsKnowAll' /\ CheckoutsHold' /\ SnapshotsHold'
  BY <1>2, <1>3, <1>4 DEF CallsKnowAll, CheckoutsHold, SnapshotsHold
<1>7. HeadIsHeld'
  <2>1. \A q \in Procs : ~CheckedOut(q)
    BY <1>1, IdleCalls
  <2>2. HeadIsHeld
    BY <2>1 DEF QuietInv
  <2> QED
    BY <1>1, <2>2 DEF HeadIsHeld
<1>8. shown' = Len(log') /\ CheckpointsCompose' /\ NoFalseCorrupt'
  BY <1>1 DEF QuietInv, CheckpointsCompose, CheckpointSeqs, NoFalseCorrupt
<1> QED
  BY <1>5, <1>6, <1>7, <1>8 DEF QuietInv

\* A step within a call that leaves the ledger, the worktree, and which calls
\* have checked out, as they are.
LEMMA WithinCall ==
  ASSUME QuietInv, UNCHANGED <<log, shown, base>>, answer' = "none",
         \A q \in Procs : /\ op'[q].kind = op[q].kind /\ op'[q].target = op[q].target
                          /\ CheckedOut(q)' <=> CheckedOut(q),
         CallsKnowAll', SnapshotsHold'
  PROVE  QuietInv'
<1>1. OneAtATime' /\ CheckoutsHold'
  BY DEF QuietInv, OneAtATime, Idle, CheckoutsHold
<1>2. HeadIsHeld => HeadIsHeld'
  BY DEF HeadIsHeld
<1>3. CheckpointsCompose' /\ NoFalseCorrupt' /\ shown' = Len(log')
  BY DEF QuietInv, CheckpointsCompose, CheckpointSeqs, NoFalseCorrupt
<1> QED
  BY <1>1, <1>2, <1>3 DEF QuietInv

LEMMA ViewQuiet ==
  ASSUME ViewInv, QuietInv, NEW p \in Procs, View(p)
  PROVE  QuietInv'
<1>1. /\ pc' = [pc EXCEPT ![p] = @ + 1] /\ view' = [view EXCEPT ![p] = Refreshed(@)]
      /\ UNCHANGED <<log, shown, base, op>> /\ answer' = "none" /\ At(p, "view")
  BY DEF View, store
<1>2. op[p].kind \in Kinds /\ pc[p] \in Nat /\ pc'[p] = pc[p] + 1
      /\ \A q \in Procs \ {p} : pc'[q] = pc[q] /\ view'[q] = view[q]
  BY <1>1 DEF ViewInv, TreeInv, Shapes, OpShape
<1>3. \/ op[p].kind \in {"startRun", "record", "checkpoint", "rollback"} /\ pc[p] = 1
      \/ op[p].kind \in {"fork", "resume"} /\ pc[p] = 2
  BY <1>1, <1>2, PlanPlaces
<1>4. view'[p].seq = Len(log)
  <2>1. Refreshed(view[p]).seq = shown
    BY RefreshedView DEF ViewInv
  <2>2. shown = Len(log)
    BY DEF QuietInv
  <2>3. view'[p] = Refreshed(view[p])
    BY <1>1 DEF ViewInv
  <2> QED
    BY <2>1, <2>2, <2>3
<1>5. \A q \in Procs \ {p} : Viewed(q)' <=> Viewed(q)
  BY <1>1, <1>2 DEF Viewed
<1>6. CallsKnowAll'
  BY <1>1, <1>2, <1>4, <1>5 DEF CallsKnowAll, QuietInv
<1>7. \A q \in Procs : CheckedOut(q)' <=> CheckedOut(q)
  BY <1>1, <1>2, <1>3 DEF CheckedOut
<1>8. SnapshotsHold'
  <2>1. ASSUME NEW q \in Procs, op[q].kind = "checkpoint", pc'[q] >= 3
        PROVE  view'[q].current \in op[q].from
    <3>1. q # p
      BY <1>2, <1>3, <2>1
    <3> QED
      BY <1>2, <2>1, <3>1 DEF QuietInv, SnapshotsHold
  <2> QED
    BY <1>1, <2>1 DEF SnapshotsHold, QuietInv
<1> QED
  BY <1>1, <1>6, <1>7, <1>8, WithinCall

LEMMA SnapshotQuiet ==
  ASSUME ViewInv, QuietInv, NEW p \in Procs, Snapshot(p)
  PROVE  QuietInv'
<1> DEFINE read == base[view[p].workspace]
           new == [op[p] EXCEPT !.from = read, !.replaced = FALSE]
<1>1. /\ pc' = [pc EXCEPT ![p] = @ + 1] /\ op' = [op EXCEPT ![p] = new]
      /\ UNCHANGED <<log, shown, base, view>> /\ answer' = "none" /\ At(p, "snapshot")
  BY DEF Snapshot, store
<1>2. op[p] \in [kind : Kinds, target : Commits, from : {op[p].from}, replaced : BOOLEAN]
  BY DEF ViewInv, TreeInv, Shapes, OpShape
<1>3. new.kind = op[p].kind /\ new.target = op[p].target /\ new.from = read /\ new.replaced = FALSE
  BY <1>2
<1>4. pc[p] \in Nat /\ pc'[p] = pc[p] + 1
      /\ \A q \in Procs \ {p} : pc'[q] = pc[q]
  BY <1>1 DEF ViewInv, TreeInv, Shapes
<1> HIDE DEF new
<1>5. op'[p] = new /\ \A q \in Procs \ {p} : op'[q] = op[q]
  BY <1>1 DEF ViewInv, TreeInv, Shapes, OpShape
<1>6. op[p].kind = "checkpoint" /\ pc[p] = 2
  BY <1>1, <1>2, PlanPlaces
<1>7. \A q \in Procs : op'[q].kind = op[q].kind /\ op'[q].target = op[q].target
  BY <1>3, <1>5
<1>8. \A q \in Procs : CheckedOut(q)' <=> CheckedOut(q)
  BY <1>4, <1>6, <1>7 DEF CheckedOut
<1>9. view[p].seq = Len(log)
  BY <1>6 DEF QuietInv, CallsKnowAll, Viewed
<1>10. CallsKnowAll'
  <2>1. \A q \in Procs \ {p} : Viewed(q)' <=> Viewed(q)
    BY <1>4, <1>7 DEF Viewed
  <2> QED
    BY <1>1, <1>9, <2>1 DEF CallsKnowAll, QuietInv
<1>11. view[p].current \in read
  <2>1. \A q \in Procs : ~CheckedOut(q)
    <3>1. ~CheckedOut(p) /\ ~Idle(p)
      BY <1>6 DEF CheckedOut, Idle
    <3> QED
      BY <3>1, IdleCalls DEF QuietInv, OneAtATime
  <2>2. HeadIsHeld
    BY <2>1 DEF QuietInv
  <2> QED
    BY <1>9, <2>2, ViewOfHead DEF HeadIsHeld
<1> HIDE DEF read
<1>12. SnapshotsHold'
  <2>1. ~op'[p].replaced /\ view'[p].current \in op'[p].from
    BY <1>1, <1>3, <1>5, <1>11
  <2>2. \A q \in Procs \ {p} : /\ ~op'[q].replaced
                               /\ op'[q].kind = "checkpoint" /\ pc'[q] >= 3 => view'[q].current \in op'[q].from
    BY <1>1, <1>4, <1>5 DEF SnapshotsHold, QuietInv
  <2> QED
    BY <2>1, <2>2 DEF SnapshotsHold
<1> QED
  BY <1>1, <1>7, <1>8, <1>10, <1>12, WithinCall

LEMMA MaterializeQuiet ==
  ASSUME ViewInv, QuietInv, NEW p \in Procs, Materialize(p)
  PROVE  QuietInv'
<1>1. /\ pc' = [pc EXCEPT ![p] = @ + 1] /\ UNCHANGED <<log, shown, view>> /\ answer' = "none"
      /\ At(p, "materialize") /\ Replace(p) /\ base' = [base EXCEPT !["execution"] = {op[p].target}]
  BY DEF Materialize, store
<1>2. /\ op[p].kind \in Kinds /\ pc[p] \in Nat /\ pc'[p] = pc[p] + 1
      /\ \A q \in Procs \ {p} : pc'[q] = pc[q]
  BY <1>1 DEF ViewInv, TreeInv, Shapes, OpShape
<1>3. \/ op[p].kind \in {"fork", "resume"} /\ pc[p] = 1
      \/ op[p].kind = "rollback" /\ pc[p] = 2
  BY <1>1, <1>2, PlanPlaces
<1>4. ~Idle(p) /\ \A q \in Procs \ {p} : Idle(q)
  <2>1. ~Idle(p)
    BY <1>3 DEF Idle
  <2> QED
    BY <2>1 DEF QuietInv, OneAtATime
<1>5. \A q \in Procs : op'[q].kind = op[q].kind /\ op'[q].target = op[q].target /\ ~op'[q].replaced
  <2> TAKE q \in Procs
  <2>1. op[q] \in [kind : Kinds, target : Commits, from : {op[q].from}, replaced : BOOLEAN]
    BY DEF ViewInv, TreeInv, Shapes, OpShape
  <2>2. op'[q] = [op[q] EXCEPT !.replaced = q # p /\ ~Idle(q)]
    BY <1>1 DEF Replace
  <2> QED
    BY <1>4, <2>1, <2>2
<1>6. base'["execution"] = {op[p].target}
  <2>1. base \in [Workspaces -> SUBSET Nat] /\ "execution" \in Workspaces
    BY DEF ViewInv, TreeInv, Shapes, Workspaces
  <2> QED
    BY <1>1, <2>1
<1>7. \A q \in Procs \ {p} : op'[q].kind = "none"
  BY <1>4, <1>5 DEF Idle
<1>8. OneAtATime'
  BY <1>7 DEF OneAtATime, Idle
<1>9. CallsKnowAll'
  <2>1. \A q \in Procs : Viewed(q)' => Viewed(q)
    BY <1>2, <1>3, <1>5, <1>7 DEF Viewed
  <2> QED
    BY <1>1, <2>1 DEF CallsKnowAll, QuietInv
<1>10. CheckoutsHold'
  BY <1>5, <1>6, <1>7 DEF CheckoutsHold, CheckedOut
<1>11. CheckedOut(p)'
  BY <1>2, <1>3, <1>5 DEF CheckedOut
<1>12. SnapshotsHold'
  BY <1>3, <1>5, <1>7 DEF SnapshotsHold
<1>13. CheckpointsCompose' /\ NoFalseCorrupt' /\ shown' = Len(log')
  BY <1>1 DEF QuietInv, CheckpointsCompose, CheckpointSeqs, NoFalseCorrupt
<1> QED
  BY <1>8, <1>9, <1>10, <1>11, <1>12, <1>13 DEF QuietInv

LEMMA AppendEventQuiet ==
  ASSUME ViewInv, QuietInv, NEW p \in Procs, AppendEvent(p)
  PROVE  QuietInv'
<1>1. /\ At(p, "append") /\ op[p].kind # "checkpoint" /\ Write(p, Final(p))
      /\ End(p, "ok") /\ UNCHANGED base
  BY DEF AppendEvent
<1>2. /\ ~Idle(p) /\ op[p].kind \in Kinds /\ log \in Seq(Events)
      /\ IF op[p].kind \in {"fork", "resume", "rollback"}
         THEN base["execution"] = {op[p].target}
         ELSE HeadIsHeld
  BY <1>1, AtAppend DEF ViewInv, TreeInv, Shapes, OpShape
<1>3. Final(p) \in Events /\ log' = Append(log, Final(p)) /\ shown' = Len(log')
  BY <1>1, AppendsEvents, WriteViews
<1>4. OneAtATime' /\ CallsKnowAll' /\ CheckoutsHold' /\ SnapshotsHold' /\ answer' = "ok"
  BY <1>1, <1>2, EndQuiet DEF End, ViewInv, TreeInv, QuietInv
<1>5. IF op[p].kind \in {"fork", "resume", "rollback"}
      THEN Final(p).type \in RestoreTypes /\ Final(p).commit = op[p].target
      ELSE Final(p).type \in {"run.created", "observation"}
  <2>1. CASE op[p].kind = "fork"
    BY <2>1 DEF Final, Event, RestoreTypes
  <2>2. CASE op[p].kind \in {"resume", "rollback"}
    BY <2>2 DEF Final, Event, RestoreTypes
  <2>3. CASE op[p].kind = "startRun"
    BY <2>3 DEF Final, Created, Event
  <2>4. CASE op[p].kind = "record"
    BY <2>4 DEF Final, Event
  <2> QED
    BY <1>1, <1>2, <2>1, <2>2, <2>3, <2>4 DEF Kinds, Idle
<1>6. Final(p).type # "checkpoint.created"
  BY <1>5 DEF RestoreTypes
<1>7. CheckpointsCompose'
  BY <1>2, <1>3, <1>6, ComposeNext DEF QuietInv
<1>8. HeadIsHeld'
  <2>1. CASE op[p].kind \in {"fork", "resume", "rollback"}
    <3>1. /\ Final(p).type \in RestoreTypes /\ Final(p).commit = op[p].target
          /\ Final(p).type \in Moves /\ Final(p).type # "checkpoint.created"
      BY <1>5, <2>1 DEF RestoreTypes, Moves
    <3>2. WorksIn(log', Len(log')) = "execution"
      BY <1>2, <1>3, <3>1, HeadNext
    <3>3. \A c : IsCurrent(log', Len(log'), c) <=> c = op[p].target
      BY <1>2, <1>3, <3>1, HeadNext
    <3>4. base'["execution"] = {op[p].target}
      BY <1>1, <1>2, <2>1
    <3> QED
      BY <3>2, <3>3, <3>4 DEF HeadIsHeld
  <2>2. CASE op[p].kind \notin {"fork", "resume", "rollback"}
    <3>1. Final(p).type \notin Moves
      BY <1>5, <2>2 DEF Moves
    <3> QED
      BY <1>1, <1>2, <1>3, <2>2, <3>1, HeadStays
  <2> QED
    BY <2>1, <2>2
<1> QED
  BY <1>3, <1>4, <1>7, <1>8 DEF QuietInv, NoFalseCorrupt

LEMMA SkippedQuiet ==
  ASSUME ViewInv, QuietInv, NEW p \in Procs, AppendSkipped(p)
  PROVE  QuietInv'
<1>1. /\ At(p, "append") /\ op[p].kind = "checkpoint" /\ Write(p, Skipped)
      /\ UNCHANGED base
  BY DEF AppendSkipped
<1>2. /\ ~Idle(p) /\ Folds(p) /\ log \in Seq(Events) /\ HeadIsHeld
      /\ view[p].current \in op[p].from
  BY <1>1, AtAppend DEF ViewInv
<1>3. /\ Skipped \in Events /\ Skipped.type = "observation" /\ log' = Append(log, Skipped)
      /\ shown' = Len(log') /\ log'[Len(log')] = Skipped
  BY <1>1, AppendsEvents, WriteViews
<1>4. /\ view' = [view EXCEPT ![p] = FoldEvent(view[p], Skipped)]
      /\ UNCHANGED <<pc, op>> /\ answer' = "none"
  BY <1>2, <1>3 DEF AppendSkipped
<1>5. /\ view'[p] = FoldEvent(view[p], Skipped)
      /\ \A q \in Procs \ {p} : view'[q] = view[q] /\ Idle(q)
  BY <1>2, <1>4 DEF ViewInv, QuietInv, OneAtATime
<1>6. view'[p].seq = Len(log') /\ view'[p].current = view[p].current
  <2>1. FoldEvent(view[p], Skipped).seq = Len(log')
    BY <1>1, <1>2, <1>3, FoldAppended
  <2>2. view[p] \in Views /\ Skipped.type \notin Moves /\ Skipped.type # "checkpoint.created"
    BY <1>3 DEF ViewInv, Moves
  <2>3. FoldEvent(view[p], Skipped).current = view[p].current
    BY <1>3, <2>2, FoldEventType
  <2> QED
    BY <1>5, <2>1, <2>3
<1>7. \A q \in Procs \ {p} : ~Viewed(q)' /\ ~CheckedOut(q)' /\ op'[q].kind # "checkpoint"
  <2>1. \A q \in Procs \ {p} : op'[q].kind = "none"
    BY <1>4, <1>5 DEF Idle
  <2> QED
    BY <2>1 DEF Viewed, CheckedOut
<1>8. CallsKnowAll' /\ SnapshotsHold' /\ OneAtATime'
  <2>1. CallsKnowAll'
    BY <1>6, <1>7 DEF CallsKnowAll
  <2>2. SnapshotsHold'
    BY <1>2, <1>4, <1>6, <1>7 DEF SnapshotsHold, QuietInv
  <2>3. OneAtATime'
    BY <1>4 DEF OneAtATime, QuietInv, Idle
  <2> QED
    BY <2>1, <2>2, <2>3
<1>9. CheckoutsHold'
  BY <1>1, <1>4 DEF CheckoutsHold, CheckedOut, QuietInv
<1>10. HeadIsHeld'
  <2>1. Skipped.type \notin Moves
    BY <1>3 DEF Moves
  <2> QED
    BY <1>1, <1>2, <1>3, <2>1, HeadStays
<1>11. CheckpointsCompose' /\ NoFalseCorrupt'
  <2>1. Skipped.type # "checkpoint.created"
    BY <1>3
  <2> QED
    BY <1>2, <1>3, <1>4, <2>1, ComposeNext DEF QuietInv, NoFalseCorrupt
<1> QED
  BY <1>3, <1>8, <1>9, <1>10, <1>11 DEF QuietInv

LEMMA CheckpointQuiet ==
  ASSUME ViewInv, QuietInv, NEW p \in Procs, CreateCheckpoint(p)
  PROVE  QuietInv'
<1>1. /\ At(p, "append") /\ op[p].kind = "checkpoint" /\ Write(p, Final(p))
      /\ Descend(p) /\ End(p, "ok")
  BY DEF CreateCheckpoint
<1>2. /\ ~Idle(p) /\ Folds(p) /\ log \in Seq(Events) /\ view[p].seq = Len(log)
      /\ view[p].current \in op[p].from /\ ~op[p].replaced
  BY <1>1, AtAppend DEF ViewInv
<1>3. Final(p) \in Events /\ log' = Append(log, Final(p)) /\ shown' = Len(log')
  BY <1>1, AppendsEvents, WriteViews
<1>4. OneAtATime' /\ CallsKnowAll' /\ CheckoutsHold' /\ SnapshotsHold' /\ answer' = "ok"
  BY <1>1, <1>2, EndQuiet DEF End, ViewInv, TreeInv, QuietInv
<1>5. Final(p).type = "checkpoint.created" /\ Final(p).current
      /\ Final(p).commit \in Final(p).from
  <2>1. Final(p) = Event("checkpoint.created", view[p].current, Folds(p), op[p].from)
    BY <1>1 DEF Final
  <2>2. Folds(p) = TRUE
    BY <1>2
  <2>3. Final(p) = Event("checkpoint.created", view[p].current, TRUE, op[p].from)
    BY <2>1, <2>2, Zenon
  <2> QED
    BY <1>2, <2>3 DEF Event
<1>6. CheckpointsCompose'
  BY <1>2, <1>3, <1>5, ComposeNext DEF QuietInv
<1>7. HeadIsHeld'
  <2> DEFINE w == view[p].workspace
             new == CommitOf(Len(log) + 1)
  <2>1. w = WorksIn(log, Len(log)) /\ w \in Workspaces
    BY <1>2, ViewOfHead
  <2>2. base' = [base EXCEPT ![w] = (@ \ op[p].from) \cup {new}]
    BY <1>1, <1>2 DEF Descend
  <2>3. new \in base'[w]
    BY <2>1, <2>2 DEF ViewInv, TreeInv, Shapes
  <2>4. "checkpoint.created" \notin RestoreTypes
    BY DEF RestoreTypes
  <2> HIDE DEF w, new
  <2>5. WorksIn(log', Len(log')) = w
    BY <1>2, <1>3, <1>5, <2>1, <2>4, HeadNext
  <2>6. \A c : IsCurrent(log', Len(log'), c) => c = new
    BY <1>2, <1>3, <1>5, HeadNext DEF new
  <2> QED
    BY <2>3, <2>5, <2>6 DEF HeadIsHeld
<1> QED
  BY <1>3, <1>4, <1>6, <1>7 DEF QuietInv, NoFalseCorrupt

LEMMA LockedQuiet ==
  ASSUME ViewInv, QuietInv, NEW p \in Procs, RunLocked(p),
         op[p].kind \notin {"fork", "resume", "rollback"}
  PROVE  QuietInv'
<1>1. /\ At(p, "append") /\ End(p, "ERR_RUN_LOCKED")
      /\ UNCHANGED <<log, shown, base, view>>
  BY DEF RunLocked, store
<1>2. ~Idle(p) /\ HeadIsHeld
  BY <1>1, AtAppend
<1>3. /\ OneAtATime' /\ CallsKnowAll' /\ CheckoutsHold' /\ SnapshotsHold'
      /\ answer' = "ERR_RUN_LOCKED"
  BY <1>1, <1>2, EndQuiet DEF End, ViewInv, TreeInv, QuietInv
<1>4. HeadIsHeld'
  BY <1>1, <1>2 DEF HeadIsHeld
<1>5. CheckpointsCompose' /\ shown' = Len(log')
  BY <1>1 DEF QuietInv, CheckpointsCompose, CheckpointSeqs
<1> QED
  BY <1>3, <1>4, <1>5 DEF QuietInv, NoFalseCorrupt

LEMMA ExitQuiet ==
  ASSUME ViewInv, QuietInv, NEW p \in Procs, Exit(p), Idle(p)
  PROVE  QuietInv'
<1>1. ~CutAppend(p)
  BY AtAppend DEF CutAppend
<1>2. /\ UNCHANGED <<log, shown, base>> /\ answer' = "none"
      /\ op' = [op EXCEPT ![p] = NoOp] /\ pc' = [pc EXCEPT ![p] = 0]
      /\ view' = [view EXCEPT ![p] = EmptyView]
  BY <1>1 DEF Exit
<1>3. /\ op'[p] = NoOp
      /\ \A q \in Procs \ {p} : op'[q] = op[q] /\ pc'[q] = pc[q] /\ view'[q] = view[q]
  BY <1>2 DEF ViewInv, TreeInv, Shapes, OpShape
<1>4. op'[p].kind = "none" /\ ~op'[p].replaced
  BY <1>3 DEF NoOp
<1>5. OneAtATime'
  BY <1>3, <1>4 DEF QuietInv, OneAtATime, Idle
<1>6. ~Viewed(p)' /\ ~CheckedOut(p)' /\ ~CheckedOut(p)
  BY <1>4, IdleCalls DEF Viewed, CheckedOut
<1>7. \A q \in Procs \ {p} : (Viewed(q)' <=> Viewed(q)) /\ (CheckedOut(q)' <=> CheckedOut(q))
  BY <1>3 DEF Viewed, CheckedOut
<1>8. CallsKnowAll'
  BY <1>2, <1>3, <1>6, <1>7 DEF QuietInv, CallsKnowAll
<1>9. CheckoutsHold'
  BY <1>2, <1>3, <1>6, <1>7 DEF QuietInv, CheckoutsHold
<1>10. SnapshotsHold'
  BY <1>3, <1>4 DEF QuietInv, SnapshotsHold
<1>11. HeadIsHeld => HeadIsHeld'
  BY <1>2 DEF HeadIsHeld
<1>12. CheckpointsCompose' /\ shown' = Len(log') /\ NoFalseCorrupt'
  BY <1>2 DEF QuietInv, CheckpointsCompose, CheckpointSeqs, NoFalseCorrupt
<1> QED
  BY <1>5, <1>6, <1>7, <1>8, <1>9, <1>10, <1>11, <1>12 DEF QuietInv

LEMMA NextCompose == ComposeInv /\ [Next]_vars => ComposeInv'
<1> SUFFICES ASSUME ComposeInv, [Next]_vars PROVE ComposeInv'
  OBVIOUS
<1>1. ViewInv /\ ViewInv'
  BY NextView DEF ComposeInv
<1>2. ASSUME Undisturbed' PROVE QuietInv'
  <2>1. CASE UNCHANGED vars
    <3>1. QuietInv
      BY <1>2, <2>1 DEF ComposeInv, Undisturbed, vars
    <3> QED
      BY <2>1, <3>1 DEF QuietInv, OneAtATime, CallsKnowAll, CheckoutsHold, SnapshotsHold, HeadIsHeld,
                        CheckpointsCompose, CheckpointSeqs, NoFalseCorrupt, Idle, Viewed, CheckedOut,
                        vars, store
  <2>2. CASE Next
    <3>1. PICK p \in Procs :
            \/ \E kind \in {"record", "checkpoint", "resume", "rollback"}, target \in Commits :
                 Call(p, kind, target)
            \/ View(p) \/ Snapshot(p)
            \/ Materialize(p) \/ MaterializeFails(p)
            \/ AppendEvent(p) \/ AppendEventCorrupt(p) \/ AppendSkipped(p) \/ CreateCheckpoint(p)
            \/ RunLocked(p) \/ AppendFails(p) \/ Exit(p)
      BY <2>2 DEF Next
    <3>2. /\ Undisturbed
          /\ ~MaterializeFails(p) /\ ~AppendFails(p) /\ (Exit(p) => Idle(p))
          /\ RunLocked(p) => op[p].kind \notin {"fork", "resume", "rollback"}
      BY <1>1, <1>2, <3>1, UndisturbedBefore
    <3>3. QuietInv
      BY <3>2 DEF ComposeInv
    <3>4. ~AppendEventCorrupt(p)
      BY <1>1, <3>3, AtAppend DEF AppendEventCorrupt, Folds
    <3> QED
      BY <1>1, <1>2, <3>1, <3>2, <3>3, <3>4, CallQuiet, ViewQuiet, SnapshotQuiet, MaterializeQuiet,
         AppendEventQuiet, SkippedQuiet, CheckpointQuiet, LockedQuiet, ExitQuiet
  <2> QED
    BY <2>1, <2>2
<1> QED
  BY <1>1, <1>2 DEF ComposeInv

\* The invariant holds in every reachable state.
THEOREM ComposeInvariant == Spec => []ComposeInv
<1>1. Init => ComposeInv
  BY InitView, InitQuiet DEF ComposeInv
<1> QED
  BY <1>1, NextCompose, PTL DEF Spec

\* Calls of any number of processes, one after the other and none cut short,
\* compose: each view is of the whole ledger, so a checkpoint's parent is what
\* its files continue and #fold never meets a gap (engine.ts:321-373, 592-616).
THEOREM CallsCompose == Spec => []UndisturbedCallsCompose
<1>1. ComposeInv => UndisturbedCallsCompose
  BY DEF ComposeInv, QuietInv, Undisturbed, UndisturbedCallsCompose, CheckpointsCompose
<1> QED
  BY <1>1, ComposeInvariant, PTL

-----------------------------------------------------------------------------
(* Checkpoints that no restore crosses *)

\* A set of commits that holds, with a checkpoint, what its files continue.
Closed(L, S) ==
  \A seq \in DOMAIN L : L[seq].type = "checkpoint.created" /\ CommitOf(seq) \in S => L[seq].from \subseteq S

\* What GoesBackTo says of a ledger.
BackIn(L, c, origin) == \A S \in SUBSET Commits : c \in S /\ Closed(L, S) => origin \in S

\* No event after the first k restores a run.
NoRestoreAfter(L, k) == \A i \in DOMAIN L : i > k => L[i].type \notin RestoreTypes

\* What a workspace holds goes back to every commit that the run has been at since
\* the latest restore.
HeldBy(L, held) ==
  \A k \in 0..Len(L) : \A c \in Nat :
    NoRestoreAfter(L, k) /\ IsCurrent(L, k, c) => \E b \in held : BackIn(L, b, c)

Continued(L) ==
  \A seq \in DOMAIN L :
    L[seq].type = "checkpoint.created" => BackIn(L, CommitOf(seq), L[seq].commit)

\* No restore is in progress beside another one or a checkpoint.
RestoresAlone == \A p, q \in Procs : p # q => ~Crosses(op[p].kind, op[q].kind)

\* Nothing that a checkpoint copied was replaced since.
NothingReplaced == \A p \in Procs : op[p].kind = "checkpoint" => ~op[p].replaced

\* A checkpoint has seen every restore.
RestoresSeen ==
  \A p \in Procs : op[p].kind = "checkpoint" /\ pc[p] >= 2 => NoRestoreAfter(log, view[p].seq)

\* A snapshot goes back to the commit that its view is at.
SnapshotsContinue ==
  \A p \in Procs : op[p].kind = "checkpoint" /\ pc[p] >= 3 =>
    \E b \in op[p].from : BackIn(log, b, view[p].current)

HeadsAreHeld == HeldBy(log, base[WorksIn(log, Len(log))])

\* While no restore crossed another call: the index has every restore, and the
\* workspace goes back to what a checkpoint may take for its parent, however old
\* the view is, but while a call has checked another commit out.
UncrossedInv ==
  /\ RestoresAlone
  /\ CheckoutsHold
  /\ NothingReplaced
  /\ NoRestoreAfter(log, shown)
  /\ RestoresSeen
  /\ (\A p \in Procs : ~CheckedOut(p)) => HeadsAreHeld
  /\ SnapshotsContinue
  /\ Continued(log)

ContinueInv == ViewInv /\ (~crossed => UncrossedInv)

\* Files go on to go back to what they did, when the ledger grows.
LEMMA BackStays ==
  ASSUME NEW L \in Seq(Events), NEW e \in Events, NEW c, NEW origin, BackIn(L, c, origin)
  PROVE  BackIn(Append(L, e), c, origin)
<1> DEFINE M == Append(L, e)
<1>1. \A seq \in DOMAIN L : seq \in DOMAIN M /\ M[seq] = L[seq]
  OBVIOUS
<1> HIDE DEF M
<1>2. \A S : Closed(M, S) => Closed(L, S)
  BY <1>1 DEF Closed
<1>3. BackIn(M, c, origin)
  BY <1>2 DEF BackIn
<1> QED
  BY <1>3 DEF M

\* Files that continue one that goes back to a commit go back to it.
LEMMA BackBy ==
  ASSUME NEW L, NEW seq \in DOMAIN L, L[seq].type = "checkpoint.created",
         NEW b \in L[seq].from, NEW origin, BackIn(L, b, origin)
  PROVE  BackIn(L, CommitOf(seq), origin)
<1> SUFFICES ASSUME NEW S \in SUBSET Commits, CommitOf(seq) \in S, Closed(L, S)
             PROVE  origin \in S
  BY DEF BackIn
<1>1. b \in S
  BY DEF Closed
<1> QED
  BY <1>1 DEF BackIn

\* The restores that a longer ledger has.
LEMMA RestoresGrow ==
  ASSUME NEW L \in Seq(Events), NEW e \in Events, NEW k \in Nat
  PROVE  LET M == Append(L, e)
         IN  /\ e.type \notin RestoreTypes => (NoRestoreAfter(L, k) => NoRestoreAfter(M, k))
             /\ NoRestoreAfter(M, k) => NoRestoreAfter(L, k)
             /\ k <= Len(L) /\ NoRestoreAfter(M, k) => e.type \notin RestoreTypes
             /\ k >= Len(M) => NoRestoreAfter(M, k)
<1> DEFINE M == Append(L, e)
<1>1. /\ DOMAIN M = 1..(Len(L) + 1) /\ DOMAIN L = 1..Len(L) /\ Len(L) \in Nat
      /\ \A i \in DOMAIN L : M[i] = L[i]
      /\ M[Len(L) + 1] = e /\ Len(M) = Len(L) + 1
  OBVIOUS
<1> HIDE DEF M
<1>2. /\ e.type \notin RestoreTypes => (NoRestoreAfter(L, k) => NoRestoreAfter(M, k))
      /\ NoRestoreAfter(M, k) => NoRestoreAfter(L, k)
      /\ k <= Len(L) /\ NoRestoreAfter(M, k) => e.type \notin RestoreTypes
      /\ k >= Len(M) => NoRestoreAfter(M, k)
  BY <1>1 DEF NoRestoreAfter
<1> QED
  BY <1>2 DEF M

\* A run works where it did at the latest restore.
LEMMA SamePlace ==
  ASSUME NEW L \in Seq(Events), NEW k \in 0..Len(L), NoRestoreAfter(L, k)
  PROVE  WorksIn(L, k) = WorksIn(L, Len(L))
<1>1. DOMAIN L = 1..Len(L) /\ Len(L) \in Nat
  OBVIOUS
<1>2. \A i \in 1..Len(L) : L[i].type \in RestoreTypes => i \in 1..k
  BY <1>1 DEF NoRestoreAfter
<1>3. \A i \in 1..k : i \in 1..Len(L)
  BY <1>1
<1> QED
  BY <1>2, <1>3 DEF WorksIn

\* An event after which what a workspace holds goes back to what it did, and to
\* the commit that the event moves the run to.
LEMMA HeldNext ==
  ASSUME NEW L \in Seq(Events), NEW e \in Events, NEW held,
         NEW now, now = Append(L, e),
         e.type \notin RestoreTypes =>
           \A k \in 0..Len(L) : \A c \in Nat :
             NoRestoreAfter(L, k) /\ IsCurrent(L, k, c) => \E b \in held : BackIn(now, b, c),
         e.type \in Moves =>
           \A c \in Nat : IsCurrent(now, Len(now), c) => \E b \in held : BackIn(now, b, c)
  PROVE  HeldBy(now, held)
<1>1. Len(now) = Len(L) + 1 /\ Len(L) \in Nat
  OBVIOUS
<1> SUFFICES ASSUME NEW k \in 0..Len(now), NEW c \in Nat,
                    NoRestoreAfter(now, k), IsCurrent(now, k, c)
             PROVE  \E b \in held : BackIn(now, b, c)
  BY DEF HeldBy
<1>2. CASE k \in 0..Len(L)
  <2>1. k \in Nat /\ k <= Len(L)
    BY <1>2
  <2>2. NoRestoreAfter(L, k) /\ e.type \notin RestoreTypes
    BY <2>1, RestoresGrow
  <2>3. IsCurrent(L, k, c)
    BY <1>2, FirstStay
  <2> QED
    BY <1>2, <2>2, <2>3
<1>3. CASE k = Len(now) /\ e.type \notin Moves
  <2>1. e.type \notin RestoreTypes /\ e.type # "checkpoint.created"
    BY <1>3 DEF Moves, RestoreTypes
  <2>2. IsCurrent(L, Len(L), c)
    BY <1>3, <2>1, HeadNext
  <2>3. NoRestoreAfter(L, Len(L)) /\ Len(L) \in 0..Len(L)
    BY <1>1 DEF NoRestoreAfter
  <2> QED
    BY <2>1, <2>2, <2>3
<1>4. CASE k = Len(now) /\ e.type \in Moves
  BY <1>4
<1> QED
  BY <1>1, <1>2, <1>3, <1>4

\* An event that moves nothing.
LEMMA HeldStill ==
  ASSUME NEW L \in Seq(Events), NEW e \in Events, e.type \notin Moves, NEW held, HeldBy(L, held)
  PROVE  HeldBy(Append(L, e), held) /\ WorksIn(Append(L, e), Len(Append(L, e))) = WorksIn(L, Len(L))
<1> DEFINE now == Append(L, e)
<1>1. ASSUME NEW k \in 0..Len(L), NEW c \in Nat, NoRestoreAfter(L, k), IsCurrent(L, k, c)
      PROVE  \E b \in held : BackIn(now, b, c)
  <2>1. PICK b \in held : BackIn(L, b, c)
    BY <1>1 DEF HeldBy
  <2> QED
    BY <2>1, BackStays
<1>2. e.type \notin RestoreTypes
  BY DEF Moves, RestoreTypes
<1>3. WorksIn(now, Len(now)) = WorksIn(L, Len(L))
  BY <1>2, HeadNext
<1>4. HeldBy(now, held)
  <2> HIDE DEF now
  <2>1. now = Append(L, e)
    BY DEF now
  <2> QED
    BY <1>1, <2>1, HeldNext
<1> QED
  BY <1>3, <1>4

\* A checkpoint that continues what its workspace continued.
LEMMA HeldByCheckpoint ==
  ASSUME NEW L \in Seq(Events), NEW e \in Events, e.type = "checkpoint.created",
         NEW held, HeldBy(L, held)
  PROVE  /\ HeldBy(Append(L, e), (held \ e.from) \cup {CommitOf(Len(L) + 1)})
         /\ WorksIn(Append(L, e), Len(Append(L, e))) = WorksIn(L, Len(L))
<1> DEFINE now == Append(L, e)
           new == CommitOf(Len(L) + 1)
           after == (held \ e.from) \cup {new}
<1>1. /\ Len(L) + 1 \in DOMAIN now /\ now[Len(L) + 1] = e
  OBVIOUS
<1>2. ASSUME NEW k \in 0..Len(L), NEW c \in Nat, NoRestoreAfter(L, k), IsCurrent(L, k, c)
      PROVE  \E b \in after : BackIn(now, b, c)
  <2>1. PICK b \in held : BackIn(L, b, c)
    BY <1>2 DEF HeldBy
  <2>2. BackIn(now, b, c)
    BY <2>1, BackStays
  <2>3. CASE b \in e.from
    <3> HIDE DEF now
    <3>1. BackIn(now, new, c)
      BY <1>1, <2>2, <2>3, BackBy
    <3> QED
      BY <3>1
  <2>4. CASE b \notin e.from
    BY <2>1, <2>2, <2>4
  <2> QED
    BY <2>3, <2>4
<1>3. \A c : BackIn(now, c, c)
  BY DEF BackIn
<1>4. \A c : IsCurrent(now, Len(now), c) => c = new
  BY HeadNext
<1>5. "checkpoint.created" \notin RestoreTypes
  BY DEF RestoreTypes
<1>6. WorksIn(now, Len(now)) = WorksIn(L, Len(L))
  BY <1>5, HeadNext
<1>7. HeldBy(now, after)
  <2>1. \A c \in Nat : IsCurrent(now, Len(now), c) => \E b \in after : BackIn(now, b, c)
    BY <1>3, <1>4
  <2>2. now = Append(L, e)
    OBVIOUS
  <2> HIDE DEF now, after
  <2> QED
    BY <1>2, <2>1, <2>2, HeldNext
<1> QED
  BY <1>6, <1>7

\* A restore, whose worktree is its commit.
LEMMA HeldByRestore ==
  ASSUME NEW L \in Seq(Events), NEW e \in Events, e.type \in RestoreTypes
  PROVE  /\ HeldBy(Append(L, e), {e.commit})
         /\ WorksIn(Append(L, e), Len(Append(L, e))) = "execution"
<1> DEFINE now == Append(L, e)
<1>1. e.type # "checkpoint.created" /\ e.type \in Moves
  BY DEF RestoreTypes, Moves
<1>2. \A c : IsCurrent(now, Len(now), c) => c = e.commit
  BY <1>1, HeadNext
<1>3. \A c : BackIn(now, c, c)
  BY DEF BackIn
<1>4. WorksIn(now, Len(now)) = "execution"
  BY HeadNext
<1>5. HeldBy(now, {e.commit})
  <2>1. \A c \in Nat : IsCurrent(now, Len(now), c) => \E b \in {e.commit} : BackIn(now, b, c)
    BY <1>2, <1>3
  <2>2. now = Append(L, e)
    OBVIOUS
  <2> HIDE DEF now
  <2> QED
    BY <2>1, <2>2, HeldNext
<1> QED
  BY <1>4, <1>5

\* A checkpoint whose files go back to its parent.
LEMMA ContinuedNext ==
  ASSUME NEW L \in Seq(Events), NEW e \in Events, Continued(L),
         e.type = "checkpoint.created" => \E b \in e.from : BackIn(L, b, e.commit)
  PROVE  Continued(Append(L, e))
<1> DEFINE now == Append(L, e)
<1>1. /\ DOMAIN now = 1..(Len(L) + 1) /\ DOMAIN L = 1..Len(L) /\ Len(L) \in Nat
      /\ \A i \in DOMAIN L : now[i] = L[i]
      /\ now[Len(L) + 1] = e
  OBVIOUS
<1>2. \A c, origin : BackIn(L, c, origin) => BackIn(now, c, origin)
  BY BackStays
<1> HIDE DEF now
<1>3. ASSUME NEW seq \in DOMAIN now, now[seq].type = "checkpoint.created"
      PROVE  BackIn(now, CommitOf(seq), now[seq].commit)
  <2>1. CASE seq \in DOMAIN L
    <3>1. BackIn(L, CommitOf(seq), L[seq].commit)
      BY <1>1, <1>3, <2>1 DEF Continued
    <3> QED
      BY <1>1, <1>2, <2>1, <3>1
  <2>2. CASE seq = Len(L) + 1
    <3>1. PICK b \in e.from : BackIn(L, b, e.commit)
      BY <1>1, <1>3, <2>2
    <3> QED
      BY <1>1, <1>2, <1>3, <2>2, <3>1, BackBy
  <2> QED
    BY <1>1, <1>3, <2>1, <2>2
<1> QED
  BY <1>3 DEF Continued, now

LEMMA InitContinue == Init => ContinueInv
<1> SUFFICES ASSUME Init PROVE UncrossedInv
  BY InitView DEF ContinueInv
<1>1. QuietInv /\ ViewInv
  BY InitQuiet, InitView
<1>2. \A p \in Procs : pc[p] \in {0, 1}
  BY DEF Init
<1>3. \A p \in Procs : ~CheckedOut(p)
  BY <1>2 DEF CheckedOut
<1>4. RestoresAlone
  <2>1. \A kind : ~Crosses("none", kind) /\ ~Crosses(kind, "none")
    BY DEF Crosses, Restores
  <2> QED
    BY <1>1, <2>1 DEF RestoresAlone, QuietInv, OneAtATime, Idle
<1>5. \A i \in DOMAIN log : log[i].type \notin RestoreTypes
  <2>1. CASE log = <<>>
    BY <2>1
  <2>2. CASE log = <<Created, FirstCheckpoint>>
    <3>1. Created.type = "run.created" /\ FirstCheckpoint.type = "checkpoint.created"
      BY DEF Created, FirstCheckpoint, Event
    <3> QED
      BY <2>2, <3>1 DEF RestoreTypes
  <2> QED
    BY <2>1, <2>2 DEF Init
<1>6. NoRestoreAfter(log, shown) /\ RestoresSeen
  BY <1>2, <1>5 DEF NoRestoreAfter, RestoresSeen
<1>7. Continued(log)
  <2>1. \A seq \in DOMAIN log : log[seq].type = "checkpoint.created" => log[seq].commit \in log[seq].from
    BY <1>1 DEF QuietInv, CheckpointsCompose, CheckpointSeqs
  <2> SUFFICES ASSUME NEW seq \in DOMAIN log, log[seq].type = "checkpoint.created"
               PROVE  BackIn(log, CommitOf(seq), log[seq].commit)
    BY DEF Continued
  <2>2. BackIn(log, log[seq].commit, log[seq].commit)
    BY DEF BackIn
  <2> QED
    BY <2>1, <2>2, BackBy
<1>8. HeadsAreHeld
  <2>1. CASE log = <<>>
    <3>1. base["repo"] = {NoCommit}
      BY <2>1 DEF Init
    <3>2. WorksIn(log, Len(log)) = "repo" /\ \A c : IsCurrent(log, 0, c) => c = NoCommit
      BY <2>1 DEF WorksIn, IsCurrent
    <3>3. 0..Len(log) = {0}
      BY <2>1
    <3>4. BackIn(log, NoCommit, NoCommit)
      BY DEF BackIn
    <3> QED
      BY <3>1, <3>2, <3>3, <3>4 DEF HeadsAreHeld, HeldBy
  <2>2. CASE log = <<Created, FirstCheckpoint>>
    <3>1. base["repo"] = {CommitOf(2)}
      BY <2>2 DEF Init
    <3>2. /\ Created.type = "run.created" /\ FirstCheckpoint.type = "checkpoint.created"
          /\ FirstCheckpoint.from = {NoCommit}
      BY DEF Created, FirstCheckpoint, Event
    <3>3. Len(log) = 2 /\ DOMAIN log = {1, 2} /\ log[1] = Created /\ log[2] = FirstCheckpoint
      BY <2>2
    <3>4. WorksIn(log, 2) = "repo"
      BY <3>2, <3>3 DEF WorksIn, RestoreTypes
    <3>5. \A c : BackIn(log, c, c)
      BY DEF BackIn
    <3>6. BackIn(log, CommitOf(2), NoCommit)
      BY <3>2, <3>3, <3>5, BackBy
    <3>7. \A k \in {0, 1} : \A c : IsCurrent(log, k, c) => c = NoCommit
      BY <3>2, <3>3 DEF IsCurrent, Moves
    <3>8. \A c : IsCurrent(log, 2, c) => c = CommitOf(2)
      <4>1. MovesTo(log, 2) = CommitOf(2)
        BY <3>2, <3>3 DEF MovesTo
      <4>2. 2 \in 1..2 /\ log[2].type \in Moves /\ \A j \in (2 + 1)..2 : FALSE
        BY <3>2, <3>3 DEF Moves
      <4>3. IsCurrent(log, 2, CommitOf(2))
        BY <4>1, <4>2 DEF IsCurrent
      <4> QED
        BY <4>3, OneCurrent
    <3>9. 0..Len(log) = {0, 1, 2}
      BY <3>3
    <3> QED
      BY <3>1, <3>3, <3>4, <3>5, <3>6, <3>7, <3>8, <3>9 DEF HeadsAreHeld, HeldBy
  <2> QED
    BY <2>1, <2>2 DEF Init
<1>9. /\ CheckoutsHold /\ NothingReplaced /\ SnapshotsContinue
  BY <1>1, <1>2 DEF QuietInv, SnapshotsHold, NothingReplaced, SnapshotsContinue
<1> QED
  BY <1>3, <1>4, <1>6, <1>7, <1>8, <1>9 DEF UncrossedInv

\* Nothing crossed before a step that leaves it so, and no restore was cut short.
LEMMA UncrossedBefore ==
  ASSUME ContinueInv, ~crossed', NEW p \in Procs,
         \/ \E kind \in {"record", "checkpoint", "resume", "rollback"}, target \in Commits :
              Call(p, kind, target)
         \/ View(p) \/ Snapshot(p)
         \/ Materialize(p) \/ MaterializeFails(p)
         \/ AppendEvent(p) \/ AppendEventCorrupt(p) \/ AppendSkipped(p) \/ CreateCheckpoint(p)
         \/ RunLocked(p) \/ AppendFails(p) \/ Exit(p)
  PROVE  /\ UncrossedInv
         /\ MaterializeFails(p) \/ RunLocked(p) \/ AppendFails(p) \/ Exit(p)
              => op[p].kind \notin Restores
<1>1. /\ MaterializeFails(p) \/ RunLocked(p) \/ AppendFails(p)
           => ~crossed /\ op[p].kind \notin Restores
      /\ Exit(p) => ~crossed /\ op[p].kind \notin Restores
  <2>1. MaterializeFails(p) \/ RunLocked(p) \/ AppendFails(p) => ~crossed /\ op[p].kind \notin Restores
    BY DEF MaterializeFails, RunLocked, AppendFails, Cut
  <2>2. Exit(p) => ~crossed /\ op[p].kind \notin Restores
    BY DEF Exit, Cut, Idle, Restores
  <2> QED
    BY <2>1, <2>2
<1>2. ~crossed
  BY <1>1 DEF Call, View, Snapshot, Materialize, AppendEvent, AppendEventCorrupt,
              AppendSkipped, CreateCheckpoint
<1> QED
  BY <1>1, <1>2 DEF ContinueInv

\* A process that is not restoring has nothing checked out, and while another
\* one takes a checkpoint none does.
LEMMA NoCheckout ==
  ASSUME RestoresAlone, NEW p \in Procs, op[p].kind \in {"checkpoint"} \cup Restores
  PROVE  /\ \A q \in Procs \ {p} : op[q].kind \notin Restores /\ ~CheckedOut(q)
         /\ op[p].kind \in Restores => \A q \in Procs \ {p} : op[q].kind # "checkpoint"
<1>1. \A q \in Procs \ {p} : ~Crosses(op[p].kind, op[q].kind)
  BY DEF RestoresAlone
<1>2. \A q \in Procs \ {p} : op[q].kind \notin Restores
  BY <1>1 DEF Crosses
<1>3. op[p].kind \in Restores => \A q \in Procs \ {p} : op[q].kind # "checkpoint"
  BY <1>1 DEF Crosses
<1>4. \A q \in Procs \ {p} : ~CheckedOut(q)
  BY <1>2 DEF CheckedOut, Restores
<1> QED
  BY <1>2, <1>3, <1>4

\* Calls that end, or go on, leave what holds of the others.
OthersStay(p) ==
  /\ \A q \in Procs \ {p} : op'[q] = op[q] /\ pc'[q] = pc[q] /\ view'[q] = view[q]
  /\ op'[p].kind = "none" \/ op'[p].kind = op[p].kind

\* What holds of the calls, when those of other processes stay.
LEMMA CallsStay ==
  ASSUME UncrossedInv, NEW p \in Procs, OthersStay(p),
         op'[p].kind = "checkpoint" => ~op'[p].replaced
  PROVE  RestoresAlone' /\ NothingReplaced'
<1>1. \A kind : ~Crosses("none", kind) /\ ~Crosses(kind, "none")
  BY DEF Crosses, Restores
<1>2. \A q \in Procs : op'[q].kind = "none" \/ op'[q].kind = op[q].kind
  BY DEF OthersStay
<1>3. RestoresAlone'
  BY <1>1, <1>2 DEF RestoresAlone, UncrossedInv
<1>4. NothingReplaced'
  BY DEF NothingReplaced, OthersStay, UncrossedInv
<1> QED
  BY <1>3, <1>4

\* What holds of the snapshots of other processes, when the ledger takes at most
\* an event that no restore appends.
LEMMA SnapshotsStay ==
  ASSUME UncrossedInv, ViewInv, NEW p \in Procs, OthersStay(p),
         \/ UNCHANGED log
         \/ \E e \in Events : log' = Append(log, e) /\ e.type \notin RestoreTypes
  PROVE  \A q \in Procs \ {p} :
           /\ op'[q].kind = "checkpoint" /\ pc'[q] >= 2 => NoRestoreAfter(log', view'[q].seq)
           /\ op'[q].kind = "checkpoint" /\ pc'[q] >= 3 =>
                \E b \in op'[q].from : BackIn(log', b, view'[q].current)
<1> TAKE q \in Procs \ {p}
<1>1. op'[q] = op[q] /\ pc'[q] = pc[q] /\ view'[q] = view[q]
  BY DEF OthersStay
<1>2. log \in Seq(Events) /\ view[q].seq \in Nat
  BY DEF ViewInv, Views
<1>3. /\ op[q].kind = "checkpoint" /\ pc[q] >= 2 => NoRestoreAfter(log, view[q].seq)
      /\ op[q].kind = "checkpoint" /\ pc[q] >= 3 =>
           \E b \in op[q].from : BackIn(log, b, view[q].current)
  BY DEF UncrossedInv, RestoresSeen, SnapshotsContinue
<1>4. NoRestoreAfter(log, view[q].seq) => NoRestoreAfter(log', view[q].seq)
  BY <1>2, RestoresGrow
<1>5. \A b, c : BackIn(log, b, c) => BackIn(log', b, c)
  BY <1>2, BackStays
<1> QED
  BY <1>1, <1>3, <1>4, <1>5

LEMMA CallContinues ==
  ASSUME ViewInv, UncrossedInv, ~crossed', NEW p \in Procs,
         NEW kind \in {"record", "checkpoint", "resume", "rollback"}, NEW target \in Commits,
         Call(p, kind, target)
  PROVE  UncrossedInv'
<1>1. /\ op' = [op EXCEPT ![p] = [NoOp EXCEPT !.kind = kind, !.target = target]]
      /\ pc' = [pc EXCEPT ![p] = 1]
      /\ UNCHANGED <<log, shown, base, view>>
      /\ Idle(p) /\ \A q \in Procs \ {p} : ~Crosses(kind, op[q].kind)
  BY DEF Call, store
<1>2. op'[p].kind = kind /\ ~op'[p].replaced /\ pc'[p] = 1
      /\ \A q \in Procs \ {p} : op'[q] = op[q] /\ pc'[q] = pc[q]
  BY <1>1 DEF ViewInv, TreeInv, Shapes, OpShape, NoOp
<1>3. RestoresAlone'
  <2>1. \A a, b : Crosses(a, b) => Crosses(b, a)
    BY DEF Crosses
  <2> QED
    BY <1>1, <1>2, <2>1 DEF RestoresAlone, UncrossedInv
<1>4. ~CheckedOut(p)' /\ ~CheckedOut(p) /\ \A q \in Procs \ {p} : CheckedOut(q)' <=> CheckedOut(q)
  BY <1>1, <1>2 DEF CheckedOut, Idle
<1>5. CheckoutsHold'
  BY <1>1, <1>2, <1>4 DEF CheckoutsHold, UncrossedInv
<1>6. NothingReplaced' /\ RestoresSeen' /\ SnapshotsContinue'
  BY <1>1, <1>2 DEF UncrossedInv, NothingReplaced, RestoresSeen, SnapshotsContinue
<1>7. (\A q \in Procs : ~CheckedOut(q)') => HeadsAreHeld'
  BY <1>1, <1>4 DEF UncrossedInv, HeadsAreHeld
<1>8. NoRestoreAfter(log', shown') /\ Continued(log')
  BY <1>1 DEF UncrossedInv
<1> QED
  BY <1>3, <1>5, <1>6, <1>7, <1>8 DEF UncrossedInv

LEMMA ViewContinues ==
  ASSUME ViewInv, UncrossedInv, NEW p \in Procs, View(p)
  PROVE  UncrossedInv'
<1>1. /\ pc' = [pc EXCEPT ![p] = @ + 1] /\ view' = [view EXCEPT ![p] = Refreshed(@)]
      /\ UNCHANGED <<log, shown, base, op>> /\ At(p, "view")
  BY DEF View, store
<1>2. op[p].kind \in Kinds /\ pc[p] \in Nat /\ pc'[p] = pc[p] + 1
      /\ \A q \in Procs \ {p} : pc'[q] = pc[q] /\ view'[q] = view[q]
  BY <1>1 DEF ViewInv, TreeInv, Shapes, OpShape
<1>3. \/ op[p].kind \in {"startRun", "record", "checkpoint", "rollback"} /\ pc[p] = 1
      \/ op[p].kind \in {"fork", "resume"} /\ pc[p] = 2
  BY <1>1, <1>2, PlanPlaces
<1>4. view'[p].seq = shown
  <2>1. Refreshed(view[p]).seq = shown
    BY RefreshedView DEF ViewInv
  <2>2. view'[p] = Refreshed(view[p])
    BY <1>1 DEF ViewInv
  <2> QED
    BY <2>1, <2>2
<1>5. \A q \in Procs : CheckedOut(q)' <=> CheckedOut(q)
  BY <1>1, <1>2, <1>3 DEF CheckedOut
<1>6. OthersStay(p)
  BY <1>1, <1>2 DEF OthersStay
<1>7. RestoresAlone' /\ NothingReplaced'
  BY <1>1, <1>6, CallsStay DEF UncrossedInv, NothingReplaced
<1>8. RestoresSeen' /\ SnapshotsContinue'
  <2>1. NoRestoreAfter(log', view'[p].seq)
    BY <1>1, <1>4 DEF UncrossedInv
  <2>2. ~(op'[p].kind = "checkpoint" /\ pc'[p] >= 3)
    BY <1>1, <1>2, <1>3
  <2> QED
    BY <1>1, <1>6, <2>1, <2>2, SnapshotsStay DEF RestoresSeen, SnapshotsContinue
<1>9. CheckoutsHold'
  BY <1>1, <1>5 DEF CheckoutsHold, UncrossedInv
<1>10. (\A q \in Procs : ~CheckedOut(q)') => HeadsAreHeld'
  BY <1>1, <1>5 DEF UncrossedInv, HeadsAreHeld
<1>11. NoRestoreAfter(log', shown') /\ Continued(log')
  BY <1>1 DEF UncrossedInv
<1> QED
  BY <1>7, <1>8, <1>9, <1>10, <1>11 DEF UncrossedInv

LEMMA SnapshotContinues ==
  ASSUME ViewInv, UncrossedInv, NEW p \in Procs, Snapshot(p)
  PROVE  UncrossedInv'
<1> DEFINE read == base[view[p].workspace]
           new == [op[p] EXCEPT !.from = read, !.replaced = FALSE]
<1>1. /\ pc' = [pc EXCEPT ![p] = @ + 1] /\ op' = [op EXCEPT ![p] = new]
      /\ UNCHANGED <<log, shown, base, view>> /\ At(p, "snapshot")
  BY DEF Snapshot, store
<1>2. op[p] \in [kind : Kinds, target : Commits, from : {op[p].from}, replaced : BOOLEAN]
      /\ log \in Seq(Events)
  BY DEF ViewInv, TreeInv, Shapes, OpShape
<1>3. new.kind = op[p].kind /\ new.from = read /\ new.replaced = FALSE
  BY <1>2
<1>4. pc[p] \in Nat /\ pc'[p] = pc[p] + 1
      /\ \A q \in Procs \ {p} : pc'[q] = pc[q]
  BY <1>1 DEF ViewInv, TreeInv, Shapes
<1> HIDE DEF new
<1>5. op'[p] = new /\ \A q \in Procs \ {p} : op'[q] = op[q]
  BY <1>1 DEF ViewInv, TreeInv, Shapes, OpShape
<1>6. op[p].kind = "checkpoint" /\ pc[p] = 2
  BY <1>1, <1>2, PlanPlaces
<1>7. OthersStay(p)
  BY <1>1, <1>3, <1>4, <1>5 DEF OthersStay
<1>8. RestoresAlone' /\ NothingReplaced'
  BY <1>3, <1>5, <1>7, CallsStay
<1>9. \A q \in Procs : ~CheckedOut(q)
  <2>1. RestoresAlone
    BY DEF UncrossedInv
  <2>2. ~CheckedOut(p)
    BY <1>6 DEF CheckedOut
  <2> QED
    BY <1>6, <2>1, <2>2, NoCheckout
<1>10. NoRestoreAfter(log, view[p].seq)
  BY <1>4, <1>6 DEF UncrossedInv, RestoresSeen
<1>11. \E b \in read : BackIn(log, b, view[p].current)
  <2>1. /\ view[p].seq \in 0..Len(log) /\ IsCurrent(log, view[p].seq, view[p].current)
        /\ view[p].workspace = WorksIn(log, view[p].seq) /\ view[p].current \in Nat
    BY DEF ViewInv, Views, IsView
  <2>2. read = base[WorksIn(log, Len(log))]
    BY <1>2, <1>10, <2>1, SamePlace
  <2> QED
    BY <1>9, <1>10, <2>1, <2>2 DEF UncrossedInv, HeadsAreHeld, HeldBy
<1> HIDE DEF read
<1>12. RestoresSeen' /\ SnapshotsContinue'
  BY <1>1, <1>3, <1>5, <1>7, <1>10, <1>11, SnapshotsStay DEF RestoresSeen, SnapshotsContinue
<1>13. CheckoutsHold' /\ HeadsAreHeld'
  <2>1. \A q \in Procs : op'[q].kind = op[q].kind
    BY <1>3, <1>5
  <2>2. \A q \in Procs : ~CheckedOut(q)'
    BY <1>4, <1>6, <1>9, <2>1 DEF CheckedOut
  <2> QED
    BY <1>1, <1>9, <2>2 DEF CheckoutsHold, HeadsAreHeld, UncrossedInv
<1>14. NoRestoreAfter(log', shown') /\ Continued(log')
  BY <1>1 DEF UncrossedInv
<1> QED
  BY <1>8, <1>12, <1>13, <1>14 DEF UncrossedInv

LEMMA MaterializeContinues ==
  ASSUME ViewInv, UncrossedInv, NEW p \in Procs, Materialize(p)
  PROVE  UncrossedInv'
<1>1. /\ pc' = [pc EXCEPT ![p] = @ + 1] /\ UNCHANGED <<log, shown, view>>
      /\ At(p, "materialize") /\ Replace(p) /\ base' = [base EXCEPT !["execution"] = {op[p].target}]
  BY DEF Materialize, store
<1>2. /\ op[p].kind \in Kinds /\ pc[p] \in Nat /\ pc'[p] = pc[p] + 1
      /\ \A q \in Procs \ {p} : pc'[q] = pc[q]
  BY <1>1 DEF ViewInv, TreeInv, Shapes, OpShape
<1>3. \/ op[p].kind \in {"fork", "resume"} /\ pc[p] = 1
      \/ op[p].kind = "rollback" /\ pc[p] = 2
  BY <1>1, <1>2, PlanPlaces
<1>4. \A q \in Procs : op'[q].kind = op[q].kind /\ op'[q].target = op[q].target
  <2> TAKE q \in Procs
  <2>1. op[q] \in [kind : Kinds, target : Commits, from : {op[q].from}, replaced : BOOLEAN]
    BY DEF ViewInv, TreeInv, Shapes, OpShape
  <2>2. op'[q] = [op[q] EXCEPT !.replaced = q # p /\ ~Idle(q)]
    BY <1>1 DEF Replace
  <2> QED
    BY <2>1, <2>2
<1>5. op[p].kind \in Restores
  BY <1>3 DEF Restores
<1>6. \A q \in Procs \ {p} : op'[q].kind # "checkpoint" /\ ~CheckedOut(q)'
  <2>1. RestoresAlone
    BY DEF UncrossedInv
  <2> QED
    BY <1>2, <1>4, <1>5, <2>1, NoCheckout DEF CheckedOut
<1>7. op'[p].kind # "checkpoint"
  BY <1>4, <1>5 DEF Restores
<1>8. base'["execution"] = {op[p].target}
  <2>1. base \in [Workspaces -> SUBSET Nat] /\ "execution" \in Workspaces
    BY DEF ViewInv, TreeInv, Shapes, Workspaces
  <2> QED
    BY <1>1, <2>1
<1>9. RestoresAlone'
  BY <1>4 DEF RestoresAlone, UncrossedInv
<1>10. CheckoutsHold'
  BY <1>4, <1>6, <1>8 DEF CheckoutsHold
<1>11. CheckedOut(p)'
  BY <1>2, <1>3, <1>4 DEF CheckedOut
<1>12. NothingReplaced' /\ RestoresSeen' /\ SnapshotsContinue'
  BY <1>6, <1>7 DEF NothingReplaced, RestoresSeen, SnapshotsContinue
<1>13. NoRestoreAfter(log', shown') /\ Continued(log')
  BY <1>1 DEF UncrossedInv
<1> QED
  BY <1>9, <1>10, <1>11, <1>12, <1>13 DEF UncrossedInv

\* The event that a checkpoint appends, and what its workspace continues then.
LEMMA CheckpointDescends ==
  ASSUME ViewInv, UncrossedInv, NEW p \in Procs, At(p, "append"), op[p].kind = "checkpoint"
  PROVE  /\ Final(p) \in Events /\ Final(p).type = "checkpoint.created"
         /\ HeadsAreHeld /\ NoRestoreAfter(log, view[p].seq)
         /\ \E b \in Final(p).from : BackIn(log, b, Final(p).commit)
         /\ Descend(p) => base' = [base EXCEPT ![WorksIn(log, Len(log))] =
                                     (@ \ Final(p).from) \cup {CommitOf(Len(log) + 1)}]
<1>1. op[p].kind \in Kinds /\ pc[p] = 3 /\ log \in Seq(Events)
  BY PlanPlaces DEF ViewInv, Kinds
<1>2. /\ Final(p).type = "checkpoint.created" /\ Final(p).commit = view[p].current
      /\ Final(p).from = op[p].from
  BY DEF Final, Event
<1>3. NoRestoreAfter(log, view[p].seq) /\ \E b \in op[p].from : BackIn(log, b, view[p].current)
  BY <1>1 DEF UncrossedInv, RestoresSeen, SnapshotsContinue
<1>4. view[p].workspace = WorksIn(log, Len(log))
  <2>1. view[p].seq \in 0..Len(log) /\ view[p].workspace = WorksIn(log, view[p].seq)
    BY DEF ViewInv, IsView
  <2> QED
    BY <1>1, <1>3, <2>1, SamePlace
<1>5. Descend(p) => base' = [base EXCEPT ![WorksIn(log, Len(log))] =
                               (@ \ Final(p).from) \cup {CommitOf(Len(log) + 1)}]
  <2>1. ~op[p].replaced
    BY DEF UncrossedInv, NothingReplaced
  <2> QED
    BY <1>2, <1>4, <2>1 DEF Descend
<1>6. HeadsAreHeld
  <2>1. RestoresAlone /\ ~CheckedOut(p)
    BY DEF UncrossedInv, CheckedOut
  <2>2. \A q \in Procs : ~CheckedOut(q)
    BY <2>1, NoCheckout
  <2> QED
    BY <2>2 DEF UncrossedInv
<1> QED
  BY <1>2, <1>3, <1>5, <1>6, AppendsEvents

\* What the call of p leaves of the ledger and the workspaces when it ends.
Leaves(p) ==
  \/ /\ op[p].kind \notin Restores
     /\ UNCHANGED <<log, base>>
  \/ /\ op[p].kind \notin Restores
     /\ \E e \in Events : e.type \notin Moves /\ log' = Append(log, e)
     /\ UNCHANGED base
  \/ /\ op[p].kind = "checkpoint"
     /\ At(p, "append") /\ log' = Append(log, Final(p)) /\ Descend(p)
  \/ /\ op[p].kind \in Restores
     /\ At(p, "append") /\ log' = Append(log, Final(p)) /\ UNCHANGED base
     /\ shown' = Len(log')

\* A call ends, or takes note of a skipped file.
LEMMA LeavesContinue ==
  ASSUME ViewInv, UncrossedInv, NEW p \in Procs, OthersStay(p), Leaves(p),
         shown' \in shown..Len(log'), RestoresAlone', NothingReplaced',
         CheckedOut(p)' => FALSE,
         /\ op'[p].kind = "checkpoint" /\ pc'[p] >= 2 => NoRestoreAfter(log', view'[p].seq)
         /\ op'[p].kind = "checkpoint" /\ pc'[p] >= 3 =>
              op[p].kind = "checkpoint" /\ \E b \in op'[p].from : BackIn(log', b, view'[p].current)
  PROVE  UncrossedInv'
<1>1. log \in Seq(Events) /\ shown \in Nat /\ shown \in 0..Len(log) /\ Len(log) \in Nat
  BY DEF ViewInv
<1>2. \A q \in Procs \ {p} : /\ CheckedOut(q)' <=> CheckedOut(q)
                             /\ op'[q].target = op[q].target
  BY DEF OthersStay, CheckedOut
<1>3. op[p].kind \notin Restores => ~CheckedOut(p)
  BY DEF CheckedOut, Restores
<1>4. "checkpoint.created" \notin RestoreTypes /\ \A e : e \in RestoreTypes => e \in Moves
  BY DEF RestoreTypes, Moves
<1>5. \A e \in Events : log' = Append(log, e) /\ e.type \notin RestoreTypes =>
        NoRestoreAfter(log', shown')
  <2> SUFFICES ASSUME NEW e \in Events, log' = Append(log, e), e.type \notin RestoreTypes
               PROVE  NoRestoreAfter(log', shown')
    OBVIOUS
  <2>1. NoRestoreAfter(log', shown)
    BY <1>1, RestoresGrow DEF UncrossedInv
  <2>2. \A i \in DOMAIN log' : i > shown' => i > shown
    BY <1>1
  <2> QED
    BY <2>1, <2>2 DEF NoRestoreAfter
<1>6. CASE op[p].kind \notin Restores /\ UNCHANGED <<log, base>>
  <2>1. RestoresSeen' /\ SnapshotsContinue'
    BY <1>6, SnapshotsStay DEF RestoresSeen, SnapshotsContinue
  <2>2. NoRestoreAfter(log', shown')
    <3>1. \A i \in DOMAIN log : i > shown' => i > shown
      BY <1>1, <1>6
    <3> QED
      BY <1>6, <3>1 DEF NoRestoreAfter, UncrossedInv
  <2>3. CheckoutsHold' /\ ((\A q \in Procs : ~CheckedOut(q)') => HeadsAreHeld')
    BY <1>2, <1>3, <1>6 DEF CheckoutsHold, HeadsAreHeld, UncrossedInv
  <2>4. Continued(log')
    BY <1>6 DEF UncrossedInv
  <2> QED
    BY <2>1, <2>2, <2>3, <2>4 DEF UncrossedInv
<1>7. ASSUME op[p].kind \notin Restores, UNCHANGED base,
             NEW e \in Events, e.type \notin Moves, log' = Append(log, e)
      PROVE  UncrossedInv'
  <2>1. e.type \notin RestoreTypes /\ e.type # "checkpoint.created"
    BY <1>4, <1>7 DEF Moves
  <2>2. RestoresSeen' /\ SnapshotsContinue'
    BY <1>7, <2>1, SnapshotsStay DEF RestoresSeen, SnapshotsContinue
  <2>3. NoRestoreAfter(log', shown')
    BY <1>5, <1>7, <2>1
  <2>4. HeadsAreHeld => HeadsAreHeld'
    BY <1>1, <1>7, HeldStill DEF HeadsAreHeld
  <2>5. CheckoutsHold' /\ ((\A q \in Procs : ~CheckedOut(q)') => HeadsAreHeld')
    BY <1>2, <1>3, <1>7, <2>4 DEF CheckoutsHold, UncrossedInv
  <2>6. Continued(log')
    BY <1>1, <1>7, <2>1, ContinuedNext DEF UncrossedInv
  <2> QED
    BY <2>2, <2>3, <2>5, <2>6 DEF UncrossedInv
<1>8. CASE op[p].kind = "checkpoint" /\ At(p, "append") /\ log' = Append(log, Final(p)) /\ Descend(p)
  <2>1. /\ Final(p) \in Events /\ Final(p).type = "checkpoint.created"
        /\ HeadsAreHeld /\ \E b \in Final(p).from : BackIn(log, b, Final(p).commit)
        /\ base' = [base EXCEPT ![WorksIn(log, Len(log))] =
                      (@ \ Final(p).from) \cup {CommitOf(Len(log) + 1)}]
    BY <1>8, CheckpointDescends
  <2>2. RestoresSeen' /\ SnapshotsContinue'
    BY <1>4, <1>8, <2>1, SnapshotsStay DEF RestoresSeen, SnapshotsContinue
  <2>3. NoRestoreAfter(log', shown')
    BY <1>4, <1>5, <1>8, <2>1
  <2>4. \A q \in Procs : ~CheckedOut(q)'
    <3>1. RestoresAlone
      BY DEF UncrossedInv
    <3>2. \A q \in Procs \ {p} : ~CheckedOut(q)
      BY <1>8, <3>1, NoCheckout
    <3> QED
      BY <1>2, <3>2
  <2>5. HeadsAreHeld'
    <3> DEFINE w == WorksIn(log, Len(log))
    <3>1. base'[w] = (base[w] \ Final(p).from) \cup {CommitOf(Len(log) + 1)}
      <4>1. w \in Workspaces /\ base \in [Workspaces -> SUBSET Nat]
        BY DEF WorksIn, Workspaces, ViewInv, TreeInv, Shapes
      <4> HIDE DEF w
      <4> QED
        BY <2>1, <4>1 DEF w
    <3>2. WorksIn(log', Len(log')) = w
          /\ HeldBy(log', (base[w] \ Final(p).from) \cup {CommitOf(Len(log) + 1)})
      BY <1>1, <1>8, <2>1, HeldByCheckpoint DEF HeadsAreHeld
    <3> QED
      BY <3>1, <3>2 DEF HeadsAreHeld
  <2>6. CheckoutsHold'
    BY <2>4 DEF CheckoutsHold
  <2>7. Continued(log')
    BY <1>1, <1>8, <2>1, ContinuedNext DEF UncrossedInv
  <2> QED
    BY <2>2, <2>3, <2>4, <2>5, <2>6, <2>7 DEF UncrossedInv
<1>9. CASE /\ op[p].kind \in Restores /\ At(p, "append") /\ log' = Append(log, Final(p))
           /\ UNCHANGED base /\ shown' = Len(log')
  <2>1. /\ op[p].kind \in Kinds /\ pc[p] = 3 /\ Final(p) \in Events
    <3>1. op[p].kind \in Kinds
      BY DEF ViewInv, TreeInv, Shapes, OpShape
    <3> QED
      BY <1>9, <3>1, PlanPlaces, AppendsEvents DEF Restores
  <2>2. Final(p).type \in RestoreTypes /\ Final(p).commit = op[p].target
    <3>1. CASE op[p].kind = "fork"
      BY <3>1 DEF Final, Event, RestoreTypes
    <3>2. CASE op[p].kind \in {"resume", "rollback"}
      BY <3>2 DEF Final, Event, RestoreTypes
    <3> QED
      BY <1>9, <3>1, <3>2 DEF Restores
  <2>3. base'["execution"] = {Final(p).commit}
    <3>1. CheckedOut(p)
      BY <1>9, <2>1 DEF CheckedOut, Restores
    <3> QED
      BY <1>9, <2>2, <3>1 DEF UncrossedInv, CheckoutsHold
  <2>4. \A q \in Procs \ {p} : op'[q].kind # "checkpoint" /\ ~CheckedOut(q)'
    <3>1. RestoresAlone
      BY DEF UncrossedInv
    <3> QED
      BY <1>2, <1>9, <3>1, NoCheckout DEF OthersStay
  <2>5. op'[p].kind # "checkpoint"
    BY <1>9 DEF OthersStay, Restores
  <2>6. RestoresSeen' /\ SnapshotsContinue' /\ CheckoutsHold'
    BY <2>4, <2>5 DEF RestoresSeen, SnapshotsContinue, CheckoutsHold
  <2>7. NoRestoreAfter(log', shown')
    <3>1. Len(log') \in Nat
      BY <1>1, <1>9, <2>1
    <3> QED
      BY <1>1, <1>9, <2>1, <3>1, RestoresGrow
  <2>8. HeadsAreHeld'
    <3>1. WorksIn(log', Len(log')) = "execution" /\ HeldBy(log', {Final(p).commit})
      BY <1>1, <1>9, <2>1, <2>2, HeldByRestore
    <3> QED
      BY <2>3, <3>1 DEF HeadsAreHeld
  <2>9. Continued(log')
    BY <1>1, <1>4, <1>9, <2>1, <2>2, ContinuedNext DEF UncrossedInv
  <2> QED
    BY <2>6, <2>7, <2>8, <2>9 DEF UncrossedInv
<1> QED
  BY <1>6, <1>7, <1>8, <1>9 DEF Leaves

\* A call ends.
LEMMA EndsContinue ==
  ASSUME ViewInv, UncrossedInv, NEW p \in Procs, op' = [op EXCEPT ![p] = NoOp],
         pc' = [pc EXCEPT ![p] = 0], \A q \in Procs \ {p} : view'[q] = view[q],
         Leaves(p), shown' \in shown..Len(log')
  PROVE  UncrossedInv'
<1>1. op'[p] = NoOp /\ \A q \in Procs \ {p} : op'[q] = op[q] /\ pc'[q] = pc[q]
  BY DEF ViewInv, TreeInv, Shapes, OpShape
<1>2. op'[p].kind = "none"
  BY <1>1 DEF NoOp
<1>3. OthersStay(p)
  BY <1>1, <1>2 DEF OthersStay
<1>4. RestoresAlone' /\ NothingReplaced'
  BY <1>2, <1>3, CallsStay
<1>5. ~CheckedOut(p)'
  BY <1>2 DEF CheckedOut
<1> QED
  BY <1>2, <1>3, <1>4, <1>5, LeavesContinue

\* What CutAppend leaves of a call that does not restore.
LEMMA CutLeaves ==
  ASSUME ViewInv, NEW p \in Procs, CutAppend(p), op[p].kind \notin Restores
  PROVE  Leaves(p) /\ shown' \in shown..Len(log')
<1>1. /\ At(p, "append") /\ op[p].kind \in Kinds /\ op[p].kind # "none"
      /\ Final(p) \in Events /\ Skipped \in Events /\ Skipped.type = "observation"
  <2>1. At(p, "append") /\ op[p].kind \in Kinds
    BY DEF CutAppend, ViewInv, TreeInv, Shapes, OpShape
  <2> QED
    BY <2>1, PlanSteps, AppendsEvents
<1>2. op[p].kind # "checkpoint" => Final(p).type \notin Moves /\ (Descend(p) => UNCHANGED base)
  <2>1. op[p].kind = "startRun" => Final(p).type = "run.created"
    BY DEF Final, Created, Event
  <2>2. op[p].kind = "record" => Final(p).type = "observation"
    BY DEF Final, Event
  <2>3. op[p].kind # "checkpoint" => op[p].kind \in {"startRun", "record"}
    BY <1>1 DEF Kinds, Restores
  <2> QED
    BY <2>1, <2>2, <2>3 DEF Moves, Descend
<1>3. Leaves(p)
  <2>1. CASE UNCHANGED <<log, base>>
    BY <2>1 DEF Leaves
  <2>2. CASE log' = Append(log, Final(p)) /\ Descend(p)
    BY <1>1, <1>2, <2>2 DEF Leaves
  <2>3. CASE log' = Append(log, Skipped) /\ UNCHANGED base
    <3>1. Skipped.type \notin Moves
      BY <1>1 DEF Moves
    <3> QED
      BY <1>1, <2>3, <3>1 DEF Leaves
  <2> QED
    BY <2>1, <2>2, <2>3 DEF CutAppend
<1> QED
  BY <1>3, CutAppendViews

\* A call that is no checkpoint appends its event.
LEMMA AppendContinues ==
  ASSUME ViewInv, UncrossedInv, NEW p \in Procs, AppendEvent(p) \/ AppendEventCorrupt(p)
  PROVE  UncrossedInv'
<1>1. /\ At(p, "append") /\ op[p].kind # "checkpoint" /\ Write(p, Final(p)) /\ UNCHANGED base
      /\ op' = [op EXCEPT ![p] = NoOp] /\ pc' = [pc EXCEPT ![p] = 0]
  BY DEF AppendEvent, AppendEventCorrupt, End
<1>2. \A q \in Procs \ {p} : view'[q] = view[q]
  BY DEF AppendEvent, AppendEventCorrupt, ViewInv
<1>3. Final(p) \in Events /\ log' = Append(log, Final(p)) /\ shown' = Len(log')
      /\ shown' \in shown..Len(log')
  BY <1>1, AppendsEvents, WriteViews
<1>4. op[p].kind \in Kinds /\ op[p].kind # "none"
  <2>1. op[p].kind \in Kinds
    BY DEF ViewInv, TreeInv, Shapes, OpShape
  <2> QED
    BY <1>1, <2>1, PlanSteps
<1>5. op[p].kind \notin Restores => Final(p).type \notin Moves
  <2>1. op[p].kind = "startRun" => Final(p).type = "run.created"
    BY DEF Final, Created, Event
  <2>2. op[p].kind = "record" => Final(p).type = "observation"
    BY DEF Final, Event
  <2> QED
    BY <1>1, <1>4, <2>1, <2>2 DEF Kinds, Restores, Moves
<1>6. Leaves(p)
  BY <1>1, <1>3, <1>5 DEF Leaves
<1> QED
  BY <1>1, <1>2, <1>3, <1>6, EndsContinue

LEMMA SkippedContinues ==
  ASSUME ViewInv, UncrossedInv, NEW p \in Procs, AppendSkipped(p)
  PROVE  UncrossedInv'
<1>1. /\ At(p, "append") /\ op[p].kind = "checkpoint" /\ Write(p, Skipped) /\ UNCHANGED base
  BY DEF AppendSkipped
<1>2. /\ Skipped \in Events /\ Skipped.type = "observation" /\ log' = Append(log, Skipped)
      /\ shown' = Len(log') /\ log'[Len(log')] = Skipped /\ shown' \in shown..Len(log')
      /\ log \in Seq(Events)
  BY <1>1, AppendsEvents, WriteViews DEF ViewInv
<1>3. Skipped.type \notin Moves /\ Skipped.type \notin RestoreTypes
      /\ Skipped.type # "checkpoint.created"
  BY <1>2 DEF Moves, RestoreTypes
<1>4. Leaves(p)
  BY <1>1, <1>2, <1>3 DEF Leaves, Restores
<1>5. CASE ~Folds(p)
  <2>1. op' = [op EXCEPT ![p] = NoOp] /\ pc' = [pc EXCEPT ![p] = 0] /\ UNCHANGED view
    BY <1>5 DEF AppendSkipped, End
  <2> QED
    BY <1>2, <1>4, <2>1, EndsContinue
<1>6. CASE Folds(p)
  <2>1. /\ view' = [view EXCEPT ![p] = FoldEvent(view[p], Skipped)]
        /\ UNCHANGED <<pc, op>>
    BY <1>2, <1>6 DEF AppendSkipped
  <2>2. /\ view'[p] = FoldEvent(view[p], Skipped)
        /\ \A q \in Procs \ {p} : view'[q] = view[q]
    BY <2>1 DEF ViewInv
  <2>3. view'[p].seq = Len(log') /\ view'[p].current = view[p].current
    <3>1. FoldEvent(view[p], Skipped).seq = Len(log')
      BY <1>1, <1>2, <1>6, FoldAppended
    <3>2. view[p] \in Views
      BY DEF ViewInv
    <3>3. FoldEvent(view[p], Skipped).current = view[p].current
      BY <1>2, <1>3, <3>2, FoldEventType
    <3> QED
      BY <2>2, <3>1, <3>3
  <2>4. OthersStay(p)
    BY <2>1, <2>2 DEF OthersStay
  <2>5. RestoresAlone' /\ NothingReplaced'
    BY <2>1, <2>4, CallsStay DEF UncrossedInv, NothingReplaced
  <2>6. ~CheckedOut(p)'
    BY <1>1, <2>1 DEF CheckedOut
  <2>7. NoRestoreAfter(log', view'[p].seq)
    BY <1>2, <2>3, RestoresGrow
  <2>8. \E b \in op'[p].from : BackIn(log', b, view'[p].current)
    <3>1. pc[p] = 3
      BY <1>1, PlanPlaces DEF Kinds
    <3>2. PICK b \in op[p].from : BackIn(log, b, view[p].current)
      BY <1>1, <3>1 DEF UncrossedInv, SnapshotsContinue
    <3>3. BackIn(log', b, view[p].current)
      BY <1>2, <3>2, BackStays
    <3> QED
      BY <2>1, <2>3, <3>2, <3>3
  <2> QED
    BY <1>1, <1>2, <1>4, <2>4, <2>5, <2>6, <2>7, <2>8, LeavesContinue
<1> QED
  BY <1>5, <1>6

LEMMA CheckpointContinues ==
  ASSUME ViewInv, UncrossedInv, NEW p \in Procs, CreateCheckpoint(p)
  PROVE  UncrossedInv'
<1>1. /\ At(p, "append") /\ op[p].kind = "checkpoint" /\ Write(p, Final(p)) /\ Descend(p)
      /\ op' = [op EXCEPT ![p] = NoOp] /\ pc' = [pc EXCEPT ![p] = 0]
  BY DEF CreateCheckpoint, End
<1>2. \A q \in Procs \ {p} : view'[q] = view[q]
  <2>1. UNCHANGED view \/ \E v : view' = [view EXCEPT ![p] = v]
    <3>1. Folds(p) => view' = [view EXCEPT ![p] = [view[p] EXCEPT !.seq = Len(log'), !.current = CommitOf(Len(log'))]]
      BY DEF CreateCheckpoint, ViewInv
    <3>2. ~Folds(p) => UNCHANGED view
      BY DEF CreateCheckpoint
    <3> QED
      BY <3>1, <3>2
  <2> QED
    BY <2>1 DEF ViewInv
<1>3. log' = Append(log, Final(p)) /\ shown' \in shown..Len(log')
  BY <1>1, AppendsEvents, WriteViews
<1>4. Leaves(p)
  BY <1>1, <1>3 DEF Leaves
<1> QED
  BY <1>1, <1>2, <1>3, <1>4, EndsContinue

\* A call that does not restore is refused, fails or is killed, or a process ends.
LEMMA CutContinues ==
  ASSUME ViewInv, UncrossedInv, NEW p \in Procs, op[p].kind \notin Restores,
         RunLocked(p) \/ AppendFails(p) \/ Exit(p)
  PROVE  UncrossedInv'
<1>1. op' = [op EXCEPT ![p] = NoOp] /\ pc' = [pc EXCEPT ![p] = 0]
  BY DEF RunLocked, AppendFails, Exit, End
<1>2. \A q \in Procs \ {p} : view'[q] = view[q]
  BY DEF RunLocked, AppendFails, Exit, ViewInv
<1>3. CutAppend(p) \/ UNCHANGED <<log, shown, base>>
  BY DEF RunLocked, AppendFails, Exit, store
<1>4. Leaves(p) /\ shown' \in shown..Len(log')
  <2>1. CASE CutAppend(p)
    BY <2>1, CutLeaves
  <2>2. CASE UNCHANGED <<log, shown, base>>
    BY <2>2 DEF Leaves, ViewInv
  <2> QED
    BY <1>3, <2>1, <2>2
<1> QED
  BY <1>1, <1>2, <1>4, EndsContinue

LEMMA NextContinue == ContinueInv /\ [Next]_vars => ContinueInv'
<1> SUFFICES ASSUME ContinueInv, [Next]_vars PROVE ContinueInv'
  OBVIOUS
<1>1. ViewInv /\ ViewInv'
  BY NextView DEF ContinueInv
<1>2. ASSUME ~crossed' PROVE UncrossedInv'
  <2>1. CASE UNCHANGED vars
    <3>1. UncrossedInv
      BY <1>2, <2>1 DEF ContinueInv, vars
    <3> QED
      BY <2>1, <3>1 DEF UncrossedInv, RestoresAlone, CheckoutsHold, CheckedOut, NothingReplaced,
                        RestoresSeen, SnapshotsContinue, HeadsAreHeld, vars, store
  <2>2. CASE Next
    <3>1. PICK p \in Procs :
            \/ \E kind \in {"record", "checkpoint", "resume", "rollback"}, target \in Commits :
                 Call(p, kind, target)
            \/ View(p) \/ Snapshot(p)
            \/ Materialize(p) \/ MaterializeFails(p)
            \/ AppendEvent(p) \/ AppendEventCorrupt(p) \/ AppendSkipped(p) \/ CreateCheckpoint(p)
            \/ RunLocked(p) \/ AppendFails(p) \/ Exit(p)
      BY <2>2 DEF Next
    <3>2. /\ UncrossedInv
          /\ MaterializeFails(p) \/ RunLocked(p) \/ AppendFails(p) \/ Exit(p)
               => op[p].kind \notin Restores
      BY <1>2, <3>1, UncrossedBefore
    <3>3. ~MaterializeFails(p)
      <4>1. op[p].kind \in Kinds
        BY <1>1 DEF ViewInv, TreeInv, Shapes, OpShape
      <4> QED
        BY <3>2, <4>1, PlanPlaces DEF MaterializeFails, Restores
    <3> QED
      BY <1>1, <1>2, <3>1, <3>2, <3>3, CallContinues, ViewContinues, SnapshotContinues,
         MaterializeContinues, AppendContinues, SkippedContinues, CheckpointContinues, CutContinues
  <2> QED
    BY <2>1, <2>2
<1> QED
  BY <1>1, <1>2 DEF ContinueInv

\* The invariant holds in every reachable state.
THEOREM ContinueInvariant == Spec => []ContinueInv
BY InitContinue, NextContinue, PTL DEF Spec

\* However many records and checkpoints overlap, fail or are killed, and however old
\* the views that they decide from, the files of every checkpoint go back to its
\* parent, as long as no restore crosses another call (engine.ts:321-373).
THEOREM ParentsContinue == Spec => []ParentsAreContinued
<1>1. ContinueInv => ParentsAreContinued
  BY DEF ContinueInv, UncrossedInv, ParentsAreContinued, Continued, GoesBackTo, BackIn, Closed,
         CheckpointSeqs
<1> QED
  BY <1>1, ContinueInvariant, PTL

===============================================================================
