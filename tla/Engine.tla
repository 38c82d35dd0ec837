-------------------------------- MODULE Engine --------------------------------
(***************************************************************************)
(* The checkpoint engine of src/engine/engine.ts on one run, in several      *)
(* processes (hooks, commands, SDK programs).  Each process folds the run's   *)
(* ledger into a view, decides from the view, writes the execution worktree   *)
(* and appends events through the store.                                     *)
(*                                                                         *)
(* The store is what RunStore implements, the log of RunLog: a durable log,   *)
(* of which readers see a prefix, one appending process at a time that keeps  *)
(* the run's lock until it fails or exits.  One step per store call and per   *)
(* write of the worktree; a call may fail, and a process may exit, between    *)
(* any two of them.  Within a process #serial runs one call at a time.        *)
(*                                                                         *)
(* A commit is a number: NoCommit, the ForkCommit that a forked run starts    *)
(* at, or CommitOf(seq) of the checkpoint created at seq.  What a workspace   *)
(* holds is abstracted to the commits it continues, several when calls raced. *)
(***************************************************************************)
EXTENDS Naturals, Sequences, FiniteSetsExt, SequencesExt

CONSTANTS Procs,      \* processes with an engine and a backend
          None,       \* no process
          MaxEvents,  \* bound: length of the ledger
          MaxCalls,   \* bound: calls on the run once it exists
          MaxCuts     \* bound: calls that fail or are killed after they began to write

ASSUME EngineAssumption ==
  /\ None \notin Procs
  /\ MaxEvents \in Nat
  /\ MaxEvents >= 2
  /\ MaxCalls \in Nat
  /\ MaxCuts \in Nat \ {0}

VARIABLES log,        \* the durable ledger
          shown,      \* the index holds the first `shown` events
          lock,       \* the process that writes the run, or None
          base,       \* [workspaces -> the commits that its files continue]
          view,       \* [Procs -> the RunView it keeps of the run]
          pc,         \* [Procs -> the step its call is at]
          op,         \* [Procs -> the locals of its call]
          answer,     \* how the call that this step ended was answered
          calls,      \* calls on the run so far
          overlapped, \* two calls have been in progress at a time
          crossed,    \* a restore has crossed another call: see Crosses
          cuts        \* calls that were cut short: see Cut

store == <<log, shown, lock>>
vars == <<store, base, view, pc, op, answer, calls, overlapped, crossed, cuts>>

-----------------------------------------------------------------------------

NoCommit == 0
ForkCommit == 1
CommitOf(seq) == seq + 1
Commits == 0..(MaxEvents + 1)

Workspaces == {"repo", "execution"}

\* A directory that does not exist continues Absent, one whose checkout was cut
\* short nothing.
Absent == {MaxEvents + 2}

\* Of an event: the commit restored or, of a checkpoint, its parent; and of a
\* checkpoint, whether the intents recorded in it take every event before it into
\* account, and the commits that its files continue.
Event(type, commit, current, from) ==
  [type |-> type, commit |-> commit, current |-> current, from |-> from]

\* currentCheckpointId (or forkCommit), workspace, and lineage.
EmptyView == [seq |-> 0, current |-> NoCommit, workspace |-> "repo", lineage |-> {}]

Kinds == {"none", "startRun", "fork", "record", "checkpoint", "resume", "rollback"}

\* Mutant: a checkpoint takes its snapshot before it reads the ledger.
PlanSnapshotFirst(kind) ==
  CASE kind = "none"       -> <<>>
    [] kind = "startRun"   -> <<"view", "append">>
    [] kind = "fork"       -> <<"materialize", "view", "append">>
    [] kind = "record"     -> <<"view", "append">>
    [] kind = "checkpoint" -> <<"snapshot", "view", "append">>
    [] kind = "resume"     -> <<"materialize", "view", "append">>
    [] kind = "rollback"   -> <<"view", "materialize", "append">>

\* Mutant: a rollback appends its event before it restores the worktree.
PlanAppendFirst(kind) ==
  CASE kind = "none"       -> <<>>
    [] kind = "startRun"   -> <<"view", "append">>
    [] kind = "fork"       -> <<"materialize", "view", "append">>
    [] kind = "record"     -> <<"view", "append">>
    [] kind = "checkpoint" -> <<"view", "snapshot", "append">>
    [] kind = "resume"     -> <<"materialize", "view", "append">>
    [] kind = "rollback"   -> <<"view", "append", "materialize">>

\* What an operation does, in order.
Plan(kind) ==
  CASE kind = "none"       -> <<>>
    [] kind = "startRun"   -> <<"view", "append">>
    [] kind = "fork"       -> <<"materialize", "view", "append">>
    [] kind = "record"     -> <<"view", "append">>
    [] kind = "checkpoint" -> <<"view", "snapshot", "append">>
    [] kind = "resume"     -> <<"materialize", "view", "append">>
    [] kind = "rollback"   -> <<"view", "materialize", "append">>

\* Of an operation: what it restores or is asked for, the commits that its
\* snapshot continues, and whether another process replaced the worktree since.
NoOp == [kind |-> "none", target |-> NoCommit, from |-> {}, replaced |-> FALSE]

At(p, step) == pc[p] \in DOMAIN Plan(op[p].kind) /\ Plan(op[p].kind)[pc[p]] = step
Idle(p) == op[p].kind = "none"

\* An operation that replaces the execution worktree crosses another one that
\* reads or replaces it.
Restores == {"fork", "resume", "rollback"}
Crosses(kind, other) ==
  /\ {kind, other} \cap Restores # {}
  /\ {kind, other} \subseteq Restores \cup {"checkpoint"}

-----------------------------------------------------------------------------
(* The view *)

\* Mutant: a restore does not move the run to its execution worktree.
FoldEventInRepo(old, event) ==
  [old EXCEPT
     !.seq = @ + 1,
     !.current = CASE event.type = "checkpoint.created" -> CommitOf(old.seq + 1)
                   [] event.type \in {"agent.restored", "agent.forked"} -> event.commit
                   [] OTHER -> @,
     !.workspace = IF event.type = "agent.forked" THEN "execution" ELSE @,
     !.lineage = IF event.type = "agent.restored" THEN @ \cup {<<old.seq + 1, event.commit>>} ELSE @]

\* #fold: what the next event of the ledger makes of a view.
FoldEvent(old, event) ==
  [old EXCEPT
     !.seq = @ + 1,
     !.current = CASE event.type = "checkpoint.created" -> CommitOf(old.seq + 1)
                   [] event.type \in {"agent.restored", "agent.forked"} -> event.commit
                   [] OTHER -> @,
     !.workspace = IF event.type \in {"agent.restored", "agent.forked"} THEN "execution" ELSE @,
     !.lineage = IF event.type = "agent.restored" THEN @ \cup {<<old.seq + 1, event.commit>>} ELSE @]

\* #view: fold the events of the index that the view does not have yet.
Refreshed(old) == FoldLeft(FoldEvent, old, SubSeq(log, old.seq + 1, shown))

-----------------------------------------------------------------------------
(* Calls *)

Created == Event("run.created", NoCommit, TRUE, {})
FirstCheckpoint == Event("checkpoint.created", NoCommit, TRUE, {NoCommit})

\* A run that already has a checkpoint; or one that a process is starting or
\* forking: it has created the run in the store and is about to append its first
\* event, while others see the run listed and may use it.
Init ==
  /\ \/ /\ log = <<Created, FirstCheckpoint>>
        /\ base = [repo |-> {CommitOf(2)}, execution |-> Absent]
        /\ op = [p \in Procs |-> NoOp]
     \/ /\ log = <<>>
        /\ base = [repo |-> {NoCommit}, execution |-> Absent]
        /\ \E creator \in Procs :
             \/ op = [[p \in Procs |-> NoOp] EXCEPT ![creator].kind = "startRun"]
             \/ op = [[p \in Procs |-> NoOp] EXCEPT ![creator].kind = "fork",
                                                    ![creator].target = ForkCommit]
  /\ pc = [p \in Procs |-> IF Idle(p) THEN 0 ELSE 1]
  /\ shown = Len(log)
  /\ lock = None
  /\ view = [p \in Procs |-> EmptyView]
  /\ answer = "none"
  /\ calls = 0
  /\ overlapped = FALSE
  /\ crossed = FALSE
  /\ cuts = 0

Shown(c) == \E seq \in 1..shown : log[seq].type = "checkpoint.created" /\ c = CommitOf(seq)

\* record, checkpoint, or resume or rollback to a checkpoint that getCheckpoint
\* finds in the index.
Call(p, kind, target) ==
  /\ Idle(p)
  /\ calls < MaxCalls
  /\ calls' = calls + 1
  /\ kind \in {"record", "checkpoint"} => target = NoCommit
  /\ kind \in {"resume", "rollback"} => Shown(target)
  /\ op' = [op EXCEPT ![p] = [NoOp EXCEPT !.kind = kind, !.target = target]]
  /\ pc' = [pc EXCEPT ![p] = 1]
  /\ answer' = "none"
  /\ overlapped' = (overlapped \/ \E q \in Procs \ {p} : ~Idle(q))
  /\ crossed' = (crossed \/ \E q \in Procs \ {p} : Crosses(kind, op[q].kind))
  /\ UNCHANGED <<store, base, view, cuts>>

End(p, outcome) ==
  /\ op' = [op EXCEPT ![p] = NoOp]
  /\ pc' = [pc EXCEPT ![p] = 0]
  /\ answer' = outcome

\* #view, called by every operation before it decides anything.
View(p) ==
  /\ At(p, "view")
  /\ view' = [view EXCEPT ![p] = Refreshed(@)]
  /\ pc' = [pc EXCEPT ![p] = @ + 1]
  /\ answer' = "none"
  /\ UNCHANGED <<store, base, op, calls, overlapped, crossed, cuts>>

\* buildSnapshot reads the workspace that the view names, and copies it.  It would
\* throw ERR_WORKSPACE if that were missing: see ExecutionTreeExists.
Snapshot(p) ==
  /\ At(p, "snapshot")
  /\ base[view[p].workspace] # Absent
  /\ op' = [op EXCEPT ![p].from = base[view[p].workspace], ![p].replaced = FALSE]
  /\ pc' = [pc EXCEPT ![p] = @ + 1]
  /\ answer' = "none"
  /\ UNCHANGED <<store, base, view, calls, overlapped, crossed, cuts>>

\* A snapshot that another process took of the execution worktree, or a commit
\* that it checked out there, is no longer what the worktree holds.
Replace(p) == op' = [q \in Procs |-> [op[q] EXCEPT !.replaced = q # p /\ ~Idle(q)]]

\* materialize: the execution worktree becomes exactly the commit.
Materialize(p) ==
  /\ At(p, "materialize")
  /\ base' = [base EXCEPT !.execution = {op[p].target}]
  /\ Replace(p)
  /\ pc' = [pc EXCEPT ![p] = @ + 1]
  /\ answer' = "none"
  /\ UNCHANGED <<store, view, calls, overlapped, crossed, cuts>>

\* A call is cut short: it failed or was killed, and may have left its worktree
\* without its event or its event without its index rows.  A restore that is cut
\* short crosses every later call.
Cut(p) ==
  /\ cuts < MaxCuts /\ cuts' = cuts + 1
  /\ crossed' = (crossed \/ op[p].kind \in Restores)

\* A checkout that fails, or is killed, may have replaced some of the files.
MaterializeFails(p) ==
  /\ At(p, "materialize")
  /\ base' = [base EXCEPT !.execution = {}]
  /\ op' = [q \in Procs |-> IF q = p THEN NoOp ELSE [op[q] EXCEPT !.replaced = ~Idle(q)]]
  /\ pc' = [pc EXCEPT ![p] = 0]
  /\ answer' = "failed"
  /\ Cut(p)
  /\ UNCHANGED <<store, view, calls, overlapped>>

-----------------------------------------------------------------------------
(* Appending through the store *)

\* #fold accepts only the event after those the view has: the one that p appends now
\* is that.
Folds(p) == Len(log) + 1 = view[p].seq + 1

\* The event that p's operation appends last.
Final(p) ==
  CASE op[p].kind = "startRun"   -> Created
    [] op[p].kind = "fork"       -> Event("agent.forked", op[p].target, TRUE, {})
    [] op[p].kind = "record"     -> Event("observation", NoCommit, TRUE, {})
    [] op[p].kind = "checkpoint" -> Event("checkpoint.created", view[p].current, Folds(p), op[p].from)
    [] op[p].kind \in {"resume", "rollback"} -> Event("agent.restored", op[p].target, TRUE, {})

Skipped == Event("observation", NoCommit, TRUE, {})

CanWrite(p) == lock \in {None, p} /\ Len(log) < MaxEvents

\* The append is durable, indexed and acknowledged; the lock is kept.
Write(p, event) ==
  /\ CanWrite(p)
  /\ log' = Append(log, event)
  /\ shown' = Len(log')
  /\ lock' = p

\* The workspace that was snapshotted continues the new checkpoint, instead of
\* what it continued then, unless it was replaced since.
Descend(p) ==
  base' = IF op[p].kind = "checkpoint" /\ ~(view[p].workspace = "execution" /\ op[p].replaced)
          THEN [base EXCEPT ![view[p].workspace] = (@ \ op[p].from) \cup {CommitOf(Len(log) + 1)}]
          ELSE base

\* The operation's event is appended and folded into the view.
AppendEvent(p) ==
  /\ At(p, "append")
  /\ op[p].kind # "checkpoint"
  /\ Folds(p)
  /\ Write(p, Final(p))
  /\ view' = [view EXCEPT ![p] = FoldEvent(@, Final(p))]
  /\ End(p, "ok")
  /\ UNCHANGED <<base, calls, overlapped, crossed, cuts>>

\* The event is appended, but others came before it that the view lacks:
\* #fold throws ERR_CORRUPT.
AppendEventCorrupt(p) ==
  /\ At(p, "append")
  /\ op[p].kind # "checkpoint"
  /\ ~Folds(p)
  /\ Write(p, Final(p))
  /\ End(p, "ERR_CORRUPT")
  /\ UNCHANGED <<base, view, calls, overlapped, crossed, cuts>>

\* workspace.file_skipped events are appended and folded before the checkpoint.
AppendSkipped(p) ==
  /\ At(p, "append")
  /\ op[p].kind = "checkpoint"
  /\ Write(p, Skipped)
  /\ IF Folds(p)
     THEN /\ view' = [view EXCEPT ![p] = FoldEvent(@, log'[Len(log')])]
          /\ answer' = "none"
          /\ UNCHANGED <<pc, op>>
     ELSE End(p, "ERR_CORRUPT") /\ UNCHANGED view
  /\ UNCHANGED <<base, calls, overlapped, crossed, cuts>>

\* createCheckpoint: the view is advanced only past the very next event.
CreateCheckpoint(p) ==
  /\ At(p, "append")
  /\ op[p].kind = "checkpoint"
  /\ Write(p, Final(p))
  /\ view' = IF Folds(p)
             THEN [view EXCEPT ![p].seq = Len(log'), ![p].current = CommitOf(Len(log'))]
             ELSE view
  /\ Descend(p)
  /\ End(p, "ok")
  /\ UNCHANGED <<calls, overlapped, crossed, cuts>>

\* Another process writes the run.  A refused restore counts as cut short: it
\* has replaced the worktree.
RunLocked(p) ==
  /\ At(p, "append")
  /\ lock \notin {None, p}
  /\ End(p, "ERR_RUN_LOCKED")
  /\ cuts' = IF op[p].kind \in Restores THEN Max({cuts, 1}) ELSE cuts
  /\ crossed' = (crossed \/ op[p].kind \in Restores)
  /\ UNCHANGED <<store, base, view, calls, overlapped>>

\* A call is cut short while it appends: before or after the line is durable,
\* and with or without the roll-forward of what others left unindexed.
CutAppend(p) ==
  /\ At(p, "append")
  /\ CanWrite(p)
  /\ shown' \in {shown, Len(log)}
  /\ \/ UNCHANGED <<log, base>>
     \/ log' = Append(log, Final(p)) /\ Descend(p)
     \/ op[p].kind = "checkpoint" /\ log' = Append(log, Skipped) /\ UNCHANGED base

\* The append fails; the store drops its writer and the lock.
AppendFails(p) ==
  /\ CutAppend(p)
  /\ lock' = None
  /\ End(p, "failed")
  /\ Cut(p)
  /\ UNCHANGED <<view, calls, overlapped>>

\* The process ends, or is killed in the middle of a call.
Exit(p) ==
  /\ CutAppend(p) \/ UNCHANGED <<log, shown, base>>
  /\ lock' = IF lock = p THEN None ELSE lock
  /\ view' = [view EXCEPT ![p] = EmptyView]
  /\ op' = [op EXCEPT ![p] = NoOp]
  /\ pc' = [pc EXCEPT ![p] = 0]
  /\ answer' = "none"
  /\ IF Idle(p) THEN UNCHANGED <<crossed, cuts>> ELSE Cut(p)
  /\ UNCHANGED <<calls, overlapped>>

Next ==
  \E p \in Procs :
    \/ \E kind \in {"record", "checkpoint", "resume", "rollback"}, target \in Commits :
         Call(p, kind, target)
    \/ View(p) \/ Snapshot(p)
    \/ Materialize(p) \/ MaterializeFails(p)
    \/ AppendEvent(p) \/ AppendEventCorrupt(p) \/ AppendSkipped(p) \/ CreateCheckpoint(p)
    \/ RunLocked(p) \/ AppendFails(p) \/ Exit(p)

Spec == Init /\ [][Next]_vars

-----------------------------------------------------------------------------
(* Properties *)

CheckpointSeqs == {seq \in DOMAIN log : log[seq].type = "checkpoint.created"}

\* A commit that files go back to, if they continue commit c: it is in every set
\* that holds c and, with a checkpoint, what its files continue.
GoesBackTo(c, origin) ==
  \A S \in SUBSET Commits :
    (c \in S /\ \A seq \in CheckpointSeqs : CommitOf(seq) \in S => log[seq].from \subseteq S)
      => origin \in S

\* The files of every checkpoint go back to its parent, so that what it changed is
\* what was done since: however many records and checkpoints overlap, fail or are
\* killed, decide from views that others have outdated or find the index behind,
\* as long as no restore crosses another call.
ParentsAreContinued ==
  ~crossed => \A seq \in CheckpointSeqs : GoesBackTo(CommitOf(seq), log[seq].commit)

\* A run whose ledger says that it works in its execution worktree has one.
ExecutionTreeExists ==
  (\E seq \in DOMAIN log : log[seq].type \in {"agent.restored", "agent.forked"})
    => base["execution"] # Absent

\* ERR_CORRUPT is for "Durable records [that] disagree with themselves (a gap in
\* the ledger, a broken hash chain)"; the log never has a gap.
NoFalseCorrupt == answer # "ERR_CORRUPT"

\* Calls of any processes that neither overlap nor are cut short compose: every
\* checkpoint continues its parent and records the intents as of the head, and
\* no call takes the ledger for corrupt.
UndisturbedCallsCompose ==
  (~overlapped /\ cuts = 0) =>
    /\ \A seq \in CheckpointSeqs : log[seq].commit \in log[seq].from /\ log[seq].current
    /\ NoFalseCorrupt
=============================================================================
