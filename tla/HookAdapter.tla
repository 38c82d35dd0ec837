----------------------------- MODULE HookAdapter ------------------------------
(***************************************************************************)
(* The Claude Code adapter of src/adapters/claude-code, on one run: the       *)
(* launcher `ckpt run claude`, which starts the run and closes the store       *)
(* before it spawns claude, and the `ckpt hook` processes that claude spawns,  *)
(* one for each hook, which record what the session does through the engine.  *)
(*                                                                         *)
(* Claude waits for the hooks of a tool call before it goes on with the call, *)
(* but calls run in parallel, so their hook processes compete for the run's   *)
(* lock with each other and with other ckpt processes.  A record is a view of *)
(* the ledger and an append, as in module Engine; either may fail, the append *)
(* before or after its line is durable, and a hook may be killed anywhere.    *)
(*                                                                         *)
(* A wait for the lock is one delayMs.  The status of the workspace is a      *)
(* digest of a small set.                                                     *)
(***************************************************************************)
EXTENDS Naturals, Sequences, FiniteSets

CONSTANTS Tools,          \* tool calls of the session
          WorkspaceTools, \* those of Write, Edit or Bash
          Digests,        \* of the workspace status
          Clean,          \* the one that the session starts with
          None,           \* no tool, no digest, no process
          Launcher,       \* the process of `ckpt run claude`
          Other,          \* a ckpt process outside the session
          MaxWait,        \* maxWaitMs, in delays
          MaxScan,        \* MAX_REQUEST_SCAN
          MaxDisturbances \* bound: writes of Other, failures and kills

ASSUME HookAdapterAssumption ==
  /\ WorkspaceTools \subseteq Tools
  /\ Clean \in Digests
  /\ None \notin Tools \cup Digests
  /\ Cardinality({None, Launcher, Other}) = 3
  /\ MaxWait \in Nat
  /\ MaxScan \in Nat \ {0}
  /\ MaxDisturbances \in Nat

VARIABLES log,        \* the durable ledger
          shown,      \* the index holds the first `shown` events
          lock,       \* the process that writes the run, or None
          session,    \* what the launcher and claude are at
          tool,       \* [Tools -> where the call is]
          tree,       \* the status of the workspace
          pc,         \* [Hooks -> the step its process is at]
          local,      \* [Hooks -> the locals of handleHook]
          notices,    \* hooks that wrote their one line to stderr
          acked,      \* seqs of the events that record() returned
          span,       \* [Tools -> the status before and after a tool of `alone`]
          alone,      \* calls that no other call ran in parallel with
          others,     \* writes of Other so far
          faults      \* failures and kills so far

store == <<log, shown, lock>>
world == <<session, tool, tree, span, alone, others>>
vars == <<store, world, pc, local, notices, acked, faults>>

-----------------------------------------------------------------------------

\* SessionEnd is handled as Stop is.  UserPromptSubmit, and a hook that the adapter
\* does not know, append one event as PostToolUse does for a tool whose status is
\* not read.  These three are left out.
Hooks == [kind : {"SessionStart", "Stop"}, tool : {None}]
         \cup [kind : {"PreToolUse", "PostToolUse"}, tool : Tools]

Hook(kind, t) == [kind |-> kind, tool |-> t]

\* The observation it is about to append, the waits it has slept, the seq its
\* view of the ledger is at, the statuses it read, whether that failed, the
\* primary event it appended and the event it resolved to (0 is null).
NewLocal == [want |-> "adapter.error", waited |-> 0, viewed |-> 0, before |-> None, after |-> None,
             unread |-> FALSE, primary |-> 0, result |-> 0]

Fired(h) == pc[h] # "none"
Ended(h) == pc[h] \in {"returned", "killed"}
Running(h) == Fired(h) /\ ~Ended(h)

NoSpan == [start |-> None, end |-> None]

\* A hook of the call has been spawned, and its PostToolUse has not ended.
Busy(t) == Fired(Hook("PreToolUse", t)) /\ ~Ended(Hook("PostToolUse", t))

Init ==
  /\ log = <<>> /\ shown = 0 /\ lock = None
  /\ session = "install"
  /\ tool = [t \in Tools |-> "asked"]
  /\ tree = Clean
  /\ pc = [h \in Hooks |-> "none"]
  /\ local = [h \in Hooks |-> NewLocal]
  /\ notices = {} /\ acked = {}
  /\ span = [t \in Tools |-> NoSpan]
  /\ alone = Tools
  /\ others = 0 /\ faults = 0

Disturbance == others + faults < MaxDisturbances

Fault == Disturbance /\ faults' = faults + 1

-----------------------------------------------------------------------------
(* run(): the launcher *)

\* openEngine and startRun: run.created is appended under the run's lock.
StartRun ==
  /\ session = "install"
  /\ session' = "started"
  /\ log' = <<[type |-> "run.created", by |-> Launcher, before |-> None, after |-> None]>>
  /\ shown' = 1
  /\ lock' = Launcher
  /\ UNCHANGED <<tool, tree, span, alone, others, pc, local, notices, acked, faults>>

\* Mutant: claude is spawned with the store still open.
SpawnClaudeLocked ==
  /\ session = "started"
  /\ session' = "on"
  /\ UNCHANGED <<store, tool, tree, span, alone, others, pc, local, notices, acked, faults>>

\* The store is closed, which releases the lock, before claude is spawned.
SpawnClaude ==
  /\ session = "started"
  /\ session' = "on"
  /\ lock' = None
  /\ UNCHANGED <<log, shown, tool, tree, span, alone, others, pc, local, notices, acked, faults>>

-----------------------------------------------------------------------------
(* Claude, as the adapter relies on it *)

SessionStart == Hook("SessionStart", None)
Stop == Hook("Stop", None)

\* When a hook fires.  One turn of the session is modelled, which ends with a
\* Stop when no call is busy.
Fires(h) ==
  CASE h = SessionStart       -> TRUE
    [] h = Stop               -> Ended(SessionStart) /\ \A t \in Tools : ~Busy(t)
    [] h.kind = "PreToolUse"  -> Ended(SessionStart) /\ ~Fired(Stop)
    [] h.kind = "PostToolUse" -> tool[h.tool] \in {"ok", "failed"}

\* The event a hook becomes.  PostToolUse with an error response and
\* PostToolUseFailure are alike.
PrimaryType(h) ==
  CASE h.kind = "SessionStart" -> "agent.started"
    [] h.kind = "PreToolUse"   -> "tool.requested"
    [] h.kind = "PostToolUse"  -> IF tool[h.tool] = "ok" THEN "tool.completed" ELSE "tool.failed"
    [] h.kind = "Stop"         -> "agent.suspended"

\* Where handling the parsed payload starts.
FirstStep(h) ==
  CASE h.kind = "SessionStart" -> "head"
    [] h.kind = "PreToolUse" /\ h.tool \in WorkspaceTools -> "status"
    [] OTHER -> "view"

\* Claude spawns `ckpt hook`.  Its payload is parsed, or is not one that the adapter
\* can parse, or the store cannot be opened, which is one line on stderr.
Fire(h) ==
  /\ session = "on"
  /\ ~Fired(h)
  /\ Fires(h)
  /\ \/ /\ pc' = [pc EXCEPT ![h] = FirstStep(h)]
        /\ local' = [local EXCEPT ![h].want = PrimaryType(h)]
        /\ UNCHANGED <<notices, faults>>
     \/ /\ pc' = [pc EXCEPT ![h] = "view"]
        /\ Fault
        /\ UNCHANGED <<local, notices>>
     \/ /\ pc' = [pc EXCEPT ![h] = "returned"]
        /\ notices' = notices \cup {h}
        /\ Fault
        /\ UNCHANGED local
  /\ alone' = IF h.kind = "PreToolUse" /\ \E t \in Tools : Busy(t)
              THEN alone \ ({h.tool} \cup {t \in Tools : Busy(t)})
              ELSE alone
  /\ span' = [t \in Tools |-> IF t \in alone' THEN span[t] ELSE NoSpan]
  /\ UNCHANGED <<store, session, tool, tree, others, acked>>

\* The tool runs once its PreToolUse hook has ended, however that ended.  A call
\* after which the status is not read is taken not to change it.  Claude may
\* also exit or be killed: nothing makes it take a step.
RunTool(t, outcome, digest) ==
  /\ tool[t] = "asked"
  /\ Ended(Hook("PreToolUse", t))
  /\ (t \notin WorkspaceTools \/ outcome = "failed") => digest = tree
  /\ tool' = [tool EXCEPT ![t] = outcome]
  /\ tree' = digest
  /\ span' = IF t \in alone THEN [span EXCEPT ![t] = [start |-> tree, end |-> digest]] ELSE span
  /\ UNCHANGED <<store, session, alone, others, pc, local, notices, acked, faults>>

-----------------------------------------------------------------------------
(* Other processes *)

Entry(type, by) == [type |-> type, by |-> by, before |-> None, after |-> None]

\* Another ckpt process writes the run, and keeps the lock for as long as it likes.
OtherWrites ==
  /\ session = "on"
  /\ lock = None
  /\ Disturbance
  /\ others' = others + 1
  /\ lock' = Other
  /\ log' = Append(log, Entry("other", Other))
  /\ shown' = Len(log')
  /\ UNCHANGED <<session, tool, tree, span, alone, pc, local, notices, acked, faults>>

OtherCloses ==
  /\ lock = Other
  /\ lock' = None
  /\ UNCHANGED <<log, shown, world, pc, local, notices, acked, faults>>

-----------------------------------------------------------------------------
(* handleHook *)

\* The process ends: the store is closed, or its lock is stale and reclaimed.
Released(h) == IF lock = h THEN None ELSE lock

Return(h, seq, found) ==
  /\ pc' = [pc EXCEPT ![h] = "returned"]
  /\ local' = [local EXCEPT ![h] = [NewLocal EXCEPT !.primary = found.primary, !.result = seq]]

\* Go on to append an observation.
Want(h, type, found) ==
  /\ pc' = [pc EXCEPT ![h] = "view"]
  /\ local' = [local EXCEPT ![h] = [found EXCEPT !.want = type, !.viewed = 0]]

\* SessionStart: the first one of the run resolves to run.created.
ReadHead(h) ==
  /\ pc[h] = "head"
  /\ IF shown = 1 /\ log[1].type = "run.created"
     THEN Return(h, 1, local[h]) /\ lock' = Released(h)
     ELSE Want(h, "agent.started", local[h]) /\ UNCHANGED lock
  /\ UNCHANGED <<log, shown, world, notices, acked, faults>>

\* PreToolUse reads the status before the tool runs.
ReadBefore(h) ==
  /\ pc[h] = "status"
  /\ \/ local' = [local EXCEPT ![h].before = tree] /\ UNCHANGED faults
     \/ local' = [local EXCEPT ![h].unread = TRUE] /\ Fault
  /\ pc' = [pc EXCEPT ![h] = "view"]
  /\ UNCHANGED <<store, world, notices, acked>>

ReadsAfter(h) == h.kind = "PostToolUse" /\ h.tool \in WorkspaceTools /\ local[h].want = "tool.completed"

\* PostToolUse reads the status while tool.completed is appended, or after that.
ReadAfter(h) ==
  /\ Running(h)
  /\ ReadsAfter(h)
  /\ local[h].after = None /\ ~local[h].unread
  /\ \/ local' = [local EXCEPT ![h].after = tree] /\ UNCHANGED faults
     \/ local' = [local EXCEPT ![h].unread = TRUE] /\ Fault
  /\ UNCHANGED <<store, world, pc, notices, acked>>

\* Both are done: an unreadable status is recorded as an error.
Awaited(h) ==
  /\ pc[h] = "await"
  /\ \/ local[h].unread /\ Want(h, "adapter.error", local[h])
     \/ local[h].after # None /\ pc' = [pc EXCEPT ![h] = "scan"] /\ UNCHANGED local
  /\ UNCHANGED <<store, world, notices, acked, faults>>

\* Mutant: the latest tool.requested is taken, of whatever tool.
RequestsOfAny(h, seqs) == {seq \in seqs : log[seq].type = "tool.requested"}

Requests(h, seqs) ==
  {seq \in seqs : log[seq].type = "tool.requested" /\ log[seq].by.tool = h.tool}

\* The events before `seq` that requestedStatus looks at.
Scanned(seq) == {s \in 1..(seq - 1) : s + MaxScan >= seq}

\* requestedStatus: the status on the latest request of this call.
RequestedStatus(h, seq) ==
  LET found == Requests(h, Scanned(seq))
  IN IF found = {} THEN None ELSE log[CHOOSE s \in found : \A other \in found : other <= s].before

\* A change known against the status before the tool is recorded.
Scan(h) ==
  /\ pc[h] = "scan"
  /\ LET before == RequestedStatus(h, local[h].primary)
     IN IF before # None /\ before # local[h].after
        THEN Want(h, "workspace.changed", [local[h] EXCEPT !.before = before]) /\ UNCHANGED lock
        ELSE Return(h, local[h].primary, local[h]) /\ lock' = Released(h)
  /\ UNCHANGED <<log, shown, world, notices, acked, faults>>

\* The ledger, or the blob of the request, cannot be read.
ReadFails(h) ==
  /\ pc[h] \in {"head", "scan"}
  /\ Want(h, "adapter.error", local[h])
  /\ Fault
  /\ UNCHANGED <<store, world, notices, acked>>

-----------------------------------------------------------------------------
(* append and appendError, through the engine *)

\* An attempt of record() or checkpoint() starts with the engine's view.
View(h) ==
  /\ pc[h] = "view"
  /\ pc' = [pc EXCEPT ![h] = "append"]
  /\ local' = [local EXCEPT ![h].viewed = shown]
  /\ UNCHANGED <<store, world, notices, acked, faults>>

\* What a hook goes on to append after an event, if it does.
Follows(h) ==
  LET type == local[h].want
  IN CASE type = "tool.requested" /\ local[h].unread -> "adapter.error"
       [] type = "agent.suspended" -> "checkpoint.created"
       [] OTHER -> "none"

\* The event at seq is appended and returned; the hook goes on from there.
Proceed(h, seq) ==
  LET type == local[h].want
      appended == IF type = PrimaryType(h) THEN [local[h] EXCEPT !.primary = seq] ELSE local[h]
      resolved == IF appended.primary = 0 THEN seq ELSE appended.primary
  IN IF ReadsAfter(h)
     THEN /\ pc' = [pc EXCEPT ![h] = "await"]
          /\ local' = [local EXCEPT ![h] = [appended EXCEPT !.viewed = 0]]
          /\ lock' = h
     ELSE IF Follows(h) # "none"
     THEN Want(h, Follows(h), appended) /\ lock' = h
     ELSE Return(h, resolved, appended) /\ lock' = None

\* Mutant: an error after the primary event replaces it as the result.
ThrowForgets(h) ==
  IF local[h].want = "adapter.error"
  THEN /\ Return(h, local[h].primary, local[h])
       /\ notices' = notices \cup {h}
  ELSE Want(h, "adapter.error", [local[h] EXCEPT !.primary = 0]) /\ UNCHANGED notices

\* An append throws: adapter.error is appended instead; when that throws too the
\* observation is lost, and one line on stderr says so.
Throw(h) ==
  IF local[h].want = "adapter.error"
  THEN /\ Return(h, local[h].primary, local[h])
       /\ notices' = notices \cup {h}
  ELSE Want(h, "adapter.error", local[h]) /\ UNCHANGED notices

Observation(h) ==
  [type |-> local[h].want, by |-> h,
   before |-> IF local[h].want \in {"tool.requested", "workspace.changed"} THEN local[h].before ELSE None,
   after |-> IF local[h].want = "workspace.changed" THEN local[h].after ELSE None]

\* A view that lacks events before the appended one cannot fold it; a checkpoint
\* is not folded then.
Folds(h) == local[h].viewed = Len(log) \/ local[h].want = "checkpoint.created"

\* record() appends the event and returns it.
AppendEvent(h) ==
  /\ pc[h] = "append"
  /\ lock \in {None, h}
  /\ Folds(h)
  /\ log' = Append(log, Observation(h))
  /\ shown' = Len(log')
  /\ acked' = acked \cup {Len(log')}
  /\ Proceed(h, Len(log'))
  /\ UNCHANGED <<world, notices, faults>>

\* It appends the event, and throws ERR_CORRUPT.
AppendCorrupt(h) ==
  /\ pc[h] = "append"
  /\ lock \in {None, h}
  /\ ~Folds(h)
  /\ log' = Append(log, Observation(h))
  /\ shown' = Len(log')
  /\ Throw(h)
  /\ lock' = IF pc'[h] = "returned" THEN None ELSE h
  /\ UNCHANGED <<world, acked, faults>>

\* The store fails, with the line durable or not; it drops the writer's lock.
AppendFails(h) ==
  /\ pc[h] = "append"
  /\ lock \in {None, h}
  /\ \/ UNCHANGED log
     \/ log' = Append(log, Observation(h))
  /\ shown' \in {shown, Len(log)}
  /\ lock' = None
  /\ Throw(h)
  /\ Fault
  /\ UNCHANGED <<world, acked>>

\* Mutant: the waits of an invocation are not counted.
RetryUncounted(h) ==
  /\ pc[h] = "append"
  /\ lock \notin {None, h}
  /\ pc' = [pc EXCEPT ![h] = "view"]
  /\ UNCHANGED <<store, world, local, notices, acked, faults>>

\* withLockRetry: ERR_RUN_LOCKED, and the invocation can afford another wait.
Retry(h) ==
  /\ pc[h] = "append"
  /\ lock \notin {None, h}
  /\ local[h].waited < MaxWait
  /\ local' = [local EXCEPT ![h].waited = @ + 1, ![h].viewed = 0]
  /\ pc' = [pc EXCEPT ![h] = "view"]
  /\ UNCHANGED <<store, world, notices, acked, faults>>

\* ERR_RUN_LOCKED, and the waits of the invocation are spent.
GiveUp(h) ==
  /\ pc[h] = "append"
  /\ lock \notin {None, h}
  /\ local[h].waited = MaxWait
  /\ Throw(h)
  /\ UNCHANGED <<store, world, acked, faults>>

\* The hook process is killed, perhaps once its line is durable; its lock is stale,
\* and reclaimed.
Kill(h) ==
  /\ Running(h)
  /\ \/ UNCHANGED log
     \/ pc[h] = "append" /\ lock \in {None, h} /\ log' = Append(log, Observation(h))
  /\ pc' = [pc EXCEPT ![h] = "killed"]
  /\ local' = [local EXCEPT ![h] = NewLocal]
  /\ lock' = Released(h)
  /\ Fault
  /\ UNCHANGED <<shown, world, notices, acked>>

HookStep(h) ==
  /\ Running(h)
  /\ \/ ReadHead(h) \/ ReadBefore(h) \/ ReadAfter(h) \/ Awaited(h) \/ Scan(h) \/ ReadFails(h)
     \/ View(h) \/ AppendEvent(h) \/ AppendCorrupt(h) \/ AppendFails(h) \/ Retry(h) \/ GiveUp(h)

Next ==
  \/ StartRun \/ SpawnClaude
  \/ OtherWrites \/ OtherCloses
  \/ \E t \in Tools, outcome \in {"ok", "failed"}, digest \in Digests : RunTool(t, outcome, digest)
  \/ \E h \in Hooks : Fire(h) \/ HookStep(h) \/ Kill(h)

\* While hook processes can take steps, one of them does; nobody else has to, so a
\* process outside the session may keep the lock for ever.
Spec == Init /\ [][Next]_vars /\ WF_vars(\E h \in Hooks : HookStep(h))

-----------------------------------------------------------------------------
(* Properties *)

Intents == INSTANCE ResumeIntent WITH Ids <- Tools

\* What the intents of the ledger are derived from.
Correlated(event) ==
  LET role == CASE event.type = "tool.requested" -> "request"
                [] event.type = "tool.completed" -> "acknowledgement"
                [] event.type = "tool.failed"    -> "failure"
                [] OTHER                         -> "none"
  IN [role |-> role, kind |-> IF role = "none" THEN None ELSE "tool",
      id |-> IF role = "none" THEN None ELSE event.by.tool, payload |-> None, target |-> 0]

PendingIntents ==
  Intents!DerivePendingIntent([seq \in DOMAIN log |-> Correlated(log[seq])], DOMAIN log)

Recorded(h) == {seq \in DOMAIN log : log[seq].by = h}

\* A hook resolves to its primary event, to the adapter.error in its place, or
\* to null with a notice; once record() returned the primary event, a later
\* failure does not change that (handleHook's doc comment, handler.ts:5-16).
ResultIsWhatHappened ==
  \A h \in Hooks : pc[h] = "returned" =>
    LET result == local[h].result
        returned == {seq \in Recorded(h) \cap acked : log[seq].type = PrimaryType(h)}
    IN IF result = 0
       THEN h \in notices /\ returned = {}
       ELSE \/ result \in returned
            \/ h.kind = "SessionStart" /\ log[result].type = "run.created"
            \/ result \in Recorded(h) /\ log[result].type = "adapter.error" /\ returned = {}

\* Tool calls that do not run in parallel, with no other process and no failure, all
\* record what they observed: the launcher and every hook leave the lock free.
UndisturbedRecorded ==
  (alone = Tools /\ others = 0 /\ faults = 0) =>
    /\ notices = {}
    /\ \A h \in Hooks : pc[h] = "returned" =>
         log[local[h].result].type \in {PrimaryType(h), "run.created"}

\* Whatever hooks are lost, refused or killed, the pending intents never claim
\* an outcome that a tool did not have; and an outcome whose hook returned it is
\* theirs, if the request is in the ledger.
IntentsAreTrue ==
  \A intent \in PendingIntents :
    LET t == intent.intent_id
    IN /\ intent.status = "completed" => tool[t] = "ok"
       /\ intent.status = "pending" => tool[t] = "failed"
       /\ local[Hook("PostToolUse", t)].primary # 0 =>
            intent.status = IF tool[t] = "ok" THEN "completed" ELSE "pending"

Changes(t) == {seq \in Recorded(Hook("PostToolUse", t)) : log[seq].type = "workspace.changed"}

\* PostToolUse of a call that ran alone reports a change exactly if the tool
\* made one, with the status before and after it, provided nothing of that
\* invocation failed and its request, with a status, is near enough.
ChangesAreReported ==
  \A t \in WorkspaceTools \cap alone :
    LET post == Hook("PostToolUse", t)
        requests == {seq \in Recorded(Hook("PreToolUse", t)) :
                       log[seq].type = "tool.requested" /\ log[seq].before # None
                       /\ local[post].primary - seq <= MaxScan}
    IN (pc[post] = "returned" /\ local[post].primary # 0 /\ tool[t] = "ok") =>
         /\ \A seq \in Changes(t) :
              /\ log[seq].before = span[t].start /\ log[seq].after = span[t].end
              /\ span[t].start # span[t].end
         /\ (/\ span[t].start # span[t].end /\ requests # {} /\ post \notin notices
             /\ \A seq \in Recorded(post) : log[seq].type # "adapter.error")
              => Changes(t) # {}

\* A reported change is against the status that the request of that call carries.
ChangesMatchRequests ==
  \A t \in Tools : \A seq \in Changes(t) :
    /\ log[seq].before # log[seq].after
    /\ \E request \in 1..(seq - 1) :
         log[request].type = "tool.requested" /\ log[request].by.tool = t
         /\ log[request].before = log[seq].before

\* What the ledger tells of tools and of the workspace is what happened.
ObservationsAreTrue == IntentsAreTrue /\ ChangesAreReported /\ ChangesMatchRequests

\* Hooks never block the agent: from every state on, there comes one in which no
\* hook process is left running, even while another process keeps the run's lock
\* for ever.
HooksEnd == []<>(\A h \in Hooks : ~Running(h))
=============================================================================
