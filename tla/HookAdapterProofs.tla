-------------------------- MODULE HookAdapterProofs --------------------------
(***************************************************************************)
(* Proofs about HookAdapter, for any calls, waits, bounds and statuses of the *)
(* workspace.  HookInv is about the hooks: each resolves to what happened to   *)
(* its event, whatever fails or is killed; calls that do not run in parallel   *)
(* record all they observe; a recorded change is against a status that the     *)
(* request of its call has.  TruthInv is about the ledger: what it tells of a   *)
(* tool is what the tool did, and of a call that ran alone it tells the        *)
(* statuses before and after it.  What follows for the pending intents is      *)
(* shown along the fold that derives them, one event after the other.          *)
(***************************************************************************)
EXTENDS HookAdapter, NaturalsInduction, WellFoundedInduction, TLAPS

EventTypes == {"run.created", "other", "agent.started", "tool.requested", "tool.completed", "tool.failed",
               "agent.suspended", "checkpoint.created", "workspace.changed", "adapter.error"}
Steps == {"none", "head", "status", "view", "append", "await", "scan", "returned", "killed"}
Statuses == Digests \cup {None}
Events == [type : EventTypes, by : Hooks \cup {Launcher, Other}, before : Statuses, after : Statuses]
Locals == [want : EventTypes, waited : Nat, viewed : Nat, before : Statuses, after : Statuses,
           unread : BOOLEAN, primary : Nat, result : Nat]

Pre(t) == Hook("PreToolUse", t)
Post(t) == Hook("PostToolUse", t)

-----------------------------------------------------------------------------
(* The inductive invariant.                                                  *)

\* The types of what the proofs speak of.
TypeOK ==
  /\ log \in Seq(Events)
  /\ shown \in 0..Len(log)
  /\ acked \subseteq 1..Len(log)
  /\ tool \in [Tools -> {"asked", "ok", "failed"}]
  /\ tree \in Digests
  /\ pc \in [Hooks -> Steps]
  /\ local \in [Hooks -> Locals]
  /\ alone \subseteq Tools
  /\ others \in Nat /\ faults \in Nat

\* The order in which a session fires its hooks.
Ordered ==
  /\ session # "on" => \A h \in Hooks : ~Fired(h)
  /\ session = "install" => log = <<>> /\ acked = {}
  /\ \A t \in Tools :
       /\ tool[t] # "asked" => Ended(Pre(t))
       /\ Fired(Post(t)) => tool[t] # "asked"
       /\ Fired(Pre(t)) => Ended(SessionStart)
       /\ Fired(Stop) => ~Busy(t)
  /\ Fired(Stop) => Ended(SessionStart)

\* The primary events of a hook that record() returned.
Acks(h) == {seq \in acked : log[seq].by = h /\ log[seq].type = PrimaryType(h)}

\* A hook knows its primary event exactly if record() returned one, and goes on
\* to a further event only after that.
Primary(h) ==
  /\ pc[h] = "none" => /\ local[h] = NewLocal
                       /\ \A seq \in acked : log[seq].by # h
  /\ pc[h] = "killed" => local[h] = NewLocal
  /\ pc[h] \notin {"none", "killed"} =>
       IF local[h].primary = 0 THEN Acks(h) = {} ELSE local[h].primary \in Acks(h)
  /\ Running(h) =>
       \/ local[h].want \in {PrimaryType(h), "adapter.error"}
       \/ local[h].want \in {"checkpoint.created", "workspace.changed"} /\ local[h].primary # 0
  /\ pc[h] \in {"await", "scan"} => local[h].primary # 0
  /\ pc[h] = "head" => h.kind = "SessionStart"
  /\ pc[h] = "status" => local[h].want = PrimaryType(h)

\* What a hook returned.
Resolved(h) ==
  pc[h] = "returned" =>
    LET result == local[h].result
    IN  IF result = 0 THEN h \in notices /\ Acks(h) = {}
        ELSE /\ result \in 1..Len(log)
             /\ \/ result \in Acks(h)
                \/ h.kind = "SessionStart" /\ log[result].type = "run.created"
                \/ log[result].by = h /\ log[result].type = "adapter.error" /\ Acks(h) = {}

\* Nothing ran in parallel, nobody else wrote, nothing failed.
Undisturbed == alone = Tools /\ others = 0 /\ faults = 0

\* Then one hook runs at a time: its view is of the whole ledger, the lock is
\* free or its own, and it goes on to no error.
Quiet ==
  Undisturbed =>
    /\ notices = {}
    /\ shown = Len(log)
    /\ session = "on" => lock = None \/ \E h \in Hooks : lock = h /\ Running(h)
    /\ \A t, u \in Tools : Busy(t) /\ Busy(u) => t = u
    /\ \A h \in Hooks : Running(h) =>
         /\ ~local[h].unread /\ local[h].want # "adapter.error"
         /\ pc[h] = "append" => local[h].viewed = Len(log)
    /\ \A h \in Hooks : pc[h] = "returned" =>
         /\ local[h].result # 0
         /\ log[local[h].result].type \in {PrimaryType(h), "run.created"}

\* A request of a tool before seq carries this status.
Asked(t, status, seq) ==
  \E s \in 1..(seq - 1) :
    log[s].type = "tool.requested" /\ log[s].by.tool = t /\ log[s].before = status

\* A change that is recorded, or about to be, is against a status that was asked
\* for.
Matching ==
  /\ \A seq \in DOMAIN log : log[seq].type = "workspace.changed" =>
       /\ log[seq].by \in Hooks
       /\ log[seq].before # log[seq].after
       /\ Asked(log[seq].by.tool, log[seq].before, seq)
  /\ \A h \in Hooks : Running(h) /\ local[h].want = "workspace.changed" =>
       /\ local[h].before # local[h].after
       /\ Asked(h.tool, local[h].before, Len(log) + 1)

HookInv == TypeOK /\ Ordered /\ (\A h \in Hooks : Primary(h) /\ Resolved(h)) /\ Quiet /\ Matching

-----------------------------------------------------------------------------
(* Hooks and their events.                                                   *)

\* The hooks of a session.
LEMMA HookKinds ==
  /\ SessionStart \in Hooks /\ Stop \in Hooks /\ SessionStart # Stop
  /\ SessionStart.kind = "SessionStart" /\ Stop.kind = "Stop"
  /\ \A t \in Tools :
       /\ Pre(t) \in Hooks /\ Pre(t).kind = "PreToolUse" /\ Pre(t).tool = t
       /\ Post(t) \in Hooks /\ Post(t).kind = "PostToolUse" /\ Post(t).tool = t
       /\ {Pre(t), Post(t)} \cap {SessionStart, Stop} = {}
       /\ \A u \in Tools : Pre(t) # Post(u) /\ (Pre(t) = Pre(u) => t = u) /\ (Post(t) = Post(u) => t = u)
  /\ \A h \in Hooks :
       \/ h = SessionStart \/ h = Stop
       \/ h.kind = "PreToolUse" /\ h.tool \in Tools /\ h = Pre(h.tool)
       \/ h.kind = "PostToolUse" /\ h.tool \in Tools /\ h = Post(h.tool)
BY DEF Hooks, Hook, SessionStart, Stop, Pre, Post

\* The primary event of a hook, by its kind.
LEMMA PrimaryTypes ==
  /\ PrimaryType(SessionStart) = "agent.started" /\ PrimaryType(Stop) = "agent.suspended"
  /\ \A t \in Tools : /\ PrimaryType(Pre(t)) = "tool.requested"
                      /\ PrimaryType(Post(t)) = IF tool[t] = "ok" THEN "tool.completed" ELSE "tool.failed"
BY HookKinds DEF PrimaryType

\* The type of a primary event is one that no further event has.
LEMMA PrimaryIsNoFurther ==
  ASSUME NEW h \in Hooks
  PROVE  /\ PrimaryType(h) \in EventTypes
         /\ PrimaryType(h) \notin {"adapter.error", "checkpoint.created", "workspace.changed", "other", "run.created"}
         /\ PrimaryType(h) = "agent.suspended" => h = Stop
         /\ PrimaryType(h) = "tool.completed" => h.kind = "PostToolUse" /\ h.tool \in Tools
BY HookKinds, PrimaryTypes DEF EventTypes

\* What a hook appends.
LEMMA ObservationType ==
  ASSUME TypeOK, NEW h \in Hooks
  PROVE  /\ Observation(h) \in Events /\ Observation(h).type = local[h].want /\ Observation(h).by = h
         /\ local[h].want = "workspace.changed" =>
              Observation(h).before = local[h].before /\ Observation(h).after = local[h].after
BY DEF TypeOK, Observation, Events, Locals, Statuses

\* The ledger with one more event.
LEMMA Appended ==
  ASSUME TypeOK, NEW e \in Events, log' = Append(log, e)
  PROVE  /\ log' \in Seq(Events) /\ Len(log') = Len(log) + 1 /\ Len(log) \in Nat
         /\ DOMAIN log = 1..Len(log) /\ DOMAIN log' = 1..(Len(log) + 1)
         /\ \A seq \in 1..Len(log) : log'[seq] = log[seq]
         /\ log'[Len(log) + 1] = e
BY DEF TypeOK

\* In calls that are not disturbed one hook runs at a time.
LEMMA OneAtATime ==
  ASSUME Ordered, \A t, u \in Tools : Busy(t) /\ Busy(u) => t = u,
         NEW g \in Hooks, NEW h \in Hooks, Running(g), Running(h)
  PROVE  g = h
<1>1. \A k \in Hooks : \/ k = SessionStart \/ k = Stop
                       \/ \E t \in Tools : k = Pre(t) \/ k = Post(t)
  BY HookKinds
<1>2. \A t \in Tools : Running(Pre(t)) => Busy(t) /\ Ended(SessionStart)
  BY DEF Ordered, Busy, Running, Fired, Ended, Pre, Post
<1>3. \A t \in Tools : Running(Post(t)) => Busy(t) /\ Ended(SessionStart) /\ Ended(Pre(t))
  BY DEF Ordered, Busy, Running, Fired, Ended, Pre, Post
<1>4. Running(Stop) => Ended(SessionStart) /\ \A t \in Tools : ~Busy(t)
  BY DEF Ordered, Running
<1>5. \A k : Running(k) => ~Ended(k)
  BY DEF Running
<1> QED
  BY <1>1, <1>2, <1>3, <1>4, <1>5

\* A status that was asked for stays so in a longer ledger.
LEMMA AskedStays ==
  ASSUME \A s \in 1..Len(log) : log'[s] = log[s], Len(log) \in Nat,
         NEW t, NEW status, NEW seq \in Nat, seq <= Len(log) + 1, Asked(t, status, seq),
         NEW next \in Nat, seq <= next
  PROVE  Asked(t, status, next)'
<1>1. PICK s \in 1..(seq - 1) : log[s].type = "tool.requested" /\ log[s].by.tool = t /\ log[s].before = status
  BY DEF Asked
<1>2. s \in 1..Len(log) /\ s \in 1..(next - 1)
  BY <1>1
<1>3. log'[s] = log[s]
  BY <1>2
<1> QED
  BY <1>1, <1>2, <1>3 DEF Asked

-----------------------------------------------------------------------------
(* A step of a hook process.                                                 *)

\* One hook goes to step x with locals y; it appends at most what it wanted to.
Moves(h, x, y) ==
  /\ UNCHANGED <<session, tool, tree, alone, others>>
  /\ pc' = [pc EXCEPT ![h] = x] /\ local' = [local EXCEPT ![h] = y]
  /\ \/ log' = log /\ acked' = acked
     \/ log' = Append(log, Observation(h)) /\ acked' \in {acked, acked \cup {Len(log) + 1}}
  /\ shown' \in 0..Len(log')
  /\ notices \subseteq notices' /\ faults' \in {faults, faults + 1}

\* When nothing is disturbed it leaves the lock free or its own and the index whole.
MovesQuietly(h, x, y) ==
  Undisturbed /\ faults' = faults =>
    /\ notices' = notices /\ shown' = Len(log')
    /\ lock' = None \/ (lock' = h /\ x \notin {"returned", "killed"})
    /\ x \notin {"returned", "killed"} =>
         ~y.unread /\ y.want # "adapter.error" /\ (x = "append" => y.viewed = Len(log'))
    /\ x = "returned" => y.result # 0 /\ log'[y.result].type \in {PrimaryType(h), "run.created"}

\* A change that it goes on to append is against a status asked for.
MovesMatching(h, x, y) ==
  x \notin {"returned", "killed"} /\ y.want = "workspace.changed" =>
    y.before # y.after /\ Asked(h.tool, y.before, Len(log) + 1)'

\* What the ledger becomes.
LEMMA LedgerGrows ==
  ASSUME TypeOK, NEW h \in Hooks, NEW x, NEW y, Moves(h, x, y)
  PROVE  /\ Len(log) \in Nat /\ Len(log') \in Nat /\ Len(log) <= Len(log') /\ log' \in Seq(Events)
         /\ DOMAIN log = 1..Len(log) /\ DOMAIN log' = 1..Len(log')
         /\ \A seq \in 1..Len(log) : seq \in 1..Len(log') /\ log'[seq] = log[seq]
         /\ \A seq \in 1..Len(log') : \/ seq \in 1..Len(log)
                                     \/ /\ seq = Len(log) + 1 /\ Len(log') = Len(log) + 1
                                        /\ log'[seq] = Observation(h)
         /\ acked \subseteq 1..Len(log) /\ acked' \subseteq 1..Len(log') /\ acked \subseteq acked'
         /\ \A seq \in acked' \ acked : log'[seq].by = h
<1>1. acked \subseteq 1..Len(log) /\ log \in Seq(Events) /\ Len(log) \in Nat /\ DOMAIN log = 1..Len(log)
  BY DEF TypeOK
<1>2. CASE log' = log /\ acked' = acked
  <2>1. /\ Len(log') = Len(log) /\ Len(log) <= Len(log') /\ log' \in Seq(Events) /\ DOMAIN log' = 1..Len(log')
        /\ \A seq \in 1..Len(log) : log'[seq] = log[seq]
    BY <1>1, <1>2
  <2>2. acked' \subseteq 1..Len(log') /\ acked \subseteq acked' /\ acked' \ acked = {}
    BY <1>1, <1>2
  <2> QED
    BY <1>1, <2>1, <2>2
<1>3. CASE log' = Append(log, Observation(h)) /\ acked' \in {acked, acked \cup {Len(log) + 1}}
  <2>1. Observation(h) \in Events /\ Observation(h).by = h
    BY ObservationType
  <2>2. /\ log' \in Seq(Events) /\ Len(log') = Len(log) + 1
        /\ DOMAIN log' = 1..(Len(log) + 1)
        /\ \A seq \in 1..Len(log) : log'[seq] = log[seq]
        /\ log'[Len(log) + 1] = Observation(h)
    BY <1>3, <2>1, Appended
  <2>3. \A seq \in 1..(Len(log) + 1) : seq \in 1..Len(log) \/ seq = Len(log) + 1
    BY <1>1
  <2>4. \A seq \in 1..Len(log) : seq \in 1..(Len(log) + 1)
    BY <1>1
  <2>5. acked' \subseteq 1..Len(log') /\ acked \subseteq acked'
    BY <1>1, <1>3, <2>2, <2>4
  <2>6. \A seq \in acked' \ acked : log'[seq].by = h
    BY <1>3, <2>1, <2>2
  <2> QED
    BY <1>1, <2>2, <2>3, <2>4, <2>5, <2>6
<1> QED
  BY <1>2, <1>3 DEF Moves

\* What the other hooks are at.
LEMMA OneMoves ==
  ASSUME TypeOK, NEW h \in Hooks, Running(h), NEW x \in Steps \ {"none"}, NEW y \in Locals, Moves(h, x, y)
  PROVE  /\ pc'[h] = x /\ local'[h] = y
         /\ \A g \in Hooks : g # h => pc'[g] = pc[g] /\ local'[g] = local[g]
         /\ \A g \in Hooks : /\ Fired(g)' <=> Fired(g)
                             /\ Ended(g) => Ended(g)'
                             /\ g # h => (Running(g)' <=> Running(g)) /\ (Ended(g)' <=> Ended(g))
                             /\ PrimaryType(g)' = PrimaryType(g)
         /\ \A t \in Tools : Busy(t)' => Busy(t)
<1>1. /\ pc'[h] = x /\ local'[h] = y /\ pc[h] \notin {"none", "returned", "killed"}
      /\ \A g \in Hooks : g # h => pc'[g] = pc[g] /\ local'[g] = local[g]
  BY DEF TypeOK, Running, Fired, Ended, Moves
<1>2. tool' = tool
  BY DEF Moves
<1>3. \A g \in Hooks : /\ Fired(g)' <=> Fired(g)
                       /\ Ended(g) => Ended(g)'
                       /\ g # h => (Running(g)' <=> Running(g)) /\ (Ended(g)' <=> Ended(g))
  BY <1>1 DEF Fired, Ended, Running, Steps
<1>4. \A g \in Hooks : PrimaryType(g)' = PrimaryType(g)
  BY <1>2 DEF PrimaryType, SessionStart, Stop
<1>5. \A t \in Tools : Busy(t)' => Busy(t)
  BY <1>3, HookKinds DEF Busy, Pre, Post
<1> QED
  BY <1>1, <1>3, <1>4, <1>5

\* The types stay.
LEMMA TypesMove ==
  ASSUME TypeOK, NEW h \in Hooks, NEW x \in Steps \ {"none"}, NEW y \in Locals, Moves(h, x, y)
  PROVE  TypeOK'
<1>1. log' \in Seq(Events) /\ acked' \subseteq 1..Len(log')
  BY LedgerGrows
<1>2. pc' \in [Hooks -> Steps] /\ local' \in [Hooks -> Locals]
  BY DEF TypeOK, Moves
<1>3. shown' \in 0..Len(log') /\ faults' \in Nat /\ UNCHANGED <<tool, tree, alone, others>>
  BY DEF TypeOK, Moves
<1> QED
  BY <1>1, <1>2, <1>3 DEF TypeOK

\* The order in which hooks fire stays.
LEMMA OrderMoves ==
  ASSUME TypeOK, Ordered, NEW h \in Hooks, Running(h), NEW x \in Steps \ {"none"}, NEW y \in Locals,
         Moves(h, x, y)
  PROVE  Ordered'
<1>1. SessionStart \in Hooks /\ Stop \in Hooks /\ \A t \in Tools : Pre(t) \in Hooks /\ Post(t) \in Hooks
  BY HookKinds
<1>2. session = "on"
  BY DEF Ordered, Running
<1>3. \A g \in Hooks : (Fired(g)' <=> Fired(g)) /\ (Ended(g) => Ended(g)')
  BY OneMoves
<1>4. \A t \in Tools : Busy(t)' => Busy(t)
  BY OneMoves
<1>5. session' = "on" /\ tool' = tool
  BY <1>2 DEF Moves
<1>6. \A t \in Tools : /\ tool'[t] # "asked" => Ended(Pre(t))'
                       /\ Fired(Post(t))' => tool'[t] # "asked"
                       /\ Fired(Pre(t))' => Ended(SessionStart)'
  BY <1>1, <1>3, <1>5 DEF Ordered
<1>7. Fired(Stop)' => Ended(SessionStart)' /\ \A t \in Tools : ~Busy(t)'
  BY <1>1, <1>3, <1>4 DEF Ordered
<1> QED
  BY <1>5, <1>6, <1>7, Zenon DEF Ordered

\* Nothing changes for another hook.
LEMMA OthersStay ==
  ASSUME TypeOK, NEW h \in Hooks, Running(h), NEW x \in Steps \ {"none"}, NEW y \in Locals,
         Moves(h, x, y), NEW g \in Hooks, g # h, Primary(g), Resolved(g)
  PROVE  Primary(g)' /\ Resolved(g)'
<1>1. /\ \A seq \in 1..Len(log) : seq \in 1..Len(log') /\ log'[seq] = log[seq]
      /\ acked \subseteq 1..Len(log) /\ acked \subseteq acked'
      /\ \A seq \in acked' \ acked : log'[seq].by = h
  BY LedgerGrows
<1>2. /\ pc'[g] = pc[g] /\ local'[g] = local[g] /\ PrimaryType(g)' = PrimaryType(g)
      /\ Running(g)' <=> Running(g)
  BY OneMoves
<1>3. Acks(g)' = Acks(g)
  BY <1>1, <1>2 DEF Acks
<1>4. Primary(g)'
  <2>1. pc[g] = "none" => \A seq \in acked' : log'[seq].by # g
    <3> SUFFICES ASSUME pc[g] = "none", NEW seq \in acked' PROVE log'[seq].by # g
      OBVIOUS
    <3>1. CASE seq \in acked
      BY <1>1, <3>1 DEF Primary
    <3>2. CASE seq \notin acked
      BY <1>1, <3>2
    <3> QED
      BY <3>1, <3>2
  <2> QED
    BY <1>2, <1>3, <2>1 DEF Primary, NewLocal
<1>5. Resolved(g)'
  <2>1. notices \subseteq notices'
    BY DEF Moves
  <2> QED
    BY <1>1, <1>2, <1>3, <2>1 DEF Resolved
<1> QED
  BY <1>4, <1>5

\* If nothing is disturbed, one hook still runs at a time and leaves the store to the next.
LEMMA QuietMoves ==
  ASSUME TypeOK, Ordered, \A g \in Hooks : Resolved(g), Quiet,
         NEW h \in Hooks, Running(h), NEW x \in Steps \ {"none"}, NEW y \in Locals,
         Moves(h, x, y), MovesQuietly(h, x, y)
  PROVE  Quiet'
<1> SUFFICES ASSUME Undisturbed' PROVE Quiet'
  BY DEF Quiet
<1>1. Undisturbed /\ faults' = faults
  BY DEF Undisturbed, TypeOK, Moves
<1>2. /\ notices' = notices /\ shown' = Len(log')
      /\ lock' = None \/ (lock' = h /\ x \notin {"returned", "killed"})
      /\ x \notin {"returned", "killed"} =>
           ~y.unread /\ y.want # "adapter.error" /\ (x = "append" => y.viewed = Len(log'))
      /\ x = "returned" => y.result # 0 /\ log'[y.result].type \in {PrimaryType(h), "run.created"}
  BY <1>1 DEF MovesQuietly
<1>3. /\ pc'[h] = x /\ local'[h] = y
      /\ \A g \in Hooks : g # h => pc'[g] = pc[g] /\ local'[g] = local[g]
      /\ \A g \in Hooks : PrimaryType(g)' = PrimaryType(g) /\ (g # h => (Running(g)' <=> Running(g)))
      /\ \A t \in Tools : Busy(t)' => Busy(t)
  BY OneMoves
<1>4. \A t, u \in Tools : Busy(t) /\ Busy(u) => t = u
  BY <1>1 DEF Quiet
<1>5. \A g \in Hooks : Running(g) => g = h
  BY <1>4, OneAtATime
<1>6. \A t, u \in Tools : Busy(t)' /\ Busy(u)' => t = u
  BY <1>3, <1>4
<1>7. Running(h)' <=> x \notin {"returned", "killed"}
  BY <1>3 DEF Running, Fired, Ended
<1>8. lock' = None \/ \E g \in Hooks : lock' = g /\ Running(g)'
  BY <1>2, <1>7
<1>9. \A g \in Hooks : Running(g)' =>
        /\ ~local'[g].unread /\ local'[g].want # "adapter.error"
        /\ pc'[g] = "append" => local'[g].viewed = Len(log')
  BY <1>2, <1>3, <1>5, <1>7
<1>10. ASSUME NEW g \in Hooks, pc'[g] = "returned"
       PROVE  /\ local'[g].result # 0
              /\ log'[local'[g].result].type \in {PrimaryType(g)', "run.created"}
  <2>1. CASE g = h
    BY <1>2, <1>3, <1>10, <2>1
  <2>2. CASE g # h
    <3>1. pc[g] = "returned" /\ local'[g] = local[g] /\ PrimaryType(g)' = PrimaryType(g)
      BY <1>3, <1>10, <2>2
    <3>2. local[g].result # 0 /\ log[local[g].result].type \in {PrimaryType(g), "run.created"}
      BY <1>1, <3>1 DEF Quiet
    <3>3. local[g].result \in 1..Len(log)
      BY <3>1, <3>2 DEF Resolved
    <3>4. log'[local[g].result] = log[local[g].result]
      BY <3>3, LedgerGrows
    <3> QED
      BY <3>1, <3>2, <3>4
  <2> QED
    BY <2>1, <2>2
<1> QED
  <2>1. \A g \in Hooks : pc'[g] = "returned" =>
          local'[g].result # 0 /\ log'[local'[g].result].type \in {PrimaryType(g)', "run.created"}
    BY <1>10
  <2>2. notices' = {}
    BY <1>1, <1>2 DEF Quiet
  <2> QED
    BY <1>2, <1>6, <1>8, <1>9, <2>1, <2>2, Zenon DEF Quiet

\* Changes still match a status that was asked for.
LEMMA MatchingMoves ==
  ASSUME TypeOK, Matching, NEW h \in Hooks, Running(h), NEW x \in Steps \ {"none"}, NEW y \in Locals,
         Moves(h, x, y), MovesMatching(h, x, y)
  PROVE  Matching'
<1>1. /\ Len(log) \in Nat /\ Len(log') \in Nat /\ Len(log) <= Len(log')
      /\ DOMAIN log = 1..Len(log) /\ DOMAIN log' = 1..Len(log')
      /\ \A seq \in 1..Len(log) : log'[seq] = log[seq]
      /\ \A seq \in 1..Len(log') : \/ seq \in 1..Len(log)
                                  \/ /\ seq = Len(log) + 1 /\ Len(log') = Len(log) + 1
                                     /\ log'[seq] = Observation(h)
  BY LedgerGrows
<1>0. Len(log) \in Nat /\ \A s \in 1..Len(log) : log'[s] = log[s]
  BY <1>1
<1>2. ASSUME NEW seq \in DOMAIN log', log'[seq].type = "workspace.changed"
      PROVE  /\ log'[seq].by \in Hooks
             /\ log'[seq].before # log'[seq].after
             /\ Asked(log[seq].by.tool, log[seq].before, seq)'
  <2>1. CASE seq \in 1..Len(log)
    <3>1. /\ log'[seq] = log[seq] /\ log[seq].by \in Hooks /\ log[seq].before # log[seq].after
          /\ Asked(log[seq].by.tool, log[seq].before, seq)
      BY <1>1, <1>2, <2>1 DEF Matching
    <3>2. PICK asker, status : asker = log[seq].by.tool /\ status = log[seq].before
      OBVIOUS
    <3>3. seq \in Nat /\ seq <= Len(log) + 1
      BY <1>0, <2>1
    <3>4. Asked(asker, status, seq)
      BY <3>1, <3>2
    <3>5. Asked(asker, status, seq)'
      BY <1>0, <3>3, <3>4, AskedStays
    <3> QED
      BY <3>1, <3>2, <3>5 DEF Asked
  <2>2. CASE seq = Len(log) + 1 /\ Len(log') = Len(log) + 1 /\ log'[seq] = Observation(h)
    <3>1. local[h].want = "workspace.changed"
      BY <1>2, <2>2, ObservationType
    <3>2. local[h].before # local[h].after /\ Asked(h.tool, local[h].before, Len(log) + 1)
      BY <3>1 DEF Matching
    <3>3. log'[seq].by = h /\ log'[seq].before = local[h].before /\ log'[seq].after = local[h].after
      BY <2>2, <3>1, ObservationType
    <3>4. PICK status : status = local[h].before
      OBVIOUS
    <3>5. seq \in Nat /\ seq <= Len(log) + 1 /\ Asked(h.tool, status, seq)
      BY <1>1, <2>2, <3>2, <3>4
    <3>6. Asked(h.tool, status, seq)'
      BY <1>0, <3>5, AskedStays
    <3> QED
      BY <3>2, <3>3, <3>4, <3>6 DEF Asked
  <2> QED
    BY <1>1, <2>1, <2>2
<1>3. ASSUME NEW g \in Hooks, Running(g)', local'[g].want = "workspace.changed"
      PROVE  local'[g].before # local'[g].after /\ Asked(g.tool, local[g].before, Len(log) + 1)'
  <2>1. CASE g = h
    <3>1. pc'[h] = x /\ local'[h] = y
      BY OneMoves
    <3>2. x \notin {"returned", "killed"}
      BY <1>3, <2>1, <3>1 DEF Running, Ended
    <3> QED
      BY <1>3, <2>1, <3>1, <3>2 DEF Asked, MovesMatching
  <2>2. CASE g # h
    <3>1. Running(g) /\ local'[g] = local[g]
      BY <1>3, <2>2, OneMoves
    <3>2. local[g].before # local[g].after /\ Asked(g.tool, local[g].before, Len(log) + 1)
      BY <1>3, <3>1 DEF Matching
    <3>3. PICK status : status = local[g].before
      OBVIOUS
    <3>4. PICK next : next = Len(log') + 1
      OBVIOUS
    <3>5. Len(log) + 1 \in Nat /\ next \in Nat /\ Len(log) + 1 <= next
      <4>1. Len(log) \in Nat /\ Len(log') \in Nat /\ Len(log) <= Len(log')
        BY <1>1
      <4> QED
        BY <3>4, <4>1
    <3>6. PICK seq : seq = Len(log) + 1
      OBVIOUS
    <3>7. seq \in Nat /\ seq <= Len(log) + 1 /\ seq <= next /\ Asked(g.tool, status, seq)
      BY <3>2, <3>3, <3>5, <3>6
    <3>8. Asked(g.tool, status, next)'
      BY <1>0, <3>5, <3>7, AskedStays
    <3> QED
      BY <3>1, <3>2, <3>3, <3>4, <3>8 DEF Asked
  <2> QED
    BY <2>1, <2>2
<1> QED
  BY <1>2, <1>3 DEF Matching

\* A step of one hook keeps the invariant if it does for that hook.
LEMMA HookMoves ==
  ASSUME HookInv, NEW h \in Hooks, Running(h), NEW x \in Steps \ {"none"}, NEW y \in Locals,
         Moves(h, x, y), MovesQuietly(h, x, y), MovesMatching(h, x, y),
         Primary(h)', Resolved(h)'
  PROVE  HookInv'
<1>1. TypeOK /\ Ordered /\ Quiet /\ Matching /\ \A g \in Hooks : Primary(g) /\ Resolved(g)
  BY DEF HookInv
<1>2. TypeOK' /\ Ordered' /\ Quiet' /\ Matching'
  BY <1>1, TypesMove, OrderMoves, QuietMoves, MatchingMoves
<1>3. \A g \in Hooks : Primary(g)' /\ Resolved(g)'
  BY <1>1, OthersStay
<1> QED
  BY <1>2, <1>3 DEF HookInv

-----------------------------------------------------------------------------
(* The steps of a hook process, one by one.                                  *)

\* What a hook's events are after its step.
LEMMA AcksMove ==
  ASSUME TypeOK, NEW h \in Hooks, NEW x, NEW y, Moves(h, x, y)
  PROVE  /\ acked' = acked => Acks(h)' = Acks(h)
         /\ log' = Append(log, Observation(h)) /\ acked' = acked \cup {Len(log) + 1} =>
              Acks(h)' = Acks(h) \cup (IF local[h].want = PrimaryType(h) THEN {Len(log) + 1} ELSE {})
         /\ PrimaryType(h)' = PrimaryType(h)
<1>1. /\ \A seq \in 1..Len(log) : log'[seq] = log[seq]
      /\ acked \subseteq 1..Len(log)
  BY LedgerGrows
<1>2. PrimaryType(h)' = PrimaryType(h)
  BY DEF Moves, PrimaryType, SessionStart, Stop
<1>3. acked' = acked => Acks(h)' = Acks(h)
  BY <1>1, <1>2 DEF Acks
<1>4. ASSUME log' = Append(log, Observation(h)), acked' = acked \cup {Len(log) + 1}
      PROVE  Acks(h)' = Acks(h) \cup (IF local[h].want = PrimaryType(h) THEN {Len(log) + 1} ELSE {})
  <2>1. log'[Len(log) + 1].type = local[h].want /\ log'[Len(log) + 1].by = h
    BY <1>4, ObservationType, Appended
  <2>2. PICK last : last = Len(log) + 1
    OBVIOUS
  <2> QED
    BY <1>1, <1>2, <1>4, <2>1, <2>2 DEF Acks
<1> QED
  BY <1>2, <1>3, <1>4

\* A hook that goes on.
LEMMA GoesOn ==
  ASSUME NEW h \in Hooks, NEW x \in Steps \ {"none", "returned", "killed"}, NEW y,
         pc'[h] = x, local'[h] = y,
         IF y.primary = 0 THEN Acks(h)' = {} ELSE y.primary \in Acks(h)',
         \/ y.want \in {PrimaryType(h)', "adapter.error"}
         \/ y.want \in {"checkpoint.created", "workspace.changed"} /\ y.primary # 0,
         x \in {"await", "scan"} => y.primary # 0,
         x = "head" => h.kind = "SessionStart", x = "status" => y.want = PrimaryType(h)'
  PROVE  Primary(h)' /\ Resolved(h)'
BY DEF Primary, Resolved

\* A hook that returned.
LEMMA Returns ==
  ASSUME NEW h \in Hooks, NEW y, pc'[h] = "returned", local'[h] = y,
         IF y.primary = 0 THEN Acks(h)' = {} ELSE y.primary \in Acks(h)',
         IF y.result = 0 THEN h \in notices' /\ Acks(h)' = {}
         ELSE /\ y.result \in 1..Len(log')
              /\ \/ y.result \in Acks(h)'
                 \/ h.kind = "SessionStart" /\ log'[y.result].type = "run.created"
                 \/ log'[y.result].by = h /\ log'[y.result].type = "adapter.error" /\ Acks(h)' = {}
  PROVE  Primary(h)' /\ Resolved(h)'
BY DEF Primary, Resolved, Running, Ended, Fired

\* A hook that was killed.
LEMMA IsKilled ==
  ASSUME NEW h \in Hooks, pc'[h] = "killed", local'[h] = NewLocal
  PROVE  Primary(h)' /\ Resolved(h)'
BY DEF Primary, Resolved, Running, Ended, Fired

\* When nothing is disturbed nobody else has the lock.
LEMMA LockOwn ==
  ASSUME HookInv, NEW h \in Hooks, Running(h), Undisturbed
  PROVE  /\ lock \in {None, h} /\ Released(h) = None /\ shown = Len(log)
         /\ ~local[h].unread /\ local[h].want # "adapter.error"
         /\ pc[h] = "append" => local[h].viewed = Len(log)
<1>1. session = "on" /\ Quiet /\ Ordered
  BY DEF HookInv, Ordered, Running
<1>2. \A g \in Hooks : Running(g) => g = h
  BY <1>1, OneAtATime DEF Quiet
<1> QED
  BY <1>1, <1>2 DEF Quiet, Released

\* What is known of a hook process that runs.
LEMMA RunningHook ==
  ASSUME HookInv, NEW h \in Hooks
  PROVE  /\ TypeOK /\ Primary(h) /\ Len(log) \in Nat /\ shown \in 0..Len(log) /\ local[h] \in Locals
         /\ Acks(h) \subseteq 1..Len(log) /\ faults \in Nat /\ PrimaryType(h) \in EventTypes
         /\ pc[h] \in Steps /\ local[h].before \in Statuses /\ tree \in Statuses
<1>1. TypeOK
  BY DEF HookInv
<1>2. Len(log) \in Nat
  BY <1>1 DEF TypeOK
<1>3. local[h] \in Locals
  BY <1>1 DEF TypeOK
<1> QED
  BY <1>1, <1>2, <1>3, PrimaryIsNoFurther DEF HookInv, TypeOK, Acks, Locals, Statuses

\* A SessionStart hook reads the head of the ledger.
LEMMA ReadHeadStep ==
  ASSUME HookInv, NEW h \in Hooks, ReadHead(h)
  PROVE  HookInv'
<1>1. /\ pc[h] = "head" /\ Running(h)
      /\ log' = log /\ acked' = acked /\ shown' = shown /\ notices' = notices /\ faults' = faults
      /\ UNCHANGED <<session, tool, tree, alone, others>>
  BY DEF ReadHead, world, Running, Fired, Ended
<1>2. /\ TypeOK /\ Primary(h) /\ Len(log) \in Nat /\ shown \in 0..Len(log) /\ local[h] \in Locals
      /\ Acks(h) \subseteq 1..Len(log) /\ h.kind = "SessionStart"
  BY <1>1, RunningHook DEF Primary
<1>3. IF local[h].primary = 0 THEN Acks(h) = {} ELSE local[h].primary \in Acks(h)
  BY <1>1, <1>2 DEF Primary
<1>4. CASE shown = 1 /\ log[1].type = "run.created" /\ Return(h, 1, local[h]) /\ lock' = Released(h)
  <2>1. PICK y : y = [NewLocal EXCEPT !.primary = local[h].primary, !.result = 1]
    OBVIOUS
  <2>2. y \in Locals /\ y.result = 1 /\ y.primary = local[h].primary
    BY <1>2, <2>1 DEF Locals, NewLocal, EventTypes, Statuses
  <2>3. Moves(h, "returned", y)
    BY <1>1, <1>2, <1>4, <2>1 DEF Moves, Return
  <2>4. pc'[h] = "returned" /\ local'[h] = y
    BY <1>1, <1>2, <2>2, <2>3, OneMoves DEF Steps
  <2>5. Acks(h)' = Acks(h)
    BY <1>1, <1>2, <2>3, AcksMove
  <2>6. Primary(h)' /\ Resolved(h)'
    BY <1>1, <1>2, <1>3, <1>4, <2>2, <2>4, <2>5, Returns
  <2>7. MovesQuietly(h, "returned", y)
    BY <1>1, <1>4, <2>2, LockOwn DEF MovesQuietly
  <2>8. MovesMatching(h, "returned", y)
    BY DEF MovesMatching
  <2> QED
    BY <1>1, <2>2, <2>3, <2>6, <2>7, <2>8, HookMoves DEF Steps
<1>5. CASE Want(h, "agent.started", local[h]) /\ UNCHANGED lock
  <2>1. PICK y : y = [local[h] EXCEPT !.want = "agent.started", !.viewed = 0]
    OBVIOUS
  <2>2. y \in Locals /\ y.want = "agent.started" /\ y.primary = local[h].primary /\ y.unread = local[h].unread
    BY <1>2, <2>1 DEF Locals, EventTypes
  <2>3. Moves(h, "view", y)
    BY <1>1, <1>2, <1>5, <2>1 DEF Moves, Want
  <2>4. pc'[h] = "view" /\ local'[h] = y
    BY <1>1, <1>2, <2>2, <2>3, OneMoves DEF Steps
  <2>5. Acks(h)' = Acks(h) /\ PrimaryType(h)' = PrimaryType(h)
    BY <1>1, <1>2, <2>3, AcksMove
  <2>6. PrimaryType(h) = "agent.started"
    BY <1>2, HookKinds, PrimaryTypes
  <2>7. Primary(h)' /\ Resolved(h)'
    BY <1>3, <2>2, <2>4, <2>5, <2>6, GoesOn DEF Steps
  <2>8. MovesQuietly(h, "view", y)
    BY <1>1, <1>5, <2>2, LockOwn DEF MovesQuietly
  <2>9. MovesMatching(h, "view", y)
    BY <2>2 DEF MovesMatching
  <2> QED
    BY <1>1, <2>2, <2>3, <2>7, <2>8, <2>9, HookMoves DEF Steps
<1> QED
  BY <1>1, <1>4, <1>5 DEF ReadHead

\* A hook that appends nothing and goes on.
LEMMA Continues ==
  ASSUME HookInv, NEW h \in Hooks, Running(h), NEW x \in Steps \ {"none", "head", "returned", "killed"},
         NEW y \in Locals, Moves(h, x, y), log' = log, acked' = acked, shown' = shown, notices' = notices,
         y.primary = local[h].primary,
         \/ y.want \in {local[h].want, PrimaryType(h), "adapter.error"}
         \/ y.want \in {"checkpoint.created", "workspace.changed"} /\ y.primary # 0,
         x \in {"await", "scan"} => y.primary # 0, x = "status" => y.want = PrimaryType(h),
         Undisturbed /\ faults' = faults =>
           lock' = lock /\ ~y.unread /\ y.want # "adapter.error" /\ (x = "append" => y.viewed = Len(log)),
         y.want = "workspace.changed" =>
           \/ local[h].want = "workspace.changed" /\ y.before = local[h].before /\ y.after = local[h].after
           \/ y.before # y.after /\ Asked(h.tool, y.before, Len(log) + 1)
  PROVE  HookInv'
<1>1. /\ TypeOK /\ Primary(h) /\ Len(log) \in Nat /\ shown \in 0..Len(log) /\ local[h] \in Locals
      /\ Acks(h) \subseteq 1..Len(log) /\ pc[h] \notin {"none", "killed"}
  BY RunningHook DEF Running, Fired, Ended
<1>2. pc'[h] = x /\ local'[h] = y
  BY <1>1, OneMoves
<1>3. Acks(h)' = Acks(h) /\ PrimaryType(h)' = PrimaryType(h)
  BY <1>1, AcksMove
<1>4. IF y.primary = 0 THEN Acks(h)' = {} ELSE y.primary \in Acks(h)'
  BY <1>1, <1>3 DEF Primary
<1>5. \/ y.want \in {PrimaryType(h)', "adapter.error"}
      \/ y.want \in {"checkpoint.created", "workspace.changed"} /\ y.primary # 0
  BY <1>1, <1>3 DEF Primary
<1>6. Primary(h)' /\ Resolved(h)'
  BY <1>2, <1>3, <1>4, <1>5, GoesOn
<1>7. MovesQuietly(h, x, y)
  <2> SUFFICES ASSUME Undisturbed, faults' = faults
               PROVE  /\ notices' = notices /\ shown' = Len(log')
                      /\ lock' = None \/ (lock' = h /\ x \notin {"returned", "killed"})
                      /\ ~y.unread /\ y.want # "adapter.error" /\ (x = "append" => y.viewed = Len(log'))
    BY DEF MovesQuietly
  <2>1. lock \in {None, h} /\ shown = Len(log)
    BY LockOwn
  <2> QED
    BY <2>1
<1>8. MovesMatching(h, x, y)
  <2> SUFFICES ASSUME y.want = "workspace.changed"
               PROVE  y.before # y.after /\ Asked(h.tool, y.before, Len(log) + 1)'
    BY DEF MovesMatching
  <2>1. local[h].want = "workspace.changed" =>
          local[h].before # local[h].after /\ Asked(h.tool, local[h].before, Len(log) + 1)
    BY DEF HookInv, Matching
  <2>2. y.before # y.after /\ Asked(h.tool, y.before, Len(log) + 1)
    BY <2>1
  <2> QED
    BY <2>2 DEF Asked
<1> QED
  BY <1>6, <1>7, <1>8, HookMoves

\* PreToolUse reads the status.
LEMMA ReadBeforeStep ==
  ASSUME HookInv, NEW h \in Hooks, ReadBefore(h)
  PROVE  HookInv'
<1>1. /\ pc[h] = "status" /\ Running(h) /\ pc' = [pc EXCEPT ![h] = "view"]
      /\ log' = log /\ acked' = acked /\ shown' = shown /\ notices' = notices /\ lock' = lock
      /\ UNCHANGED <<session, tool, tree, alone, others>>
  BY DEF ReadBefore, store, world, Running, Fired, Ended
<1>2. /\ TypeOK /\ Primary(h) /\ shown \in 0..Len(log) /\ local[h] \in Locals /\ tree \in Statuses
      /\ local[h].want = PrimaryType(h) /\ faults \in Nat
  BY <1>1, RunningHook DEF Primary
<1>3. PrimaryType(h) \notin {"adapter.error", "workspace.changed"}
  BY PrimaryIsNoFurther
<1>4. CASE local' = [local EXCEPT ![h].before = tree] /\ faults' = faults
  <2>1. PICK y : y = [local[h] EXCEPT !.before = tree]
    OBVIOUS
  <2>2. y \in Locals /\ y.want = PrimaryType(h) /\ y.primary = local[h].primary /\ y.unread = local[h].unread
    BY <1>2, <2>1 DEF Locals
  <2>3. Moves(h, "view", y)
    BY <1>1, <1>2, <1>4, <2>1 DEF Moves, TypeOK
  <2>4. Undisturbed => ~y.unread
    BY <1>1, <2>2, LockOwn
  <2> QED
    BY <1>1, <1>3, <2>2, <2>3, <2>4, Continues DEF Steps
<1>5. CASE local' = [local EXCEPT ![h].unread = TRUE] /\ Fault
  <2>1. PICK y : y = [local[h] EXCEPT !.unread = TRUE]
    OBVIOUS
  <2>2. y \in Locals /\ y.want = PrimaryType(h) /\ y.primary = local[h].primary
    BY <1>2, <2>1 DEF Locals
  <2>3. faults' = faults + 1
    BY <1>5 DEF Fault
  <2>4. Moves(h, "view", y)
    BY <1>1, <1>2, <1>5, <2>1, <2>3 DEF Moves, TypeOK
  <2> QED
    BY <1>1, <1>2, <1>3, <2>2, <2>3, <2>4, Continues DEF Steps
<1> QED
  BY <1>4, <1>5 DEF ReadBefore

\* PostToolUse reads the status, at whatever step it is.
LEMMA ReadAfterStep ==
  ASSUME HookInv, NEW h \in Hooks, ReadAfter(h)
  PROVE  HookInv'
<1>1. /\ Running(h) /\ local[h].want = "tool.completed" /\ h.kind = "PostToolUse" /\ ~local[h].unread
      /\ log' = log /\ acked' = acked /\ shown' = shown /\ notices' = notices /\ lock' = lock /\ pc' = pc
      /\ UNCHANGED <<session, tool, tree, alone, others>>
  BY DEF ReadAfter, ReadsAfter, store, world
<1>2. /\ TypeOK /\ Primary(h) /\ shown \in 0..Len(log) /\ local[h] \in Locals /\ tree \in Statuses
      /\ pc[h] \in Steps /\ faults \in Nat /\ PrimaryType(h) \in EventTypes
  BY RunningHook
<1>3. PICK x : x = pc[h]
  OBVIOUS
<1>4. x \notin {"none", "returned", "killed"} /\ x \in Steps /\ (x \in {"await", "scan"} => local[h].primary # 0)
  BY <1>1, <1>2, <1>3 DEF Running, Fired, Ended, Primary
<1>5. h # SessionStart /\ PrimaryType(h) # "tool.requested" /\ h.kind # "SessionStart"
  BY <1>1, HookKinds, PrimaryTypes
<1>6. x # "head" /\ (x = "status" => local[h].want = PrimaryType(h))
  BY <1>2, <1>3, <1>5 DEF Primary
<1>7. CASE local' = [local EXCEPT ![h].after = tree] /\ faults' = faults
  <2>1. PICK y : y = [local[h] EXCEPT !.after = tree]
    OBVIOUS
  <2>2. /\ y \in Locals /\ y.want = "tool.completed" /\ y.primary = local[h].primary
        /\ y.unread = local[h].unread /\ y.viewed = local[h].viewed
    BY <1>1, <1>2, <2>1 DEF Locals
  <2>3. Moves(h, x, y)
    BY <1>1, <1>2, <1>3, <1>7, <2>1 DEF Moves, TypeOK
  <2>4. Undisturbed => (x = "append" => y.viewed = Len(log))
    BY <1>1, <1>3, <2>2, LockOwn
  <2> QED
    BY <1>1, <1>4, <1>6, <2>2, <2>3, <2>4, Continues
<1>8. CASE local' = [local EXCEPT ![h].unread = TRUE] /\ Fault
  <2>1. PICK y : y = [local[h] EXCEPT !.unread = TRUE]
    OBVIOUS
  <2>2. y \in Locals /\ y.want = "tool.completed" /\ y.primary = local[h].primary
    BY <1>1, <1>2, <2>1 DEF Locals
  <2>3. faults' = faults + 1
    BY <1>8 DEF Fault
  <2>4. Moves(h, x, y)
    BY <1>1, <1>2, <1>3, <1>8, <2>1, <2>3 DEF Moves, TypeOK
  <2> QED
    BY <1>1, <1>2, <1>4, <1>6, <2>2, <2>3, <2>4, Continues
<1> QED
  BY <1>7, <1>8 DEF ReadAfter

\* PostToolUse goes on once it has read the status.
LEMMA AwaitedStep ==
  ASSUME HookInv, NEW h \in Hooks, Awaited(h)
  PROVE  HookInv'
<1>1. /\ pc[h] = "await" /\ Running(h)
      /\ log' = log /\ acked' = acked /\ shown' = shown /\ notices' = notices /\ lock' = lock /\ faults' = faults
      /\ UNCHANGED <<session, tool, tree, alone, others>>
  BY DEF Awaited, store, world, Running, Fired, Ended
<1>2. TypeOK /\ shown \in 0..Len(log) /\ local[h] \in Locals /\ local[h].primary # 0
  BY <1>1, RunningHook DEF Primary
<1>3. CASE local[h].unread /\ Want(h, "adapter.error", local[h])
  <2>1. PICK y : y = [local[h] EXCEPT !.want = "adapter.error", !.viewed = 0]
    OBVIOUS
  <2>2. y \in Locals /\ y.want = "adapter.error" /\ y.primary = local[h].primary
    BY <1>2, <2>1 DEF Locals, EventTypes
  <2>3. Moves(h, "view", y)
    BY <1>1, <1>2, <1>3, <2>1 DEF Moves, Want
  <2>4. ~Undisturbed
    BY <1>1, <1>3, LockOwn
  <2> QED
    BY <1>1, <2>2, <2>3, <2>4, Continues DEF Steps
<1>4. CASE pc' = [pc EXCEPT ![h] = "scan"] /\ local' = local
  <2>1. PICK y : y = local[h]
    OBVIOUS
  <2>2. Moves(h, "scan", y)
    BY <1>1, <1>2, <1>4, <2>1 DEF Moves, TypeOK
  <2> QED
    BY <1>1, <1>2, <2>1, <2>2, LockOwn, Continues DEF Steps
<1> QED
  BY <1>3, <1>4 DEF Awaited

\* The engine looks at the ledger before it appends.
LEMMA ViewStep ==
  ASSUME HookInv, NEW h \in Hooks, View(h)
  PROVE  HookInv'
<1>1. /\ pc[h] = "view" /\ Running(h)
      /\ pc' = [pc EXCEPT ![h] = "append"] /\ local' = [local EXCEPT ![h].viewed = shown]
      /\ log' = log /\ acked' = acked /\ shown' = shown /\ notices' = notices /\ lock' = lock /\ faults' = faults
      /\ UNCHANGED <<session, tool, tree, alone, others>>
  BY DEF View, store, world, Running, Fired, Ended
<1>2. TypeOK /\ shown \in 0..Len(log) /\ local[h] \in Locals /\ shown \in Nat
  BY RunningHook
<1>3. PICK y : y = [local[h] EXCEPT !.viewed = shown]
  OBVIOUS
<1>4. /\ y \in Locals /\ y.want = local[h].want /\ y.primary = local[h].primary /\ y.viewed = shown
      /\ y.unread = local[h].unread /\ y.before = local[h].before /\ y.after = local[h].after
  BY <1>2, <1>3 DEF Locals
<1>5. Moves(h, "append", y)
  BY <1>1, <1>2, <1>3 DEF Moves
<1> QED
  BY <1>1, <1>4, <1>5, LockOwn, Continues DEF Steps

\* A hook that waited for the lock looks again.
LEMMA RetryStep ==
  ASSUME HookInv, NEW h \in Hooks, Retry(h)
  PROVE  HookInv'
<1>1. /\ pc[h] = "append" /\ Running(h) /\ lock \notin {None, h}
      /\ pc' = [pc EXCEPT ![h] = "view"]
      /\ local' = [local EXCEPT ![h].waited = @ + 1, ![h].viewed = 0]
      /\ log' = log /\ acked' = acked /\ shown' = shown /\ notices' = notices /\ lock' = lock /\ faults' = faults
      /\ UNCHANGED <<session, tool, tree, alone, others>>
  BY DEF Retry, store, world, Running, Fired, Ended
<1>2. TypeOK /\ shown \in 0..Len(log) /\ local[h] \in Locals
  BY RunningHook
<1>3. PICK y : y = [local[h] EXCEPT !.waited = local[h].waited + 1, !.viewed = 0]
  OBVIOUS
<1>4. /\ y \in Locals /\ y.want = local[h].want /\ y.primary = local[h].primary
      /\ y.before = local[h].before /\ y.after = local[h].after
  <2>1. local[h].waited \in Nat /\ 0 \in Nat
    BY <1>2 DEF Locals
  <2>2. PICK w \in Nat : w = local[h].waited + 1
    BY <2>1
  <2> QED
    BY <1>2, <1>3, <2>2 DEF Locals
<1>5. Moves(h, "view", y)
  BY <1>1, <1>2, <1>3 DEF Moves, TypeOK
<1>6. ~Undisturbed
  BY <1>1, LockOwn
<1> QED
  BY <1>1, <1>4, <1>5, <1>6, Continues DEF Steps

\* A status or the ledger could not be read.
LEMMA ReadFailsStep ==
  ASSUME HookInv, NEW h \in Hooks, ReadFails(h)
  PROVE  HookInv'
<1>1. /\ pc[h] \in {"head", "scan"} /\ Running(h) /\ Want(h, "adapter.error", local[h])
      /\ log' = log /\ acked' = acked /\ shown' = shown /\ notices' = notices /\ lock' = lock
      /\ faults' = faults + 1
      /\ UNCHANGED <<session, tool, tree, alone, others>>
  BY DEF ReadFails, store, world, Running, Fired, Ended, Fault
<1>2. TypeOK /\ shown \in 0..Len(log) /\ local[h] \in Locals /\ faults \in Nat
  BY RunningHook
<1>3. PICK y : y = [local[h] EXCEPT !.want = "adapter.error", !.viewed = 0]
  OBVIOUS
<1>4. y \in Locals /\ y.want = "adapter.error" /\ y.primary = local[h].primary
  BY <1>2, <1>3 DEF Locals, EventTypes
<1>5. Moves(h, "view", y)
  BY <1>1, <1>2, <1>3 DEF Moves, Want
<1> QED
  BY <1>1, <1>2, <1>4, <1>5, Continues DEF Steps

\* A set of places in a sequence has a latest one.
LEMMA Latest ==
  ASSUME NEW n \in Nat, NEW places, places \subseteq 1..n, places # {}
  PROVE  \E s \in places : \A other \in places : other <= s
<1> DEFINE FromEnd == {n - s : s \in places}
           R == OpToRel(<, Nat)
<1>0. \A s \in places : s \in Nat /\ n - s \in Nat
  OBVIOUS
<1>1. FromEnd \subseteq Nat /\ FromEnd # {}
  BY <1>0
<1>2. PICK least \in FromEnd : \A d \in FromEnd : ~(<<d, least>> \in R)
  <2>1. IsWellFoundedOn(R, Nat)
    BY NatLessThanWellFounded
  <2> HIDE DEF R, FromEnd
  <2> QED
    BY <1>1, <2>1, WFMin
<1>3. \A d \in FromEnd : ~(d < least)
  BY <1>1, <1>2, Zenon DEF OpToRel
<1>4. PICK s \in places : least = n - s
  OBVIOUS
<1>5. ASSUME NEW other \in places PROVE other <= s
  <2>1. n - other \in FromEnd
    OBVIOUS
  <2>2. ~(n - other < n - s)
    BY <1>3, <1>4, <2>1
  <2>3. s \in Nat /\ other \in Nat
    BY <1>0, <1>4
  <2> HIDE DEF FromEnd
  <2> QED
    BY <2>2, <2>3
<1> QED
  BY <1>5

\* A status that requestedStatus finds is one that was asked for.
LEMMA Requested ==
  ASSUME NEW h, Len(log) \in Nat, NEW seq \in 1..Len(log), RequestedStatus(h, seq) # None
  PROVE  Asked(h.tool, RequestedStatus(h, seq), Len(log) + 1)
<1> DEFINE found == Requests(h, Scanned(seq))
           latest == CHOOSE s \in found : \A other \in found : other <= s
<1>1. found # {} /\ RequestedStatus(h, seq) = log[latest].before
  BY DEF RequestedStatus
<1>2. found \subseteq 1..Len(log)
  BY DEF Requests, Scanned
<1>3. \E s \in found : \A other \in found : other <= s
  <2> HIDE DEF found
  <2> QED
    BY <1>1, <1>2, Latest
<1>4. latest \in found
  <2> HIDE DEF found
  <2> QED
    BY <1>3
<1>5. log[latest].type = "tool.requested" /\ log[latest].by.tool = h.tool
  BY <1>4 DEF Requests
<1>6. latest \in 1..((Len(log) + 1) - 1)
  BY <1>2, <1>4
<1> HIDE DEF found, latest
<1> QED
  BY <1>1, <1>5, <1>6 DEF Asked

\* PostToolUse compares the status with the one its request asked about.
LEMMA ScanStep ==
  ASSUME HookInv, NEW h \in Hooks, Scan(h)
  PROVE  HookInv'
<1>1. /\ pc[h] = "scan" /\ Running(h)
      /\ log' = log /\ acked' = acked /\ shown' = shown /\ notices' = notices /\ faults' = faults
      /\ UNCHANGED <<session, tool, tree, alone, others>>
  BY DEF Scan, world, Running, Fired, Ended
<1>2. /\ TypeOK /\ Primary(h) /\ shown \in 0..Len(log) /\ local[h] \in Locals /\ Len(log) \in Nat
      /\ Acks(h) \subseteq 1..Len(log)
  BY RunningHook
<1>3. local[h].primary # 0 /\ local[h].primary \in Acks(h) /\ local[h].primary \in 1..Len(log)
  BY <1>1, <1>2 DEF Primary
<1>4. PICK status : status = RequestedStatus(h, local[h].primary)
  OBVIOUS
<1>5. CASE /\ status # None /\ status # local[h].after
           /\ Want(h, "workspace.changed", [local[h] EXCEPT !.before = status]) /\ UNCHANGED lock
  <2>1. Asked(h.tool, status, Len(log) + 1)
    BY <1>2, <1>3, <1>4, <1>5, Requested
  <2>2. status \in Statuses
    <3>1. PICK s \in 1..((Len(log) + 1) - 1) : log[s].before = status
      BY <2>1 DEF Asked
    <3>2. log[s] \in Events
      BY <1>2, <3>1 DEF TypeOK
    <3> QED
      BY <3>1, <3>2 DEF Events
  <2>3. PICK y : y = [[local[h] EXCEPT !.before = status] EXCEPT !.want = "workspace.changed", !.viewed = 0]
    OBVIOUS
  <2>4. /\ y \in Locals /\ y.want = "workspace.changed" /\ y.primary = local[h].primary
        /\ y.unread = local[h].unread /\ y.before = status /\ y.after = local[h].after
    BY <1>2, <2>2, <2>3 DEF Locals, EventTypes
  <2>5. Moves(h, "view", y)
    BY <1>1, <1>2, <1>5, <2>3 DEF Moves, Want
  <2>6. Undisturbed => lock' = lock /\ ~y.unread /\ y.want # "adapter.error"
    BY <1>1, <1>5, <2>4, LockOwn
  <2>7. y.before # y.after /\ Asked(h.tool, y.before, Len(log) + 1)
    BY <1>5, <2>1, <2>4
  <2> QED
    BY <1>1, <1>3, <2>4, <2>5, <2>6, <2>7, Continues DEF Steps
<1>6. CASE Return(h, local[h].primary, local[h]) /\ lock' = Released(h)
  <2>1. PICK y : y = [NewLocal EXCEPT !.primary = local[h].primary, !.result = local[h].primary]
    OBVIOUS
  <2>2. y \in Locals /\ y.result = local[h].primary /\ y.primary = local[h].primary
    BY <1>2, <2>1 DEF Locals, NewLocal, EventTypes, Statuses
  <2>3. Moves(h, "returned", y)
    BY <1>1, <1>2, <1>6, <2>1 DEF Moves, Return
  <2>4. pc'[h] = "returned" /\ local'[h] = y
    BY <1>1, <1>2, <2>2, <2>3, OneMoves DEF Steps
  <2>5. Acks(h)' = Acks(h)
    BY <1>1, <1>2, <2>3, AcksMove
  <2>6. Primary(h)' /\ Resolved(h)'
    BY <1>1, <1>3, <2>2, <2>4, <2>5, Returns
  <2>7. MovesQuietly(h, "returned", y)
    <3>1. Undisturbed => lock' = None /\ shown' = Len(log')
      BY <1>1, <1>6, LockOwn
    <3>2. y.result # 0 /\ log'[y.result].type = PrimaryType(h)
      BY <1>1, <1>3, <2>2 DEF Acks
    <3> QED
      BY <1>1, <3>1, <3>2 DEF MovesQuietly
  <2>8. MovesMatching(h, "returned", y)
    BY DEF MovesMatching
  <2> QED
    BY <1>1, <2>2, <2>3, <2>6, <2>7, <2>8, HookMoves DEF Steps
<1> QED
  BY <1>4, <1>5, <1>6 DEF Scan

\* An append that throws, with its line durable or not.
LEMMA Thrown ==
  ASSUME HookInv, NEW h \in Hooks, pc[h] = "append", Throw(h), acked' = acked,
         log' = log \/ log' = Append(log, Observation(h)), shown' \in 0..Len(log'),
         UNCHANGED <<session, tool, tree, alone, others>>,
         faults' \in {faults, faults + 1}, ~Undisturbed \/ faults' = faults + 1
  PROVE  HookInv'
<1>1. Running(h)
  BY DEF Running, Fired, Ended
<1>2. /\ TypeOK /\ Primary(h) /\ local[h] \in Locals /\ Len(log) \in Nat /\ faults \in Nat
      /\ Acks(h) \subseteq 1..Len(log)
  BY RunningHook
<1>3. IF local[h].primary = 0 THEN Acks(h) = {} ELSE local[h].primary \in Acks(h)
  BY <1>2 DEF Primary
<1>4. \A x, y : MovesQuietly(h, x, y)
  BY <1>2 DEF MovesQuietly
<1>5. CASE Return(h, local[h].primary, local[h]) /\ notices' = notices \cup {h}
  <2>1. PICK y : y = [NewLocal EXCEPT !.primary = local[h].primary, !.result = local[h].primary]
    OBVIOUS
  <2>2. y \in Locals /\ y.result = local[h].primary /\ y.primary = local[h].primary
    BY <1>2, <2>1 DEF Locals, NewLocal, EventTypes, Statuses
  <2>3. Moves(h, "returned", y)
    BY <1>5, <2>1 DEF Moves, Return
  <2>4. pc'[h] = "returned" /\ local'[h] = y
    BY <1>1, <1>2, <2>2, <2>3, OneMoves DEF Steps
  <2>5. Acks(h)' = Acks(h)
    BY <1>2, <2>3, AcksMove
  <2>6. \A seq \in 1..Len(log) : seq \in 1..Len(log')
    BY <1>2, <2>3, LedgerGrows
  <2>7. Primary(h)' /\ Resolved(h)'
    BY <1>2, <1>3, <1>5, <2>2, <2>4, <2>5, <2>6, Returns
  <2>8. MovesMatching(h, "returned", y)
    BY DEF MovesMatching
  <2> QED
    BY <1>1, <1>4, <2>2, <2>3, <2>7, <2>8, HookMoves DEF Steps
<1>6. CASE Want(h, "adapter.error", local[h]) /\ UNCHANGED notices
  <2>1. PICK y : y = [local[h] EXCEPT !.want = "adapter.error", !.viewed = 0]
    OBVIOUS
  <2>2. y \in Locals /\ y.want = "adapter.error" /\ y.primary = local[h].primary
    BY <1>2, <2>1 DEF Locals, EventTypes
  <2>3. Moves(h, "view", y)
    BY <1>6, <2>1 DEF Moves, Want
  <2>4. pc'[h] = "view" /\ local'[h] = y
    BY <1>1, <1>2, <2>2, <2>3, OneMoves DEF Steps
  <2>5. Acks(h)' = Acks(h)
    BY <1>2, <2>3, AcksMove
  <2>6. Primary(h)' /\ Resolved(h)'
    BY <1>3, <2>2, <2>4, <2>5, GoesOn DEF Steps
  <2>7. MovesMatching(h, "view", y)
    BY <2>2 DEF MovesMatching
  <2> QED
    BY <1>1, <1>4, <2>2, <2>3, <2>6, <2>7, HookMoves DEF Steps
<1> QED
  BY <1>5, <1>6 DEF Throw

\* The event is appended, and its fold refuses it.
LEMMA AppendCorruptStep ==
  ASSUME HookInv, NEW h \in Hooks, AppendCorrupt(h)
  PROVE  HookInv'
<1>1. /\ pc[h] = "append" /\ ~Folds(h) /\ Throw(h) /\ acked' = acked /\ faults' = faults
      /\ log' = Append(log, Observation(h)) /\ shown' = Len(log')
      /\ UNCHANGED <<session, tool, tree, alone, others>>
  BY DEF AppendCorrupt, world
<1>2. ~Undisturbed
  BY <1>1, LockOwn DEF Folds, Running, Fired, Ended
<1>3. shown' \in 0..Len(log')
  <2>1. Len(log') \in Nat
    BY <1>1, RunningHook, ObservationType, Appended
  <2> QED
    BY <1>1, <2>1
<1> QED
  BY <1>1, <1>2, <1>3, Thrown

\* The store fails, with the line durable or not.
LEMMA AppendFailsStep ==
  ASSUME HookInv, NEW h \in Hooks, AppendFails(h)
  PROVE  HookInv'
<1>1. /\ pc[h] = "append" /\ Throw(h) /\ acked' = acked /\ faults' = faults + 1
      /\ log' = log \/ log' = Append(log, Observation(h))
      /\ shown' \in {shown, Len(log)}
      /\ UNCHANGED <<session, tool, tree, alone, others>>
  BY DEF AppendFails, world, Fault
<1>2. shown' \in 0..Len(log')
  <2>1. TypeOK /\ shown \in 0..Len(log) /\ Len(log) \in Nat
    BY RunningHook
  <2>2. Len(log') \in Nat /\ Len(log) <= Len(log')
    BY <1>1, <2>1, ObservationType, Appended
  <2> QED
    BY <1>1, <2>1, <2>2
<1> QED
  BY <1>1, <1>2, Thrown

\* The lock is never free.
LEMMA GiveUpStep ==
  ASSUME HookInv, NEW h \in Hooks, GiveUp(h)
  PROVE  HookInv'
<1>1. /\ pc[h] = "append" /\ lock \notin {None, h} /\ Throw(h) /\ acked' = acked /\ faults' = faults
      /\ log' = log /\ shown' = shown /\ UNCHANGED <<session, tool, tree, alone, others>>
  BY DEF GiveUp, store, world
<1>2. ~Undisturbed
  BY <1>1, LockOwn DEF Running, Fired, Ended
<1>3. shown' \in 0..Len(log')
  BY <1>1, RunningHook
<1> QED
  BY <1>1, <1>2, <1>3, Thrown

\* The hook process is killed.
LEMMA KillStep ==
  ASSUME HookInv, NEW h \in Hooks, Kill(h)
  PROVE  HookInv'
<1>1. /\ Running(h) /\ pc' = [pc EXCEPT ![h] = "killed"] /\ local' = [local EXCEPT ![h] = NewLocal]
      /\ acked' = acked /\ shown' = shown /\ notices' = notices /\ faults' = faults + 1
      /\ log' = log \/ log' = Append(log, Observation(h))
      /\ UNCHANGED <<session, tool, tree, alone, others>>
  BY DEF Kill, world, Fault
<1>2. TypeOK /\ shown \in 0..Len(log) /\ Len(log) \in Nat /\ faults \in Nat
  BY RunningHook
<1>3. NewLocal \in Locals
  BY DEF NewLocal, Locals, EventTypes, Statuses
<1>4. shown' \in 0..Len(log')
  <2>1. Len(log') \in Nat /\ Len(log) <= Len(log')
    BY <1>1, <1>2, ObservationType, Appended
  <2> QED
    BY <1>1, <1>2, <2>1
<1>5. Moves(h, "killed", NewLocal)
  BY <1>1, <1>4 DEF Moves
<1>6. pc'[h] = "killed" /\ local'[h] = NewLocal
  BY <1>1, <1>2, <1>3, <1>5, OneMoves DEF Steps
<1>7. MovesQuietly(h, "killed", NewLocal) /\ MovesMatching(h, "killed", NewLocal)
  BY <1>1, <1>2 DEF MovesQuietly, MovesMatching
<1> QED
  BY <1>1, <1>3, <1>5, <1>6, <1>7, IsKilled, HookMoves DEF Steps

\* The event is appended and returned, and the hook goes on from there.
LEMMA AppendEventStep ==
  ASSUME HookInv, NEW h \in Hooks, AppendEvent(h)
  PROVE  HookInv'
<1>1. /\ pc[h] = "append" /\ Running(h) /\ Proceed(h, Len(log'))
      /\ log' = Append(log, Observation(h)) /\ shown' = Len(log') /\ acked' = acked \cup {Len(log')}
      /\ notices' = notices /\ faults' = faults
      /\ UNCHANGED <<session, tool, tree, alone, others>>
  BY DEF AppendEvent, world, Running, Fired, Ended
<1>2. /\ TypeOK /\ Primary(h) /\ local[h] \in Locals /\ Len(log) \in Nat /\ Acks(h) \subseteq 1..Len(log)
      /\ PrimaryType(h) \in EventTypes
  BY RunningHook
<1>3. PICK seq \in Nat : seq = Len(log) + 1
  BY <1>2
<1>4. Len(log') = seq /\ shown' \in 0..Len(log') /\ log'[seq] = Observation(h) /\ seq # 0 /\ seq \in 1..Len(log')
  BY <1>1, <1>2, <1>3, ObservationType, Appended
<1>5. acked' = acked \cup {Len(log) + 1}
  BY <1>1, <1>3, <1>4
<1>6. log'[seq].type = local[h].want /\ log'[seq].by = h
  BY <1>2, <1>4, ObservationType
<1>7. PICK app \in Locals : app = IF local[h].want = PrimaryType(h) THEN [local[h] EXCEPT !.primary = seq]
                                  ELSE local[h]
  BY <1>2 DEF Locals
<1>8. /\ app.primary = IF local[h].want = PrimaryType(h) THEN seq ELSE local[h].primary
      /\ app.want = local[h].want /\ app.unread = local[h].unread
  BY <1>2, <1>7 DEF Locals
<1> DEFINE resolved == IF app.primary = 0 THEN seq ELSE app.primary
<1>9. /\ \/ local[h].want \in {PrimaryType(h), "adapter.error"}
         \/ local[h].want \in {"checkpoint.created", "workspace.changed"} /\ app.primary # 0
      /\ local[h].want \notin {PrimaryType(h), "adapter.error"} => app.primary # 0
      /\ IF local[h].primary = 0 THEN Acks(h) = {} ELSE local[h].primary \in Acks(h)
  BY <1>1, <1>2, <1>8 DEF Primary
<1>10. ASSUME NEW x, NEW y, Moves(h, x, y), y.primary = app.primary
       PROVE  /\ IF y.primary = 0 THEN Acks(h)' = {} ELSE y.primary \in Acks(h)'
              /\ PrimaryType(h)' = PrimaryType(h)
  <2>1. /\ Acks(h)' = Acks(h) \cup (IF local[h].want = PrimaryType(h) THEN {Len(log) + 1} ELSE {})
        /\ PrimaryType(h)' = PrimaryType(h)
    BY <1>1, <1>2, <1>5, <1>10, AcksMove
  <2> QED
    BY <1>3, <1>4, <1>8, <1>9, <1>10, <2>1
<1>11. CASE /\ ReadsAfter(h) /\ pc' = [pc EXCEPT ![h] = "await"]
            /\ local' = [local EXCEPT ![h] = [app EXCEPT !.viewed = 0]] /\ lock' = h
  <2>1. PICK y : y = [app EXCEPT !.viewed = 0]
    OBVIOUS
  <2>2. y \in Locals /\ y.primary = app.primary /\ y.want = "tool.completed" /\ y.unread = local[h].unread
    BY <1>8, <1>11, <2>1 DEF Locals, ReadsAfter
  <2>3. Moves(h, "await", y)
    BY <1>1, <1>4, <1>5, <1>11, <2>1 DEF Moves
  <2>4. pc'[h] = "await" /\ local'[h] = y
    BY <1>1, <1>2, <2>2, <2>3, OneMoves DEF Steps
  <2>5. y.want = PrimaryType(h) /\ y.primary # 0
    <3>1. local[h].want = "tool.completed"
      BY <1>11 DEF ReadsAfter
    <3>2. PrimaryType(h) = "tool.completed"
      BY <1>9, <3>1
    <3> QED
      BY <1>4, <1>8, <2>2, <3>1, <3>2
  <2>6. Primary(h)' /\ Resolved(h)'
    BY <1>10, <2>2, <2>3, <2>4, <2>5, GoesOn DEF Steps
  <2>7. MovesQuietly(h, "await", y)
    BY <1>1, <1>11, <2>2, LockOwn DEF MovesQuietly
  <2>8. MovesMatching(h, "await", y)
    BY <2>2 DEF MovesMatching
  <2> QED
    BY <1>1, <2>2, <2>3, <2>6, <2>7, <2>8, HookMoves DEF Steps
<1>12. CASE Follows(h) # "none" /\ Want(h, Follows(h), app) /\ lock' = h
  <2>1. PICK type \in {"adapter.error", "checkpoint.created"} :
          /\ type = Follows(h)
          /\ type = "adapter.error" => local[h].unread
          /\ type = "checkpoint.created" => local[h].want = "agent.suspended"
    BY <1>12 DEF Follows
  <2>2. PICK y : y = [app EXCEPT !.want = type, !.viewed = 0]
    OBVIOUS
  <2>3. y \in Locals /\ y.primary = app.primary /\ y.want = type /\ y.unread = local[h].unread
    BY <1>8, <2>1, <2>2 DEF Locals, EventTypes
  <2>4. Moves(h, "view", y)
    BY <1>1, <1>4, <1>5, <1>12, <2>1, <2>2 DEF Moves, Want
  <2>5. pc'[h] = "view" /\ local'[h] = y
    BY <1>1, <1>2, <2>3, <2>4, OneMoves DEF Steps
  <2>6. type = "checkpoint.created" => y.primary # 0
    BY <1>4, <1>8, <1>9, <2>1, <2>3
  <2>7. Primary(h)' /\ Resolved(h)'
    BY <1>10, <2>1, <2>3, <2>4, <2>5, <2>6, GoesOn DEF Steps
  <2>8. MovesQuietly(h, "view", y)
    BY <1>1, <1>12, <2>1, <2>3, LockOwn DEF MovesQuietly
  <2>9. MovesMatching(h, "view", y)
    BY <2>1, <2>3 DEF MovesMatching
  <2> QED
    BY <1>1, <2>3, <2>4, <2>7, <2>8, <2>9, HookMoves DEF Steps
<1>13. CASE Return(h, resolved, app) /\ lock' = None
  <2>1. PICK y : y = [NewLocal EXCEPT !.primary = app.primary, !.result = resolved]
    OBVIOUS
  <2>2. y \in Locals /\ y.primary = app.primary /\ y.result = resolved
    <3>1. app.primary \in Nat /\ resolved \in Nat
      BY <1>7 DEF Locals
    <3> HIDE DEF resolved
    <3> QED
      BY <2>1, <3>1 DEF Locals, NewLocal, EventTypes, Statuses
  <2>3. Moves(h, "returned", y)
    <3> HIDE DEF resolved
    <3> QED
      BY <1>1, <1>4, <1>5, <1>13, <2>1 DEF Moves, Return
  <2>4. pc'[h] = "returned" /\ local'[h] = y
    BY <1>1, <1>2, <2>2, <2>3, OneMoves DEF Steps
  <2>5. /\ IF y.primary = 0 THEN Acks(h)' = {} ELSE y.primary \in Acks(h)'
        /\ PrimaryType(h)' = PrimaryType(h)
    BY <1>10, <2>2, <2>3
  <2>6. acked' \subseteq 1..Len(log')
    BY <1>2, <2>3, LedgerGrows
  <2>7. y.result # 0 /\ y.result \in 1..Len(log')
    BY <1>4, <2>2, <2>5, <2>6 DEF Acks
  <2>8. y.primary = 0 => y.result = seq /\ local[h].want = "adapter.error"
    BY <1>4, <1>8, <1>9, <2>2
  <2>9. y.primary # 0 => y.result \in Acks(h)'
    BY <2>2, <2>5
  <2>10. Primary(h)' /\ Resolved(h)'
    BY <1>6, <2>4, <2>5, <2>7, <2>8, <2>9, Returns
  <2>11. MovesQuietly(h, "returned", y)
    <3>1. y.primary # 0 => log'[y.result].type = PrimaryType(h)
      BY <2>5, <2>9 DEF Acks
    <3> QED
      BY <1>1, <1>13, <2>7, <2>8, <3>1, LockOwn DEF MovesQuietly
  <2>12. MovesMatching(h, "returned", y)
    BY DEF MovesMatching
  <2> QED
    BY <1>1, <2>2, <2>3, <2>10, <2>11, <2>12, HookMoves DEF Steps
<1> QED
  BY <1>1, <1>4, <1>7, <1>11, <1>12, <1>13 DEF Proceed

-----------------------------------------------------------------------------
(* Steps of the launcher, of claude and of other processes.                  *)

\* A hook that nobody moved, and whose event is the same unless it has not fired.
LEMMA HookStays ==
  ASSUME TypeOK, NEW g \in Hooks, Primary(g), Resolved(g),
         pc'[g] = pc[g], local'[g] = local[g], acked' = acked, notices \subseteq notices',
         \A seq \in 1..Len(log) : seq \in 1..Len(log') /\ log'[seq] = log[seq],
         pc[g] = "none" \/ PrimaryType(g)' = PrimaryType(g)
  PROVE  Primary(g)' /\ Resolved(g)'
<1>1. acked \subseteq 1..Len(log)
  BY DEF TypeOK
<1>2. CASE pc[g] = "none"
  <2>1. local'[g] = NewLocal /\ \A seq \in acked' : log'[seq].by # g
    BY <1>1, <1>2 DEF Primary
  <2> QED
    BY <1>2, <2>1 DEF Primary, Resolved, Running, Fired, NewLocal
<1>3. CASE pc[g] # "none" /\ PrimaryType(g)' = PrimaryType(g)
  <2>1. Acks(g)' = Acks(g)
    BY <1>1, <1>3 DEF Acks
  <2>2. Running(g)' <=> Running(g)
    BY DEF Running, Fired, Ended
  <2>3. Primary(g)'
    BY <1>3, <2>1, <2>2 DEF Primary
  <2>4. Resolved(g)'
    BY <1>3, <2>1 DEF Resolved
  <2> QED
    BY <2>3, <2>4
<1> QED
  BY <1>2, <1>3

\* No change is recorded or prepared.
LEMMA MatchingStays ==
  ASSUME TypeOK, Matching, NEW e \in Events, e.type # "workspace.changed",
         log' = log \/ log' = Append(log, e),
         \A g \in Hooks : Running(g)' /\ local'[g].want = "workspace.changed" =>
           Running(g) /\ local'[g] = local[g]
  PROVE  Matching'
<1>1. Len(log) \in Nat /\ DOMAIN log = 1..Len(log)
  BY DEF TypeOK
<1>2. /\ Len(log') \in {Len(log), Len(log) + 1} /\ DOMAIN log' = 1..Len(log')
      /\ \A seq \in 1..Len(log) : log'[seq] = log[seq]
      /\ Len(log') = Len(log) + 1 => log'[Len(log) + 1] = e
  BY <1>1, Appended
<1>3. Len(log) \in Nat /\ \A s \in 1..Len(log) : log'[s] = log[s]
  BY <1>1, <1>2
<1>4. Len(log') \in Nat /\ Len(log) <= Len(log')
  <2>1. PICK n \in Nat : n = Len(log)
    BY <1>1
  <2>2. Len(log') = n \/ Len(log') = n + 1
    BY <1>2, <2>1
  <2> QED
    BY <2>1, <2>2
<1>5. \A seq \in 1..Len(log') : seq \in 1..Len(log) \/ log'[seq] = e
  <2>1. CASE Len(log') = Len(log)
    BY <2>1
  <2>2. CASE Len(log') = Len(log) + 1
    <3>1. \A seq \in 1..(Len(log) + 1) : seq \in 1..Len(log) \/ seq = Len(log) + 1
      BY <1>1
    <3> QED
      BY <1>2, <2>2, <3>1
  <2> QED
    BY <1>2, <2>1, <2>2
<1>6. ASSUME NEW seq \in DOMAIN log', log'[seq].type = "workspace.changed"
      PROVE  /\ log'[seq].by \in Hooks
             /\ log'[seq].before # log'[seq].after
             /\ Asked(log[seq].by.tool, log[seq].before, seq)'
  <2>1. seq \in 1..Len(log)
    BY <1>2, <1>6, <1>5
  <2>2. /\ log'[seq] = log[seq] /\ log[seq].by \in Hooks /\ log[seq].before # log[seq].after
        /\ Asked(log[seq].by.tool, log[seq].before, seq)
    BY <1>1, <1>2, <1>6, <2>1 DEF Matching
  <2>3. PICK asker, status : asker = log[seq].by.tool /\ status = log[seq].before
    OBVIOUS
  <2>4. seq \in Nat /\ seq <= Len(log) + 1 /\ Asked(asker, status, seq)
    BY <1>3, <2>1, <2>2, <2>3
  <2>5. Asked(asker, status, seq)'
    BY <1>3, <2>4, AskedStays
  <2> QED
    BY <2>2, <2>3, <2>5 DEF Asked
<1>7. ASSUME NEW g \in Hooks, Running(g)', local'[g].want = "workspace.changed"
      PROVE  local'[g].before # local'[g].after /\ Asked(g.tool, local[g].before, Len(log) + 1)'
  <2>1. Running(g) /\ local'[g] = local[g]
    BY <1>7
  <2>2. local[g].before # local[g].after /\ Asked(g.tool, local[g].before, Len(log) + 1)
    BY <1>7, <2>1 DEF Matching
  <2>3. PICK status : status = local[g].before
    OBVIOUS
  <2>4. PICK seq \in Nat : seq = Len(log) + 1
    BY <1>1
  <2>5. PICK next \in Nat : next = Len(log') + 1
    BY <1>4
  <2>6. seq <= Len(log) + 1 /\ seq <= next /\ Asked(g.tool, status, seq)
    <3>1. seq <= Len(log) + 1 /\ seq <= next
      BY <1>1, <1>4, <2>4, <2>5
    <3> QED
      BY <2>2, <2>3, <2>4, <3>1
  <2>7. Asked(g.tool, status, next)'
    BY <1>3, <2>6, AskedStays
  <2> QED
    BY <2>1, <2>2, <2>3, <2>5, <2>7 DEF Asked
<1> QED
  BY <1>6, <1>7 DEF Matching

\* The events that are of no hook.
LEMMA OtherEvents ==
  /\ Entry("other", Other) \in Events /\ Entry("run.created", Launcher) \in Events
  /\ Entry("other", Other).type = "other" /\ Entry("run.created", Launcher).type = "run.created"
BY DEF Entry, Events, EventTypes, Statuses

\* Nobody changes what hooks are at.
Idle == pc' = pc /\ local' = local /\ acked' = acked /\ notices' = notices

\* Nor which of them are running.
LEMMA IdleHooks ==
  ASSUME Idle
  PROVE  /\ \A h : (Fired(h)' <=> Fired(h)) /\ (Ended(h)' <=> Ended(h)) /\ (Running(h)' <=> Running(h))
         /\ \A t : Busy(t)' <=> Busy(t)
         /\ tool' = tool => \A h : PrimaryType(h)' = PrimaryType(h)
BY DEF Idle, Fired, Ended, Running, Busy, PrimaryType, SessionStart, Stop, Hook

\* The launcher starts the run.
LEMMA StartRunStep ==
  ASSUME HookInv, StartRun
  PROVE  HookInv'
<1>1. /\ session = "install" /\ session' = "started" /\ shown' = 1 /\ Idle
      /\ log' = <<Entry("run.created", Launcher)>>
      /\ UNCHANGED <<tool, tree, alone, others, faults>>
  BY DEF StartRun, Idle, Entry
<1>2. TypeOK /\ Ordered /\ Quiet /\ Matching /\ \A h \in Hooks : Primary(h) /\ Resolved(h)
  BY DEF HookInv
<1>3. log = <<>> /\ acked = {} /\ \A h \in Hooks : ~Fired(h)
  BY <1>1, <1>2 DEF Ordered
<1>4. log' = Append(log, Entry("run.created", Launcher)) /\ Len(log) = 0 /\ Len(log') = 1 /\ log' \in Seq(Events)
  BY <1>1, <1>3, OtherEvents
<1>5. TypeOK'
  <2>1. acked' \subseteq 1..Len(log') /\ shown' \in 0..Len(log')
    BY <1>1, <1>3, <1>4 DEF Idle
  <2> QED
    BY <1>1, <1>2, <1>4, <2>1 DEF TypeOK, Idle
<1>6. Ordered'
  BY <1>1, <1>2, <1>3, IdleHooks, HookKinds, Zenon DEF Ordered
<1>7. \A h \in Hooks : Primary(h)' /\ Resolved(h)'
  <2>1. \A seq \in 1..Len(log) : seq \in 1..Len(log') /\ log'[seq] = log[seq]
    BY <1>4
  <2> QED
    BY <1>1, <1>2, <2>1, IdleHooks, HookStays DEF Idle
<1>8. Quiet'
  <2> SUFFICES ASSUME Undisturbed' PROVE Quiet'
    BY DEF Quiet
  <2>1. Undisturbed
    BY <1>1 DEF Undisturbed
  <2>2. \A h \in Hooks : ~Fired(h)' /\ ~Running(h)' /\ pc'[h] # "returned"
    BY <1>1, <1>3, IdleHooks DEF Running, Fired, Idle
  <2>3. \A t \in Tools : ~Busy(t)'
    BY <2>2, HookKinds DEF Busy, Pre
  <2>4. notices' = {} /\ shown' = Len(log') /\ session' # "on"
    BY <1>1, <1>2, <1>4, <2>1 DEF Quiet, Idle
  <2> QED
    BY <2>2, <2>3, <2>4, Zenon DEF Quiet
<1>9. Matching'
  BY <1>1, <1>2, <1>4, IdleHooks, MatchingStays, OtherEvents DEF Idle
<1> QED
  BY <1>5, <1>6, <1>7, <1>8, <1>9 DEF HookInv

\* A step that changes only the session, who has the lock, and how much others wrote.
LEMMA SessionStep ==
  ASSUME HookInv, Idle, UNCHANGED <<log, shown, tool, tree, alone, faults>>,
         others' = others, session' = session \/ (session' = "on" /\ session # "install"),
         lock' = None \/ UNCHANGED <<session, lock>>
  PROVE  HookInv'
<1>1. TypeOK /\ Ordered /\ Quiet /\ Matching /\ \A h \in Hooks : Primary(h) /\ Resolved(h)
  BY DEF HookInv
<1>2. TypeOK'
  BY <1>1 DEF TypeOK, Idle
<1>3. Ordered'
  <2>1. /\ session' # "on" => \A h \in Hooks : ~Fired(h)'
        /\ session' = "install" => log' = <<>> /\ acked' = {}
    BY <1>1, IdleHooks DEF Ordered, Idle
  <2> QED
    BY <1>1, <2>1, IdleHooks, Zenon DEF Ordered, Pre, Post
<1>4. \A h \in Hooks : Primary(h)' /\ Resolved(h)'
  BY <1>1, IdleHooks, HookStays DEF Idle
<1>5. Quiet'
  <2> SUFFICES ASSUME Undisturbed' PROVE Quiet'
    BY DEF Quiet
  <2>1. Undisturbed
    BY DEF Undisturbed
  <2>2. notices' = {} /\ shown' = Len(log')
    BY <1>1, <2>1 DEF Quiet, Idle
  <2>3. \A t, u \in Tools : Busy(t)' /\ Busy(u)' => t = u
    BY <1>1, <2>1, IdleHooks DEF Quiet
  <2>4. \A h \in Hooks : Running(h)' =>
          /\ ~local'[h].unread /\ local'[h].want # "adapter.error"
          /\ pc'[h] = "append" => local'[h].viewed = Len(log')
    BY <1>1, <2>1, IdleHooks DEF Quiet, Idle
  <2>5. \A h \in Hooks : pc'[h] = "returned" =>
          local'[h].result # 0 /\ log'[local'[h].result].type \in {PrimaryType(h)', "run.created"}
    BY <1>1, <2>1, IdleHooks DEF Quiet, Idle
  <2>6. session' = "on" => lock' = None \/ \E h \in Hooks : lock' = h /\ Running(h)'
    BY <1>1, <2>1, IdleHooks DEF Quiet
  <2> QED
    BY <2>2, <2>3, <2>4, <2>5, <2>6, Zenon DEF Quiet
<1>6. Matching'
  BY <1>1, IdleHooks, MatchingStays, OtherEvents DEF Idle
<1> QED
  BY <1>2, <1>3, <1>4, <1>5, <1>6 DEF HookInv

\* Another process writes the run.
LEMMA OtherWritesStep ==
  ASSUME HookInv, OtherWrites
  PROVE  HookInv'
<1>1. /\ session = "on" /\ session' = session /\ others' = others + 1 /\ Idle
      /\ log' = Append(log, Entry("other", Other)) /\ shown' = Len(log')
      /\ UNCHANGED <<tool, tree, alone, faults>>
  BY DEF OtherWrites, Idle
<1>2. TypeOK /\ Ordered /\ Matching /\ \A h \in Hooks : Primary(h) /\ Resolved(h)
  BY DEF HookInv
<1>3. /\ log' \in Seq(Events) /\ Len(log') = Len(log) + 1 /\ Len(log) \in Nat
      /\ \A seq \in 1..Len(log) : log'[seq] = log[seq]
  BY <1>1, <1>2, OtherEvents, Appended
<1>4. \A seq \in 1..Len(log) : seq \in 1..Len(log')
  BY <1>3
<1>5. TypeOK'
  <2>1. acked' \subseteq 1..Len(log') /\ shown' \in 0..Len(log') /\ others' \in Nat
    BY <1>1, <1>2, <1>3, <1>4 DEF TypeOK, Idle
  <2> QED
    BY <1>1, <1>2, <1>3, <2>1 DEF TypeOK, Idle
<1>6. Ordered'
  BY <1>1, <1>2, IdleHooks, Zenon DEF Ordered, Pre, Post
<1>7. \A h \in Hooks : Primary(h)' /\ Resolved(h)'
  BY <1>1, <1>2, <1>3, <1>4, IdleHooks, HookStays DEF Idle
<1>8. Quiet'
  BY <1>1, <1>2 DEF Quiet, Undisturbed, TypeOK
<1>9. Matching'
  BY <1>1, <1>2, IdleHooks, MatchingStays, OtherEvents DEF Idle
<1> QED
  BY <1>5, <1>6, <1>7, <1>8, <1>9 DEF HookInv

\* A tool runs.
LEMMA RunToolStep ==
  ASSUME HookInv, NEW t \in Tools, NEW outcome \in {"ok", "failed"}, NEW digest \in Digests,
         RunTool(t, outcome, digest)
  PROVE  HookInv'
<1>1. /\ tool[t] = "asked" /\ Ended(Pre(t)) /\ tool' = [tool EXCEPT ![t] = outcome] /\ tree' = digest /\ Idle
      /\ UNCHANGED <<log, shown, lock, session, alone, others, faults>>
  BY DEF RunTool, Idle, store, Pre
<1>2. TypeOK /\ Ordered /\ Quiet /\ Matching /\ \A h \in Hooks : Primary(h) /\ Resolved(h)
  BY DEF HookInv
<1>3. TypeOK'
  BY <1>1, <1>2 DEF TypeOK, Idle
<1>4. tool'[t] = outcome /\ \A u \in Tools : u # t => tool'[u] = tool[u]
  BY <1>1, <1>2 DEF TypeOK
<1>5. Ordered'
  <2>1. \A u \in Tools : /\ tool'[u] # "asked" => Ended(Pre(u))'
                         /\ Fired(Post(u))' => tool'[u] # "asked"
                         /\ Fired(Pre(u))' => Ended(SessionStart)'
                         /\ Fired(Stop)' => ~Busy(u)'
    <3>1. outcome # "asked"
      OBVIOUS
    <3> QED
      BY <1>1, <1>2, <1>4, <3>1, IdleHooks, Zenon DEF Ordered
  <2>2. /\ session' # "on" => \A h \in Hooks : ~Fired(h)'
        /\ session' = "install" => log' = <<>> /\ acked' = {}
        /\ Fired(Stop)' => Ended(SessionStart)'
    BY <1>1, <1>2, IdleHooks DEF Ordered, Idle
  <2> QED
    BY <2>1, <2>2, Zenon DEF Ordered
<1>6. \A h \in Hooks : pc[h] = "none" \/ PrimaryType(h)' = PrimaryType(h)
  <2> SUFFICES ASSUME NEW h \in Hooks, pc[h] # "none" PROVE PrimaryType(h)' = PrimaryType(h)
    OBVIOUS
  <2>1. h.kind = "PostToolUse" => h.tool \in Tools /\ tool[h.tool] # "asked"
    BY <1>2, HookKinds DEF Ordered, Fired
  <2>2. h.kind = "PostToolUse" => tool'[h.tool] = tool[h.tool]
    BY <1>1, <1>4, <2>1
  <2> QED
    BY <2>2 DEF PrimaryType, SessionStart, Stop
<1>7. \A h \in Hooks : Primary(h)' /\ Resolved(h)'
  BY <1>1, <1>2, <1>6, HookStays DEF Idle
<1>8. Quiet'
  <2> SUFFICES ASSUME Undisturbed' PROVE Quiet'
    BY DEF Quiet
  <2>1. Undisturbed
    BY <1>1 DEF Undisturbed
  <2>2. notices' = {} /\ shown' = Len(log')
    BY <1>1, <1>2, <2>1 DEF Quiet, Idle
  <2>3. \A u, v \in Tools : Busy(u)' /\ Busy(v)' => u = v
    BY <1>1, <1>2, <2>1, IdleHooks DEF Quiet
  <2>4. \A h \in Hooks : Running(h)' =>
          /\ ~local'[h].unread /\ local'[h].want # "adapter.error"
          /\ pc'[h] = "append" => local'[h].viewed = Len(log')
    BY <1>1, <1>2, <2>1, IdleHooks DEF Quiet, Idle
  <2>5. \A h \in Hooks : pc'[h] = "returned" =>
          local'[h].result # 0 /\ log'[local'[h].result].type \in {PrimaryType(h)', "run.created"}
    BY <1>1, <1>2, <1>6, <2>1 DEF Quiet, Idle
  <2>6. session' = "on" => lock' = None \/ \E h \in Hooks : lock' = h /\ Running(h)'
    BY <1>1, <1>2, <2>1, IdleHooks DEF Quiet
  <2> QED
    BY <2>2, <2>3, <2>4, <2>5, <2>6, Zenon DEF Quiet
<1>9. Matching'
  BY <1>1, <1>2, IdleHooks, MatchingStays, OtherEvents DEF Idle
<1> QED
  BY <1>3, <1>5, <1>7, <1>8, <1>9 DEF HookInv

\* Claude spawns a hook, at step x with locals y.
Spawned(h, x, y) ==
  /\ session = "on" /\ ~Fired(h) /\ Fires(h)
  /\ pc' = [pc EXCEPT ![h] = x] /\ local' = [local EXCEPT ![h] = y]
  /\ \/ /\ x = FirstStep(h) /\ y = [NewLocal EXCEPT !.want = PrimaryType(h)]
        /\ notices' = notices /\ faults' = faults
     \/ x = "view" /\ y = NewLocal /\ notices' = notices /\ faults' = faults + 1
     \/ x = "returned" /\ y = NewLocal /\ notices' = notices \cup {h} /\ faults' = faults + 1
  /\ alone' = IF h.kind = "PreToolUse" /\ \E t \in Tools : Busy(t)
              THEN alone \ ({h.tool} \cup {t \in Tools : Busy(t)})
              ELSE alone
  /\ UNCHANGED <<log, shown, lock, session, tool, tree, others, acked>>

\* What Fire does.
LEMMA FireSpawns ==
  ASSUME HookInv, NEW h \in Hooks, Fire(h)
  PROVE  \E x \in Steps \ {"none"}, y \in Locals : Spawned(h, x, y)
<1>1. TypeOK /\ Primary(h)
  BY DEF HookInv
<1>2. pc[h] = "none" /\ local[h] = NewLocal
  BY <1>1 DEF Primary, Fire, Fired
<1>3. NewLocal \in Locals
  BY DEF NewLocal, Locals, EventTypes, Statuses
<1>4. FirstStep(h) \in Steps \ {"none"}
  BY DEF FirstStep, Steps
<1>5. [NewLocal EXCEPT !.want = PrimaryType(h)] \in Locals
  BY <1>3, PrimaryIsNoFurther DEF Locals
<1>6. local = [local EXCEPT ![h] = NewLocal]
  BY <1>1, <1>2 DEF TypeOK
<1>7. [local EXCEPT ![h].want = PrimaryType(h)] = [local EXCEPT ![h] = [NewLocal EXCEPT !.want = PrimaryType(h)]]
  BY <1>1, <1>2 DEF TypeOK
<1>8. CASE /\ pc' = [pc EXCEPT ![h] = FirstStep(h)] /\ local' = [local EXCEPT ![h].want = PrimaryType(h)]
           /\ UNCHANGED <<notices, faults>>
  BY <1>4, <1>5, <1>7, <1>8 DEF Spawned, Fire, store
<1>9. CASE pc' = [pc EXCEPT ![h] = "view"] /\ Fault /\ UNCHANGED <<local, notices>>
  BY <1>3, <1>6, <1>9 DEF Spawned, Fire, Fault, store, Steps
<1>10. CASE pc' = [pc EXCEPT ![h] = "returned"] /\ notices' = notices \cup {h} /\ Fault /\ UNCHANGED local
  BY <1>3, <1>6, <1>10 DEF Spawned, Fire, Fault, store, Steps
<1> QED
  BY <1>8, <1>9, <1>10 DEF Fire

\* What a spawned hook starts as, and what the others are at.
LEMMA OneStarts ==
  ASSUME HookInv, NEW h \in Hooks, NEW x \in Steps \ {"none"}, NEW y \in Locals, Spawned(h, x, y)
  PROVE  /\ pc'[h] = x /\ local'[h] = y /\ pc[h] = "none"
         /\ \A g \in Hooks : g # h => pc'[g] = pc[g] /\ local'[g] = local[g]
         /\ \A g \in Hooks : /\ Fired(g)' <=> (Fired(g) \/ g = h)
                             /\ Ended(g) => Ended(g)'
                             /\ g # h => (Running(g)' <=> Running(g)) /\ (Ended(g)' <=> Ended(g))
                             /\ PrimaryType(g)' = PrimaryType(g)
         /\ \A t \in Tools : Busy(t)' => Busy(t) \/ h = Pre(t)
<1>1. TypeOK
  BY DEF HookInv
<1>2. /\ pc'[h] = x /\ local'[h] = y /\ pc[h] = "none"
      /\ \A g \in Hooks : g # h => pc'[g] = pc[g] /\ local'[g] = local[g]
  BY <1>1 DEF Spawned, TypeOK, Fired
<1>3. \A g \in Hooks : /\ Fired(g)' <=> (Fired(g) \/ g = h)
                       /\ Ended(g) => Ended(g)'
                       /\ g # h => (Running(g)' <=> Running(g)) /\ (Ended(g)' <=> Ended(g))
  BY <1>2 DEF Fired, Ended, Running
<1>4. \A g \in Hooks : PrimaryType(g)' = PrimaryType(g)
  BY DEF Spawned, PrimaryType, SessionStart, Stop
<1>5. \A t \in Tools : Busy(t)' => Busy(t) \/ h = Pre(t)
  BY <1>3, HookKinds DEF Busy, Pre, Post
<1> QED
  BY <1>2, <1>3, <1>4, <1>5

\* A spawned hook has nothing yet, and an event to append or a notice.
LEMMA StartsFresh ==
  ASSUME HookInv, NEW h \in Hooks, NEW x \in Steps \ {"none"}, NEW y \in Locals, Spawned(h, x, y)
  PROVE  Primary(h)' /\ Resolved(h)'
<1>1. pc'[h] = x /\ local'[h] = y /\ pc[h] = "none" /\ PrimaryType(h)' = PrimaryType(h)
  BY OneStarts
<1>2. Acks(h)' = {}
  BY <1>1 DEF Spawned, HookInv, Primary, Acks
<1>3. y.primary = 0 /\ y.result = 0
  BY DEF Spawned, NewLocal
<1>4. CASE x = FirstStep(h) /\ y = [NewLocal EXCEPT !.want = PrimaryType(h)]
  <2>1. y.want = PrimaryType(h) /\ x \in {"head", "status", "view"} /\ (x = "head" => h.kind = "SessionStart")
    BY <1>4 DEF FirstStep, NewLocal
  <2> QED
    BY <1>1, <1>2, <1>3, <2>1, GoesOn DEF Steps
<1>5. CASE x = "view" /\ y = NewLocal
  <2>1. y.want = "adapter.error"
    BY <1>5 DEF NewLocal
  <2> QED
    BY <1>1, <1>2, <1>3, <1>5, <2>1, GoesOn DEF Steps
<1>6. CASE x = "returned" /\ h \in notices'
  BY <1>1, <1>2, <1>3, <1>6, Returns
<1> QED
  BY <1>4, <1>5, <1>6 DEF Spawned

\* Claude spawns a hook.
LEMMA FireStep ==
  ASSUME HookInv, NEW h \in Hooks, Fire(h)
  PROVE  HookInv'
<1>1. PICK x \in Steps \ {"none"}, y \in Locals : Spawned(h, x, y)
  BY FireSpawns
<1>2. TypeOK /\ Ordered /\ Quiet /\ Matching /\ \A g \in Hooks : Primary(g) /\ Resolved(g)
  BY DEF HookInv
<1>3. /\ session = "on" /\ Fires(h) /\ pc' = [pc EXCEPT ![h] = x] /\ local' = [local EXCEPT ![h] = y]
      /\ UNCHANGED <<log, shown, lock, session, tool, tree, others, acked>>
      /\ notices \subseteq notices' /\ faults' \in {faults, faults + 1} /\ alone' \subseteq alone
  BY <1>1 DEF Spawned
<1>4. /\ pc'[h] = x /\ local'[h] = y /\ pc[h] = "none"
      /\ \A g \in Hooks : g # h => pc'[g] = pc[g] /\ local'[g] = local[g]
      /\ \A g \in Hooks : /\ Fired(g)' <=> (Fired(g) \/ g = h)
                          /\ Ended(g) => Ended(g)'
                          /\ g # h => (Running(g)' <=> Running(g)) /\ (Ended(g)' <=> Ended(g))
                          /\ PrimaryType(g)' = PrimaryType(g)
      /\ \A t \in Tools : Busy(t)' => Busy(t) \/ h = Pre(t)
  BY <1>1, OneStarts
<1>5. TypeOK'
  BY <1>2, <1>3 DEF TypeOK
<1>6. Ordered'
  <2>1. \/ h = SessionStart
        \/ h = Stop /\ Ended(SessionStart) /\ \A t \in Tools : ~Busy(t)
        \/ \E t \in Tools : h = Pre(t) /\ Ended(SessionStart) /\ ~Fired(Stop)
        \/ \E t \in Tools : h = Post(t) /\ tool[t] # "asked"
    BY <1>3, HookKinds DEF Fires
  <2>2. SessionStart \in Hooks /\ Stop \in Hooks /\ \A t \in Tools : Pre(t) \in Hooks /\ Post(t) \in Hooks
    BY HookKinds
  <2>3. Fired(Stop)' => Ended(SessionStart)'
    BY <1>2, <1>4, <2>1, <2>2, HookKinds DEF Ordered
  <2>4. ASSUME NEW t \in Tools
        PROVE  /\ tool'[t] # "asked" => Ended(Pre(t))'
               /\ Fired(Post(t))' => tool'[t] # "asked"
               /\ Fired(Pre(t))' => Ended(SessionStart)'
    <3>1. tool'[t] = tool[t]
      BY <1>3
    <3>2. tool[t] # "asked" => Ended(Pre(t))'
      BY <1>2, <1>4, <2>2 DEF Ordered
    <3>3. Fired(Post(t))' => tool[t] # "asked"
      BY <1>2, <1>4, <2>1, <2>2, HookKinds DEF Ordered
    <3>4. Fired(Pre(t))' => Ended(SessionStart)'
      BY <1>2, <1>4, <2>1, <2>2, HookKinds DEF Ordered
    <3> QED
      BY <3>1, <3>2, <3>3, <3>4
  <2>5. ASSUME NEW t \in Tools, Fired(Stop)' PROVE ~Busy(t)'
    <3>1. h # Pre(t)
      BY <1>4, <2>1, <2>2, <2>5, HookKinds
    <3>2. ~Busy(t)
      BY <1>2, <1>4, <2>1, <2>2, <2>5, HookKinds DEF Ordered
    <3> QED
      BY <1>4, <3>1, <3>2
  <2> QED
    BY <1>3, <2>3, <2>4, <2>5, Zenon DEF Ordered
<1>7. \A g \in Hooks : Primary(g)' /\ Resolved(g)'
  <2> SUFFICES ASSUME NEW g \in Hooks PROVE Primary(g)' /\ Resolved(g)'
    OBVIOUS
  <2>1. CASE g = h
    BY <1>1, <2>1, StartsFresh
  <2>2. CASE g # h
    BY <1>2, <1>3, <1>4, <2>2, HookStays
  <2> QED
    BY <2>1, <2>2
<1>8. Quiet'
  <2> SUFFICES ASSUME Undisturbed' PROVE Quiet'
    BY DEF Quiet
  <2>1. alone' = Tools /\ others' = 0 /\ faults' = 0
    BY DEF Undisturbed
  <2>2. alone = Tools /\ others = 0 /\ faults = 0 /\ faults' = faults
    <3>1. alone \subseteq Tools /\ faults \in Nat
      BY <1>2 DEF TypeOK
    <3>2. faults = 0 /\ faults' = faults
      BY <1>3, <2>1, <3>1
    <3> QED
      BY <1>3, <2>1, <3>1, <3>2
  <2>3. Undisturbed
    BY <2>2 DEF Undisturbed
  <2>4. x = FirstStep(h) /\ y = [NewLocal EXCEPT !.want = PrimaryType(h)] /\ notices' = notices
    BY <1>1, <2>2 DEF Spawned
  <2>5. h.kind = "PreToolUse" => \A t \in Tools : ~Busy(t)
    <3>1. h.kind = "PreToolUse" => h.tool \in Tools
      BY HookKinds
    <3> QED
      BY <1>1, <2>1, <3>1 DEF Spawned
  <2>6. \A t, u \in Tools : Busy(t)' /\ Busy(u)' => t = u
    BY <1>2, <1>4, <2>3, <2>5, HookKinds DEF Quiet
  <2>7. ~y.unread /\ y.want # "adapter.error" /\ x \in {"head", "status", "view"}
    BY <2>4, PrimaryIsNoFurther DEF NewLocal, FirstStep
  <2>8. \A g \in Hooks : Running(g)' =>
          /\ ~local'[g].unread /\ local'[g].want # "adapter.error"
          /\ pc'[g] = "append" => local'[g].viewed = Len(log')
    BY <1>2, <1>3, <1>4, <2>3, <2>7 DEF Quiet
  <2>9. \A g \in Hooks : pc'[g] = "returned" =>
          local'[g].result # 0 /\ log'[local'[g].result].type \in {PrimaryType(g)', "run.created"}
    BY <1>2, <1>3, <1>4, <2>3, <2>7 DEF Quiet
  <2>10. lock' = None \/ \E g \in Hooks : lock' = g /\ Running(g)'
    <3>1. lock = None \/ \E g \in Hooks : lock = g /\ Running(g)
      BY <1>2, <1>3, <2>3 DEF Quiet
    <3>2. ~Running(h)
      BY <1>4 DEF Running, Fired
    <3> QED
      BY <1>3, <1>4, <3>1, <3>2
  <2>11. notices' = {} /\ shown' = Len(log')
    BY <1>2, <1>3, <2>3, <2>4 DEF Quiet
  <2> QED
    BY <2>6, <2>8, <2>9, <2>10, <2>11, Zenon DEF Quiet
<1>9. Matching'
  <2>1. y.want \in {PrimaryType(h), "adapter.error"}
    BY <1>1 DEF Spawned, NewLocal
  <2>2. \A g \in Hooks : Running(g)' /\ local'[g].want = "workspace.changed" => Running(g) /\ local'[g] = local[g]
    BY <1>4, <2>1, PrimaryIsNoFurther
  <2> QED
    BY <1>2, <1>3, <2>2, MatchingStays, OtherEvents
<1> QED
  BY <1>5, <1>6, <1>7, <1>8, <1>9 DEF HookInv

-----------------------------------------------------------------------------
(* The invariant and what follows from it.                                   *)

\* The invariant holds at first.
LEMMA HookInvInit ==
  ASSUME Init
  PROVE  HookInv
<1>1. /\ log = <<>> /\ shown = 0 /\ lock = None /\ session = "install" /\ notices = {} /\ acked = {}
      /\ tool = [t \in Tools |-> "asked"] /\ tree = Clean /\ alone = Tools /\ others = 0 /\ faults = 0
      /\ pc = [h \in Hooks |-> "none"] /\ local = [h \in Hooks |-> NewLocal]
  BY DEF Init
<1>2. NewLocal \in Locals
  BY DEF NewLocal, Locals, EventTypes, Statuses
<1>3. Len(log) = 0 /\ log \in Seq(Events) /\ DOMAIN log = {}
  BY <1>1
<1>4. TypeOK
  <2>1. shown \in 0..Len(log) /\ acked \subseteq 1..Len(log) /\ others \in Nat /\ faults \in Nat
    BY <1>1, <1>3
  <2>2. pc \in [Hooks -> Steps] /\ local \in [Hooks -> Locals] /\ tool \in [Tools -> {"asked", "ok", "failed"}]
    BY <1>1, <1>2 DEF Steps
  <2>3. tree \in Digests
    BY <1>1, HookAdapterAssumption
  <2> QED
    BY <1>1, <1>3, <2>1, <2>2, <2>3 DEF TypeOK
<1>5. \A h \in Hooks : pc[h] = "none" /\ ~Fired(h) /\ ~Running(h)
  BY <1>1 DEF Fired, Running
<1>6. Ordered
  <2>1. \A t \in Tools : tool[t] = "asked" /\ ~Fired(Pre(t)) /\ ~Fired(Post(t))
    BY <1>1, <1>5, HookKinds
  <2>2. ~Fired(Stop)
    BY <1>5, HookKinds
  <2> QED
    BY <1>1, <1>5, <2>1, <2>2 DEF Ordered
<1>7. \A h \in Hooks : Primary(h) /\ Resolved(h)
  BY <1>1, <1>5 DEF Primary, Resolved
<1>8. Quiet
  <2>1. \A t \in Tools : ~Busy(t)
    BY <1>5, HookKinds DEF Busy, Pre
  <2> QED
    BY <1>1, <1>3, <1>5, <2>1 DEF Quiet
<1>9. Matching
  BY <1>3, <1>5 DEF Matching
<1> QED
  BY <1>4, <1>6, <1>7, <1>8, <1>9 DEF HookInv

\* A hook process keeps it.
LEMMA HookStepKeeps ==
  ASSUME HookInv, NEW h \in Hooks, HookStep(h)
  PROVE  HookInv'
BY ReadHeadStep, ReadBeforeStep, ReadAfterStep, AwaitedStep, ScanStep, ReadFailsStep, ViewStep, AppendEventStep,
   AppendCorruptStep, AppendFailsStep, RetryStep, GiveUpStep DEF HookStep

\* The launcher keeps it when it closes the store.
LEMMA SpawnClaudeStep ==
  ASSUME HookInv, SpawnClaude
  PROVE  HookInv'
BY SessionStep DEF SpawnClaude, Idle

\* The other process keeps it when it closes the store.
LEMMA OtherClosesStep ==
  ASSUME HookInv, OtherCloses
  PROVE  HookInv'
BY SessionStep DEF OtherCloses, Idle, world

\* A step that changes nothing keeps it.
LEMMA HookInvStutter ==
  ASSUME HookInv, UNCHANGED vars
  PROVE  HookInv'
BY SessionStep DEF vars, store, world, Idle

\* Every step keeps it.
LEMMA HookInvStep ==
  ASSUME HookInv, [Next]_vars
  PROVE  HookInv'
<1>1. CASE StartRun
  BY <1>1, StartRunStep
<1>2. CASE SpawnClaude
  BY <1>2, SpawnClaudeStep
<1>3. CASE OtherWrites
  BY <1>3, OtherWritesStep
<1>4. CASE OtherCloses
  BY <1>4, OtherClosesStep
<1>5. CASE \E t \in Tools, outcome \in {"ok", "failed"}, digest \in Digests : RunTool(t, outcome, digest)
  BY <1>5, RunToolStep
<1>6. CASE \E h \in Hooks : Fire(h)
  BY <1>6, FireStep
<1>7. CASE \E h \in Hooks : HookStep(h)
  BY <1>7, HookStepKeeps
<1>8. CASE \E h \in Hooks : Kill(h)
  BY <1>8, KillStep
<1>9. CASE UNCHANGED vars
  BY <1>9, HookInvStutter
<1> QED
  BY <1>1, <1>2, <1>3, <1>4, <1>5, <1>6, <1>7, <1>8, <1>9 DEF Next

\* Whatever is killed, fails or is disturbed, every hook knows what happened to its
\* primary event, and a recorded change is against a status that was asked for.
THEOREM HookInvariant == Spec => []HookInv
<1>1. Init => HookInv
  BY HookInvInit
<1>2. HookInv /\ [Next]_vars => HookInv'
  BY HookInvStep
<1> QED
  BY <1>1, <1>2, PTL DEF Spec

\* handleHook resolves to the primary event if record() returned it, whatever
\* fails later, to the adapter.error in its place, or to null with a notice.
THEOREM HooksResolve == Spec => []ResultIsWhatHappened
<1>1. HookInv => ResultIsWhatHappened
  <2> SUFFICES ASSUME HookInv, NEW h \in Hooks, pc[h] = "returned"
               PROVE  LET result == local[h].result
                          returned == {seq \in Recorded(h) \cap acked : log[seq].type = PrimaryType(h)}
                      IN IF result = 0
                         THEN h \in notices /\ returned = {}
                         ELSE \/ result \in returned
                              \/ h.kind = "SessionStart" /\ log[result].type = "run.created"
                              \/ result \in Recorded(h) /\ log[result].type = "adapter.error" /\ returned = {}
    BY DEF ResultIsWhatHappened
  <2>1. TypeOK /\ Resolved(h)
    BY DEF HookInv
  <2>2. DOMAIN log = 1..Len(log) /\ acked \subseteq 1..Len(log)
    BY <2>1 DEF TypeOK
  <2>3. {seq \in Recorded(h) \cap acked : log[seq].type = PrimaryType(h)} = Acks(h)
    BY <2>2 DEF Recorded, Acks
  <2> QED
    BY <2>1, <2>2, <2>3 DEF Resolved, Recorded
<1> QED
  BY <1>1, HookInvariant, PTL

\* Calls that do not run in parallel, with no other process and no failure, record
\* all they observe: the launcher and every hook leave the lock free.
THEOREM QuietSessionsRecorded == Spec => []UndisturbedRecorded
<1>1. HookInv => UndisturbedRecorded
  BY DEF HookInv, Quiet, Undisturbed, UndisturbedRecorded
<1> QED
  BY <1>1, HookInvariant, PTL

\* A reported change is against the status that a request of its call carries,
\* and that status differs from the one after the call.
THEOREM ChangesRequested == Spec => []ChangesMatchRequests
<1>1. HookInv => ChangesMatchRequests
  <2> SUFFICES ASSUME HookInv, NEW t \in Tools, NEW seq \in Changes(t)
               PROVE  /\ log[seq].before # log[seq].after
                      /\ \E request \in 1..(seq - 1) :
                           log[request].type = "tool.requested" /\ log[request].by.tool = t
                           /\ log[request].before = log[seq].before
    BY DEF ChangesMatchRequests
  <2>1. /\ seq \in DOMAIN log /\ log[seq].type = "workspace.changed"
        /\ log[seq].by.tool = t
    BY HookKinds DEF Changes, Recorded, Post
  <2>2. log[seq].before # log[seq].after /\ Asked(t, log[seq].before, seq)
    BY <2>1 DEF HookInv, Matching
  <2> QED
    BY <2>2 DEF Asked
<1> QED
  BY <1>1, HookInvariant, PTL

-----------------------------------------------------------------------------
(* What the ledger tells of the tools, and of the workspace.                 *)

Outcomes == {"tool.completed", "tool.failed"}
ToolEvents == Outcomes \cup {"tool.requested"}

\* The requests of a call in the ledger.
RequestsOf(t) == {seq \in DOMAIN log : log[seq].type = "tool.requested" /\ log[seq].by = Pre(t)}

\* The steps of a hook before its primary event is appended.
Early == {"head", "status", "view", "append"}

\* Events are of hooks that fired, and tell of a tool what it did; a call is requested
\* at most once, and before its outcome.
Told ==
  /\ \A seq \in DOMAIN log :
       /\ log[seq].type \notin {"run.created", "other"} => log[seq].by \in Hooks /\ Fired(log[seq].by)
       /\ log[seq].type \in ToolEvents => log[seq].type = PrimaryType(log[seq].by)
  /\ \A t \in Tools : \A s \in RequestsOf(t), q \in DOMAIN log :
       /\ q \in RequestsOf(t) => s = q
       /\ log[q].type \in Outcomes /\ log[q].by = Post(t) => s < q
  /\ \A h \in Hooks :
       /\ pc[h] \in Early /\ local[h].want = PrimaryType(h) =>
            \A seq \in DOMAIN log : ~(log[seq].by = h /\ log[seq].type = PrimaryType(h))
       /\ pc[h] \in {"await", "scan"} =>
            h.kind = "PostToolUse" /\ h.tool \in WorkspaceTools /\ local[h].want = "tool.completed"
       /\ pc[h] = "head" => local[h].want = PrimaryType(h)
       /\ pc[h] = "scan" => local[h].after # None
       /\ Running(h) /\ local[h].want = "checkpoint.created" => h = Stop

\* Of a call that ran alone, the statuses read before and after it, and those that are
\* recorded, are the ones the tool started and ended with.
Spanned(t) ==
  /\ \A u \in Tools : Busy(t) /\ Busy(u) => t = u
  /\ tool[t] = "asked" =>
       /\ Running(Pre(t)) => local[Pre(t)].before \in {None, tree}
       /\ \A seq \in RequestsOf(t) : log[seq].before \in {None, tree}
  /\ tool[t] # "asked" =>
       /\ \A seq \in RequestsOf(t) : log[seq].before \in {None, span[t].start}
       /\ ~Ended(Post(t)) => tree = span[t].end
       /\ Running(Post(t)) => local[Post(t)].after \in {None, span[t].end}
       /\ Running(Post(t)) /\ local[Post(t)].want = "workspace.changed" =>
            local[Post(t)].before = span[t].start /\ local[Post(t)].after = span[t].end
       /\ \A seq \in Changes(t) : log[seq].before = span[t].start /\ log[seq].after = span[t].end

Spans ==
  /\ span \in [Tools -> [start : Statuses, end : Statuses]]
  /\ \A t \in alone : Spanned(t)

\* PostToolUse of it returned, knows its primary event, and told of no error; its
\* request is near enough, and has a status.
Comparable(t) ==
  /\ pc[Post(t)] = "returned" /\ local[Post(t)].primary # 0
  /\ Post(t) \notin notices
  /\ \A seq \in DOMAIN log : log[seq].by = Post(t) => log[seq].type # "adapter.error"
  /\ \E seq \in RequestsOf(t) : log[seq].before # None /\ local[Post(t)].primary - seq <= MaxScan

\* Then a change that the tool made is recorded.
Reported(t) ==
  tool[t] = "ok" /\ span[t].start # span[t].end /\ Comparable(t) => Changes(t) # {}

TruthInv == Told /\ Spans /\ \A t \in WorkspaceTools \cap alone : Reported(t)

\* Events of tools are of their hooks.
LEMMA ToolEventsOf ==
  ASSUME Told, NEW seq \in DOMAIN log
  PROVE  /\ log[seq].type = "tool.requested" =>
              log[seq].by.tool \in Tools /\ log[seq].by = Pre(log[seq].by.tool) /\ Fired(log[seq].by)
         /\ log[seq].type \in Outcomes =>
              /\ log[seq].by.tool \in Tools /\ log[seq].by = Post(log[seq].by.tool) /\ Fired(log[seq].by)
              /\ log[seq].type = IF tool[log[seq].by.tool] = "ok" THEN "tool.completed" ELSE "tool.failed"
<1>1. log[seq].type \in ToolEvents =>
        log[seq].by \in Hooks /\ Fired(log[seq].by) /\ log[seq].type = PrimaryType(log[seq].by)
  BY DEF Told, ToolEvents, Outcomes
<1> QED
  BY <1>1, HookKinds, PrimaryTypes DEF ToolEvents, Outcomes

-----------------------------------------------------------------------------
(* A step of a hook process.                                                 *)

\* One hook goes to step x with locals y; it appends at most what it wanted to.
Tells(h, x, y) ==
  /\ UNCHANGED <<session, tool, tree, span, alone>>
  /\ pc' = [pc EXCEPT ![h] = x] /\ local' = [local EXCEPT ![h] = y]
  /\ log' = log \/ (pc[h] = "append" /\ log' = Append(log, Observation(h)))
  /\ notices \subseteq notices'

\* What it goes on with.
TellsOn(h, x, y) ==
  x \notin {"returned", "killed"} =>
    /\ x # "head"
    /\ x \in Early /\ y.want = PrimaryType(h) =>
         log' = log /\ pc[h] \in Early /\ local[h].want = PrimaryType(h)
    /\ x \in {"await", "scan"} =>
         h.kind = "PostToolUse" /\ h.tool \in WorkspaceTools /\ y.want = "tool.completed"
    /\ x = "scan" => y.after # None
    /\ y.want = "checkpoint.created" => h = Stop
    /\ h.kind = "PreToolUse" => y.before \in {local[h].before, tree}
    /\ h.kind = "PostToolUse" => y.after \in {local[h].after, tree}
    /\ y.want = "workspace.changed" =>
         \/ local[h].want = "workspace.changed" /\ y.before = local[h].before /\ y.after = local[h].after
         \/ /\ y.before # None /\ y.after # None
            /\ \E s \in DOMAIN log : /\ log[s].type = "tool.requested" /\ log[s].by.tool = h.tool
                                     /\ log[s].before = y.before

\* A PostToolUse hook returns with a change or an error appended, or when it found none.
TellsLast(h, x, y) ==
  x = "returned" /\ h.kind = "PostToolUse" /\ h.tool \in WorkspaceTools /\ tool[h.tool] = "ok" =>
    \/ y.primary = 0
    \/ h \in notices'
    \/ log' = Append(log, Observation(h)) /\ local[h].want \in {"adapter.error", "workspace.changed"}
    \/ /\ log' = log /\ pc[h] = "scan" /\ y.primary = local[h].primary
       /\ RequestedStatus(h, y.primary) \in {None, local[h].after}

\* What the step changes.
LEMMA StepChanges ==
  ASSUME TypeOK, NEW h \in Hooks, Running(h), NEW x \in Steps \ {"none"}, NEW y \in Locals, Tells(h, x, y)
  PROVE  /\ Len(log) \in Nat /\ DOMAIN log = 1..Len(log)
         /\ \A seq \in DOMAIN log : seq \in DOMAIN log' /\ log'[seq] = log[seq]
         /\ \A seq \in DOMAIN log' :
              \/ seq \in DOMAIN log
              \/ seq = Len(log) + 1 /\ log' # log /\ pc[h] = "append" /\ log'[seq] = Observation(h)
         /\ log' = Append(log, Observation(h)) => Len(log) + 1 \in DOMAIN log' /\ log'[Len(log) + 1] = Observation(h)
         /\ pc'[h] = x /\ local'[h] = y
         /\ \A g \in Hooks : g # h => pc'[g] = pc[g] /\ local'[g] = local[g]
         /\ \A g \in Hooks : /\ Fired(g)' <=> Fired(g)
                             /\ Ended(g) => Ended(g)'
                             /\ Running(g)' => Running(g)
                             /\ g # h => (Running(g)' <=> Running(g)) /\ (Ended(g)' <=> Ended(g))
                             /\ PrimaryType(g)' = PrimaryType(g)
         /\ \A t \in Tools : Busy(t)' => Busy(t)
<1>1. /\ pc'[h] = x /\ local'[h] = y /\ pc[h] \notin {"none", "returned", "killed"}
      /\ \A g \in Hooks : g # h => pc'[g] = pc[g] /\ local'[g] = local[g]
  BY DEF TypeOK, Running, Fired, Ended, Tells
<1>2. tool' = tool
  BY DEF Tells
<1>3. \A g \in Hooks : /\ Fired(g)' <=> Fired(g)
                       /\ Ended(g) => Ended(g)'
                       /\ Running(g)' => Running(g)
                       /\ g # h => (Running(g)' <=> Running(g)) /\ (Ended(g)' <=> Ended(g))
  BY <1>1 DEF Fired, Ended, Running, Steps
<1>4. \A g \in Hooks : PrimaryType(g)' = PrimaryType(g)
  BY <1>2 DEF PrimaryType, SessionStart, Stop
<1>5. \A t \in Tools : Busy(t)' => Busy(t)
  BY <1>3, HookKinds DEF Busy, Pre, Post
<1>6. Len(log) \in Nat /\ DOMAIN log = 1..Len(log)
  BY DEF TypeOK
<1>7. /\ \A seq \in DOMAIN log : seq \in DOMAIN log' /\ log'[seq] = log[seq]
      /\ \A seq \in DOMAIN log' :
           \/ seq \in DOMAIN log
           \/ seq = Len(log) + 1 /\ log' # log /\ pc[h] = "append" /\ log'[seq] = Observation(h)
      /\ log' = Append(log, Observation(h)) => Len(log) + 1 \in DOMAIN log' /\ log'[Len(log) + 1] = Observation(h)
  <2>1. CASE pc[h] = "append" /\ log' = Append(log, Observation(h))
    <3>1. /\ DOMAIN log' = 1..(Len(log) + 1) /\ \A seq \in 1..Len(log) : log'[seq] = log[seq]
          /\ log'[Len(log) + 1] = Observation(h) /\ Len(log') = Len(log) + 1
      BY <2>1, ObservationType, Appended
    <3>2. log' # log
      BY <1>6, <3>1
    <3>3. \A seq \in 1..(Len(log) + 1) : seq \in 1..Len(log) \/ seq = Len(log) + 1
      BY <1>6
    <3>4. Len(log) + 1 \in 1..(Len(log) + 1) /\ \A seq \in 1..Len(log) : seq \in 1..(Len(log) + 1)
      BY <1>6
    <3> QED
      BY <1>6, <2>1, <3>1, <3>2, <3>3, <3>4
  <2>2. CASE log' = log
    <3>1. log # Append(log, Observation(h))
      <4>1. Observation(h) \in Events
        BY ObservationType
      <4>2. Len(Append(log, Observation(h))) = Len(log) + 1
        BY <4>1 DEF TypeOK
      <4>3. PICK n \in Nat : n = Len(log)
        BY <1>6
      <4>4. n # n + 1
        BY <4>3
      <4> QED
        BY <4>2, <4>3, <4>4
    <3> QED
      BY <2>2, <3>1
  <2> QED
    BY <2>1, <2>2 DEF Tells
<1> QED
  BY <1>1, <1>3, <1>4, <1>5, <1>6, <1>7

\* What is told stays so.
LEMMA ToldSteps ==
  ASSUME HookInv, Told, NEW h \in Hooks, Running(h), NEW x \in Steps \ {"none"}, NEW y \in Locals,
         Tells(h, x, y), TellsOn(h, x, y)
  PROVE  /\ Told'
         /\ \A t \in Tools : h # Pre(t) => RequestsOf(t)' = RequestsOf(t)
         /\ \A t \in Tools : tool[t] # "asked" => h # Pre(t)
<1>1. TypeOK /\ Ordered /\ Primary(h)
  BY DEF HookInv
<1>2. /\ Len(log) \in Nat /\ DOMAIN log = 1..Len(log)
      /\ \A seq \in DOMAIN log : seq \in DOMAIN log' /\ log'[seq] = log[seq]
      /\ \A seq \in DOMAIN log' :
           \/ seq \in DOMAIN log
           \/ seq = Len(log) + 1 /\ log' # log /\ pc[h] = "append" /\ log'[seq] = Observation(h)
      /\ pc'[h] = x /\ local'[h] = y
      /\ \A g \in Hooks : g # h => pc'[g] = pc[g] /\ local'[g] = local[g]
      /\ \A g \in Hooks : /\ Fired(g)' <=> Fired(g)
                          /\ Running(g)' => Running(g)
                          /\ PrimaryType(g)' = PrimaryType(g)
  BY <1>1, StepChanges
<1>3. Observation(h).type = local[h].want /\ Observation(h).by = h
  BY <1>1, ObservationType
<1>4. local[h].want \in {PrimaryType(h), "adapter.error", "checkpoint.created", "workspace.changed"} /\ Fired(h)
  BY <1>1 DEF Primary, Running
<1>5. \A t \in Tools : tool[t] # "asked" => h # Pre(t)
  BY <1>1 DEF Ordered, Running
<1>6. ASSUME NEW t \in Tools, h # Pre(t) PROVE RequestsOf(t)' = RequestsOf(t)
  BY <1>2, <1>3, <1>6, HookKinds DEF RequestsOf
<1>7. ASSUME NEW seq \in DOMAIN log'
      PROVE  /\ log'[seq].type \notin {"run.created", "other"} => log'[seq].by \in Hooks /\ Fired(log[seq].by)'
             /\ log'[seq].type \in ToolEvents => log'[seq].type = PrimaryType(log[seq].by)'
  <2>1. PICK by : by = log'[seq].by
    OBVIOUS
  <2>2. CASE seq \in DOMAIN log
    <3>1. log'[seq] = log[seq]
      BY <1>2, <2>2
    <3>2. log[seq].type \in ToolEvents => log[seq].type \notin {"run.created", "other"}
      BY DEF ToolEvents, Outcomes
    <3>3. /\ log[seq].type \notin {"run.created", "other"} => by \in Hooks /\ Fired(by)
          /\ log[seq].type \in ToolEvents => log[seq].type = PrimaryType(by) /\ by \in Hooks
      BY <2>1, <2>2, <3>1, <3>2 DEF Told
    <3>4. by \in Hooks => (Fired(by)' <=> Fired(by)) /\ PrimaryType(by)' = PrimaryType(by)
      BY <1>2
    <3>5. (Fired(by)' <=> Fired(log[seq].by)') /\ PrimaryType(by)' = PrimaryType(log[seq].by)'
      BY <2>1 DEF Fired, PrimaryType, SessionStart, Stop
    <3> QED
      BY <2>1, <3>1, <3>3, <3>4, <3>5
  <2>3. CASE log'[seq] = Observation(h)
    <3>1. by = h /\ log'[seq].type = local[h].want
      BY <1>3, <2>1, <2>3
    <3>2. (Fired(by)' <=> Fired(log[seq].by)') /\ PrimaryType(by)' = PrimaryType(log[seq].by)'
      BY <2>1 DEF Fired, PrimaryType, SessionStart, Stop
    <3>3. local[h].want \in ToolEvents => local[h].want = PrimaryType(h)
      BY <1>4 DEF ToolEvents, Outcomes
    <3>4. Fired(h)' /\ PrimaryType(h)' = PrimaryType(h)
      BY <1>2, <1>4
    <3> QED
      BY <2>1, <3>1, <3>2, <3>3, <3>4
  <2> QED
    BY <1>2, <2>2, <2>3
<1>8. ASSUME NEW t \in Tools, NEW s \in RequestsOf(t)', NEW q \in DOMAIN log'
      PROVE  /\ q \in RequestsOf(t)' => s = q
             /\ log'[q].type \in Outcomes /\ log'[q].by = Post(t) => s < q
  <2>1. s \in DOMAIN log' /\ log'[s].type = "tool.requested" /\ log'[s].by = Pre(t)
    BY <1>8 DEF RequestsOf, Pre
  <2>2. q \in RequestsOf(t)' => log'[q].type = "tool.requested" /\ log'[q].by = Pre(t)
    BY DEF RequestsOf, Pre
  <2>3. h = Pre(t) /\ local[h].want = "tool.requested" /\ pc[h] = "append" =>
          /\ \A seq \in DOMAIN log : ~(log[seq].by = h /\ log[seq].type = "tool.requested")
          /\ ~Fired(Post(t))
    BY <1>1, PrimaryTypes DEF Told, Early, Ordered, Running
  <2>4. CASE s \in DOMAIN log /\ q \in DOMAIN log
    <3>1. s \in RequestsOf(t) /\ log'[q] = log[q] /\ (q \in RequestsOf(t)' => q \in RequestsOf(t))
      BY <1>2, <2>1, <2>2, <2>4 DEF RequestsOf
    <3> QED
      BY <2>4, <3>1 DEF Told
  <2>5. CASE s \in DOMAIN log /\ q = Len(log) + 1 /\ pc[h] = "append" /\ log'[q] = Observation(h)
    <3>1. s < q /\ log[s].type = "tool.requested" /\ log[s].by = Pre(t)
      BY <1>2, <2>1, <2>5
    <3>2. q \notin RequestsOf(t)'
      BY <1>3, <2>2, <2>3, <2>5, <3>1
    <3> QED
      BY <3>1, <3>2
  <2>6. CASE s = Len(log) + 1 /\ pc[h] = "append" /\ log'[s] = Observation(h) /\ q \in DOMAIN log
    <3>1. h = Pre(t) /\ local[h].want = "tool.requested" /\ log'[q] = log[q]
      BY <1>2, <1>3, <2>1, <2>6
    <3>2. q \notin RequestsOf(t)'
      BY <2>2, <2>3, <2>6, <3>1
    <3>3. log[q].type \in Outcomes /\ log[q].by = Post(t) => Fired(Post(t))
      BY <2>6, ToolEventsOf DEF Outcomes
    <3> QED
      BY <2>3, <2>6, <3>1, <3>2, <3>3
  <2>7. CASE s = Len(log) + 1 /\ q = s
    BY <2>1, <2>7 DEF Outcomes
  <2> QED
    BY <1>2, <2>1, <2>4, <2>5, <2>6, <2>7
<1>9. ASSUME NEW g \in Hooks
      PROVE  /\ pc'[g] \in Early /\ local'[g].want = PrimaryType(g)' =>
                  \A seq \in DOMAIN log' : ~(log'[seq].by = g /\ log'[seq].type = PrimaryType(g)')
             /\ pc'[g] \in {"await", "scan"} =>
                  g.kind = "PostToolUse" /\ g.tool \in WorkspaceTools /\ local'[g].want = "tool.completed"
             /\ pc'[g] = "head" => local'[g].want = PrimaryType(g)'
             /\ pc'[g] = "scan" => local'[g].after # None
             /\ Running(g)' /\ local'[g].want = "checkpoint.created" => g = Stop
  <2>1. PrimaryType(g)' = PrimaryType(g) /\ (Running(g)' => Running(g))
    BY <1>2
  <2>2. CASE g # h
    <3>1. pc'[g] = pc[g] /\ local'[g] = local[g]
      BY <1>2, <2>2
    <3>2. \A seq \in DOMAIN log' : log'[seq].by = g => seq \in DOMAIN log /\ log'[seq] = log[seq]
      BY <1>2, <1>3, <2>2
    <3> QED
      BY <2>1, <3>1, <3>2 DEF Told
  <2>3. CASE g = h
    <3>1. x \in Early => x \notin {"returned", "killed"}
      BY DEF Early
    <3>2. Running(h)' => x \notin {"returned", "killed"}
      BY <1>2 DEF Running, Ended
    <3> QED
      BY <1>2, <2>1, <2>3, <3>1, <3>2 DEF Told, TellsOn
  <2> QED
    BY <2>2, <2>3
<1>10. Told'
  <2> HIDE DEF ToolEvents, Outcomes, Early
  <2> QED
    BY <1>7, <1>8, <1>9 DEF Told
<1> QED
  BY <1>5, <1>6, <1>10

\* The statuses of a call that ran alone stay those that its tool started and ended with.
LEMMA SpanSteps ==
  ASSUME HookInv, Told, NEW t \in alone, Spanned(t), NEW h \in Hooks, Running(h),
         NEW x \in Steps \ {"none"}, NEW y \in Locals, Tells(h, x, y), TellsOn(h, x, y)
  PROVE  Spanned(t)'
<1>1. TypeOK /\ Ordered /\ Primary(h) /\ t \in Tools
  BY DEF HookInv, TypeOK
<1>2. /\ \A seq \in DOMAIN log : seq \in DOMAIN log' /\ log'[seq] = log[seq]
      /\ \A seq \in DOMAIN log' :
           \/ seq \in DOMAIN log
           \/ seq = Len(log) + 1 /\ log' # log /\ pc[h] = "append" /\ log'[seq] = Observation(h)
      /\ pc'[h] = x /\ local'[h] = y
      /\ \A g \in Hooks : g # h => pc'[g] = pc[g] /\ local'[g] = local[g]
      /\ \A g \in Hooks : (Ended(g) => Ended(g)') /\ (Running(g)' => Running(g))
      /\ \A u \in Tools : Busy(u)' => Busy(u)
  BY <1>1, StepChanges
<1>3. /\ Observation(h).type = local[h].want /\ Observation(h).by = h
      /\ local[h].want = "workspace.changed" =>
           Observation(h).before = local[h].before /\ Observation(h).after = local[h].after
      /\ local[h].want = "tool.requested" => Observation(h).before = local[h].before
  BY <1>1, ObservationType DEF Observation
<1>4. UNCHANGED <<tool, tree, span>>
  BY DEF Tells
<1>5. /\ Pre(t) \in Hooks /\ Pre(t).kind = "PreToolUse" /\ Post(t) \in Hooks /\ Post(t).kind = "PostToolUse"
      /\ Post(t).tool = t /\ Pre(t) # Post(t)
  BY <1>1, HookKinds
<1>6. \A u \in Tools : Busy(t)' /\ Busy(u)' => t = u
  BY <1>1, <1>2 DEF Spanned
<1>7. Running(h)' => x \notin {"returned", "killed"}
  BY <1>2 DEF Running, Ended
<1>8. ASSUME tool[t] = "asked"
      PROVE  /\ Running(Pre(t))' => local'[Pre(t)].before \in {None, tree}
             /\ \A seq \in RequestsOf(t)' : log'[seq].before \in {None, tree}
  <2>1. Running(Pre(t)) => local[Pre(t)].before \in {None, tree}
    BY <1>8 DEF Spanned
  <2>2. Running(Pre(t))' => local'[Pre(t)].before \in {None, tree}
    <3>1. CASE h = Pre(t)
      <4>1. Running(h)' => y.before \in {local[h].before, tree}
        BY <1>5, <1>7, <3>1 DEF TellsOn
      <4> QED
        BY <1>2, <2>1, <3>1, <4>1
    <3>2. CASE h # Pre(t)
      BY <1>2, <1>5, <2>1, <3>2
    <3> QED
      BY <3>1, <3>2
  <2>3. ASSUME NEW seq \in RequestsOf(t)' PROVE log'[seq].before \in {None, tree}
    <3>1. seq \in DOMAIN log' /\ log'[seq].type = "tool.requested" /\ log'[seq].by = Pre(t)
      BY <2>3 DEF RequestsOf, Pre
    <3>2. CASE seq \in DOMAIN log
      BY <1>2, <1>8, <3>1, <3>2 DEF Spanned, RequestsOf
    <3>3. CASE log'[seq] = Observation(h)
      BY <1>3, <2>1, <3>1, <3>3
    <3> QED
      BY <1>2, <3>1, <3>2, <3>3
  <2> QED
    BY <2>2, <2>3
<1>9. ASSUME tool[t] # "asked"
      PROVE  /\ \A seq \in RequestsOf(t)' : log'[seq].before \in {None, span[t].start}
             /\ ~Ended(Post(t))' => tree = span[t].end
             /\ Running(Post(t))' => local'[Post(t)].after \in {None, span[t].end}
             /\ Running(Post(t))' /\ local'[Post(t)].want = "workspace.changed" =>
                  local'[Post(t)].before = span[t].start /\ local'[Post(t)].after = span[t].end
             /\ \A seq \in Changes(t)' : log'[seq].before = span[t].start /\ log'[seq].after = span[t].end
  <2>1. /\ \A seq \in RequestsOf(t) : log[seq].before \in {None, span[t].start}
        /\ ~Ended(Post(t)) => tree = span[t].end
        /\ Running(Post(t)) => local[Post(t)].after \in {None, span[t].end}
        /\ Running(Post(t)) /\ local[Post(t)].want = "workspace.changed" =>
             local[Post(t)].before = span[t].start /\ local[Post(t)].after = span[t].end
        /\ \A seq \in Changes(t) : log[seq].before = span[t].start /\ log[seq].after = span[t].end
    BY <1>9 DEF Spanned
  <2>2. RequestsOf(t)' = RequestsOf(t) /\ \A seq \in RequestsOf(t) : log'[seq] = log[seq]
    <3>1. h # Pre(t)
      BY <1>1, <1>9, ToldSteps
    <3> QED
      BY <1>1, <1>2, <3>1, ToldSteps DEF RequestsOf
  <2>3. \A seq \in RequestsOf(t)' : log'[seq].before \in {None, span[t].start}
    BY <2>1, <2>2
  <2>4. ~Ended(Post(t))' => tree = span[t].end
    BY <1>2, <1>5, <2>1
  <2>5. Running(Post(t)) => ~Ended(Post(t))
    BY DEF Running
  <2>6. CASE h # Post(t)
    <3>1. pc'[Post(t)] = pc[Post(t)] /\ local'[Post(t)] = local[Post(t)] /\ (Running(Post(t))' => Running(Post(t)))
      BY <1>2, <1>5, <2>6
    <3>2. \A seq \in Changes(t)' : seq \in Changes(t) /\ log'[seq] = log[seq]
      BY <1>2, <1>3, <2>6 DEF Changes, Recorded, Post
    <3> QED
      BY <2>1, <2>3, <2>4, <3>1, <3>2
  <2>7. CASE h = Post(t)
    <3>1. Running(h)' => y.after \in {local[h].after, tree}
      BY <1>5, <1>7, <2>7 DEF TellsOn
    <3>2. Running(Post(t))' => local'[Post(t)].after \in {None, span[t].end}
      BY <1>2, <2>1, <2>5, <2>7, <3>1
    <3>3. ASSUME Running(h)', y.want = "workspace.changed"
          PROVE  y.before = span[t].start /\ y.after = span[t].end
      <4>1. CASE local[h].want = "workspace.changed" /\ y.before = local[h].before /\ y.after = local[h].after
        BY <2>1, <2>7, <4>1
      <4>2. CASE /\ y.before # None /\ y.after # None
                 /\ \E s \in DOMAIN log : /\ log[s].type = "tool.requested" /\ log[s].by.tool = h.tool
                                          /\ log[s].before = y.before
        <5>1. PICK s \in DOMAIN log : /\ log[s].type = "tool.requested" /\ log[s].by.tool = h.tool
                                      /\ log[s].before = y.before
          BY <4>2
        <5>2. s \in RequestsOf(t)
          BY <1>5, <2>7, <5>1, ToolEventsOf DEF RequestsOf
        <5> QED
          BY <1>2, <2>1, <2>7, <3>2, <3>3, <4>2, <5>1, <5>2
      <4> QED
        BY <1>7, <3>3, <4>1, <4>2 DEF TellsOn
    <3>4. ASSUME NEW seq \in Changes(t)'
          PROVE  log'[seq].before = span[t].start /\ log'[seq].after = span[t].end
      <4>1. seq \in DOMAIN log' /\ log'[seq].type = "workspace.changed" /\ log'[seq].by = Post(t)
        BY <3>4 DEF Changes, Recorded, Post
      <4>2. CASE seq \in DOMAIN log
        <5>1. log'[seq] = log[seq] /\ seq \in Changes(t)
          BY <1>2, <4>1, <4>2 DEF Changes, Recorded, Post
        <5> QED
          BY <2>1, <5>1
      <4>3. CASE log'[seq] = Observation(h)
        BY <1>3, <2>1, <2>7, <4>1, <4>3
      <4> QED
        BY <1>2, <4>1, <4>2, <4>3
    <3>5. Running(Post(t))' /\ local'[Post(t)].want = "workspace.changed" =>
            local'[Post(t)].before = span[t].start /\ local'[Post(t)].after = span[t].end
      BY <1>2, <2>7, <3>3
    <3> QED
      BY <2>3, <2>4, <3>2, <3>4, <3>5
  <2> QED
    BY <2>6, <2>7
<1> QED
  BY <1>4, <1>6, <1>8, <1>9, Zenon DEF Spanned, Pre, Post

\* A change that the tool of such a call made stays recorded.
LEMMA ReportSteps ==
  ASSUME HookInv, Told, NEW t \in WorkspaceTools \cap alone, Spanned(t), Reported(t), NEW h \in Hooks, Running(h),
         NEW x \in Steps \ {"none"}, NEW y \in Locals, Tells(h, x, y), TellsOn(h, x, y), TellsLast(h, x, y)
  PROVE  Reported(t)'
<1>1. TypeOK /\ Ordered /\ Primary(h) /\ t \in Tools
  BY DEF HookInv, TypeOK
<1>2. /\ \A seq \in DOMAIN log : seq \in DOMAIN log' /\ log'[seq] = log[seq]
      /\ log' = Append(log, Observation(h)) => Len(log) + 1 \in DOMAIN log' /\ log'[Len(log) + 1] = Observation(h)
      /\ pc'[h] = x /\ local'[h] = y
      /\ \A g \in Hooks : g # h => pc'[g] = pc[g] /\ local'[g] = local[g]
      /\ Len(log) \in Nat /\ DOMAIN log = 1..Len(log)
  BY <1>1, StepChanges
<1>3. Observation(h).type = local[h].want /\ Observation(h).by = h
  BY <1>1, ObservationType
<1>4. UNCHANGED <<tool, span>> /\ notices \subseteq notices'
  BY DEF Tells
<1>5. Post(t) \in Hooks /\ Post(t).kind = "PostToolUse" /\ Post(t).tool = t
  BY <1>1, HookKinds
<1> SUFFICES ASSUME tool[t] = "ok", span[t].start # span[t].end, Comparable(t)' PROVE Changes(t)' # {}
  BY <1>4 DEF Reported
<1>6. /\ pc'[Post(t)] = "returned" /\ local'[Post(t)].primary # 0
      /\ Post(t) \notin notices'
      /\ \A seq \in DOMAIN log' : log'[seq].by = Post(t) => log'[seq].type # "adapter.error"
      /\ \E seq \in RequestsOf(t)' : log'[seq].before # None /\ local'[Post(t)].primary - seq <= MaxScan
  BY DEF Comparable, Post
<1>7. RequestsOf(t)' = RequestsOf(t) /\ \A seq \in RequestsOf(t) : log'[seq] = log[seq]
  <2>1. h # Pre(t)
    BY <1>1, ToldSteps
  <2> QED
    BY <1>1, <1>2, <2>1, ToldSteps DEF RequestsOf
<1>8. \A seq \in Changes(t) : seq \in Changes(t)'
  BY <1>2 DEF Changes, Recorded, Post
<1>9. CASE h # Post(t)
  <2>1. Comparable(t)
    BY <1>2, <1>4, <1>5, <1>6, <1>7, <1>9 DEF Comparable
  <2> QED
    BY <1>8, <2>1 DEF Reported
<1>10. CASE h = Post(t)
  <2>1. x = "returned" /\ y.primary # 0 /\ h \notin notices'
    BY <1>2, <1>6, <1>10
  <2>2. \/ log' = Append(log, Observation(h)) /\ local[h].want \in {"adapter.error", "workspace.changed"}
        \/ /\ log' = log /\ pc[h] = "scan" /\ y.primary = local[h].primary
           /\ RequestedStatus(h, y.primary) \in {None, local[h].after}
    BY <1>5, <1>10, <2>1 DEF TellsLast
  <2>3. CASE log' = Append(log, Observation(h)) /\ local[h].want \in {"adapter.error", "workspace.changed"}
    <3>1. PICK seq \in DOMAIN log' : log'[seq].by = Post(t) /\ log'[seq].type = local[h].want
      BY <1>2, <1>3, <1>10, <2>3
    <3>2. log'[seq].type = "workspace.changed"
      BY <1>6, <2>3, <3>1
    <3> QED
      BY <3>1, <3>2 DEF Changes, Recorded, Post
  <2>4. CASE /\ log' = log /\ pc[h] = "scan" /\ y.primary = local[h].primary
             /\ RequestedStatus(h, y.primary) \in {None, local[h].after}
    <3>1. PICK s \in RequestsOf(t) : log[s].before # None /\ y.primary - s <= MaxScan
      BY <1>2, <1>6, <1>7, <1>10
    <3>2. y.primary \in Acks(h)
      BY <1>1, <2>1, <2>4 DEF Primary
    <3>3. PrimaryType(h) = "tool.completed"
      BY <1>1, <1>10, PrimaryTypes
    <3>4. y.primary \in 1..Len(log) /\ log[y.primary].by = Post(t) /\ log[y.primary].type \in Outcomes
      BY <1>1, <1>10, <3>2, <3>3 DEF Acks, TypeOK, Outcomes
    <3>5. s < y.primary /\ s \in 1..Len(log)
      BY <1>1, <1>2, <3>4 DEF Told, RequestsOf
    <3>6. s \in Scanned(y.primary)
      <4>1. MaxScan \in Nat
        BY HookAdapterAssumption
      <4> QED
        BY <1>2, <3>1, <3>4, <3>5, <4>1 DEF Scanned
    <3>7. Requests(h, Scanned(y.primary)) = {s}
      <4>1. s \in Requests(h, Scanned(y.primary))
        BY <1>1, <1>5, <1>10, <3>6, HookKinds DEF Requests, RequestsOf
      <4>2. ASSUME NEW q \in Requests(h, Scanned(y.primary)) PROVE q = s
        <5>1. q \in DOMAIN log /\ log[q].type = "tool.requested" /\ log[q].by.tool = t
          BY <1>2, <1>5, <1>10, <3>4, <4>2 DEF Requests, Scanned
        <5>2. q \in RequestsOf(t)
          BY <5>1, ToolEventsOf DEF RequestsOf
        <5> QED
          BY <1>1, <5>1, <5>2 DEF Told
      <4> QED
        BY <4>1, <4>2
    <3>8. RequestedStatus(h, y.primary) = log[s].before
      <4>1. (CHOOSE q \in {s} : \A other \in {s} : other <= q) = s
        <5>1. s <= s
          BY <3>5
        <5> QED
          BY <5>1
      <4> QED
        BY <3>7, <4>1 DEF RequestedStatus
    <3>9. local[h].after # None /\ local[h].after \in {None, span[t].end} /\ log[s].before \in {None, span[t].start}
      BY <1>10, <2>4 DEF Told, Spanned
    <3> QED
      BY <2>4, <3>1, <3>8, <3>9
  <2> QED
    BY <2>2, <2>3, <2>4
<1> QED
  BY <1>9, <1>10

\* A step of a hook process keeps what is told true.
LEMMA TruthSteps ==
  ASSUME HookInv, TruthInv, NEW h \in Hooks, Running(h), NEW x \in Steps \ {"none"}, NEW y \in Locals,
         Tells(h, x, y), TellsOn(h, x, y), TellsLast(h, x, y)
  PROVE  TruthInv'
<1>1. Told /\ Spans /\ UNCHANGED <<span, alone>>
  BY DEF TruthInv, Tells
<1>2. Told'
  BY <1>1, ToldSteps
<1>3. \A t \in alone : Spanned(t)'
  BY <1>1, SpanSteps DEF Spans
<1>4. \A t \in WorkspaceTools \cap alone : Reported(t)'
  BY <1>1, ReportSteps DEF Spans, TruthInv
<1>5. Spans'
  BY <1>1, <1>3 DEF Spans
<1> QED
  BY <1>1, <1>2, <1>4, <1>5 DEF TruthInv

\* A hook that goes on at the view with another event to append.
LEMMA WantsTruly ==
  ASSUME HookInv, TruthInv, NEW h \in Hooks, Running(h), NEW y \in Locals, Tells(h, "view", y),
         y.want # PrimaryType(h), y.want = "checkpoint.created" => h = Stop,
         y.want # "workspace.changed", y.before = local[h].before, y.after = local[h].after
  PROVE  TruthInv'
<1>1. TellsOn(h, "view", y) /\ TellsLast(h, "view", y)
  BY DEF TellsOn, TellsLast
<1> QED
  BY <1>1, TruthSteps DEF Steps

\* A hook that goes on with the same event.
LEMMA KeepsTruly ==
  ASSUME HookInv, TruthInv, NEW h \in Hooks, Running(h), NEW x \in {"view", "append"}, NEW y \in Locals,
         Tells(h, x, y), pc[h] \in Early, log' = log,
         y.want = local[h].want, y.after = local[h].after,
         y.before = local[h].before \/ (y.before = tree /\ y.want # "workspace.changed")
  PROVE  TruthInv'
<1>1. y.want = "checkpoint.created" => h = Stop
  BY DEF TruthInv, Told
<1>2. TellsOn(h, x, y) /\ TellsLast(h, x, y)
  BY <1>1 DEF TellsOn, TellsLast
<1> QED
  BY <1>2, TruthSteps DEF Steps

\* A SessionStart hook reads the head of the ledger.
LEMMA ReadHeadTrue ==
  ASSUME HookInv, TruthInv, NEW h \in Hooks, ReadHead(h)
  PROVE  TruthInv'
<1>1. /\ pc[h] = "head" /\ Running(h) /\ log' = log /\ notices' = notices
      /\ UNCHANGED <<session, tool, tree, span, alone>>
  BY DEF ReadHead, world, Running, Fired, Ended
<1>2. Primary(h) /\ local[h] \in Locals /\ h.kind = "SessionStart"
  BY <1>1, RunningHook DEF Primary
<1>3. local[h].want = PrimaryType(h) /\ PrimaryType(h) = "agent.started"
  BY <1>1, <1>2, HookKinds, PrimaryTypes DEF TruthInv, Told
<1>4. CASE Return(h, 1, local[h])
  <2>1. PICK y : y = [NewLocal EXCEPT !.primary = local[h].primary, !.result = 1]
    OBVIOUS
  <2>2. y \in Locals
    BY <1>2, <2>1 DEF Locals, NewLocal, EventTypes, Statuses
  <2>3. Tells(h, "returned", y)
    BY <1>1, <1>4, <2>1 DEF Tells, Return
  <2>4. TellsOn(h, "returned", y) /\ TellsLast(h, "returned", y)
    BY <1>2 DEF TellsOn, TellsLast
  <2> QED
    BY <1>1, <2>2, <2>3, <2>4, TruthSteps DEF Steps
<1>5. CASE Want(h, "agent.started", local[h])
  <2>1. PICK y : y = [local[h] EXCEPT !.want = "agent.started", !.viewed = 0]
    OBVIOUS
  <2>2. y \in Locals /\ y.want = "agent.started" /\ y.before = local[h].before /\ y.after = local[h].after
    BY <1>2, <2>1 DEF Locals, EventTypes
  <2>3. Tells(h, "view", y)
    BY <1>1, <1>5, <2>1 DEF Tells, Want
  <2> QED
    BY <1>1, <1>3, <2>2, <2>3, KeepsTruly DEF Early
<1> QED
  BY <1>4, <1>5 DEF ReadHead

\* PreToolUse reads the status.
LEMMA ReadBeforeTrue ==
  ASSUME HookInv, TruthInv, NEW h \in Hooks, ReadBefore(h)
  PROVE  TruthInv'
<1>1. /\ pc[h] = "status" /\ Running(h) /\ pc' = [pc EXCEPT ![h] = "view"] /\ log' = log /\ notices' = notices
      /\ UNCHANGED <<session, tool, tree, span, alone>>
  BY DEF ReadBefore, store, world, Running, Fired, Ended
<1>2. TypeOK /\ Primary(h) /\ local[h] \in Locals /\ tree \in Statuses /\ local[h].want = PrimaryType(h)
  BY <1>1, RunningHook DEF Primary
<1>3. PICK y : /\ local' = [local EXCEPT ![h] = y]
               /\ y = [local[h] EXCEPT !.before = tree] \/ y = [local[h] EXCEPT !.unread = TRUE]
  BY <1>2 DEF ReadBefore, TypeOK
<1>4. /\ y \in Locals /\ y.want = local[h].want /\ y.after = local[h].after
      /\ y.before = local[h].before \/ y.before = tree
  BY <1>2, <1>3 DEF Locals
<1>5. Tells(h, "view", y)
  BY <1>1, <1>3 DEF Tells
<1>6. PrimaryType(h) # "workspace.changed"
  BY PrimaryIsNoFurther
<1> QED
  BY <1>1, <1>2, <1>4, <1>5, <1>6, KeepsTruly DEF Early

\* PostToolUse reads the status, at whatever step it is.
LEMMA ReadAfterTrue ==
  ASSUME HookInv, TruthInv, NEW h \in Hooks, ReadAfter(h)
  PROVE  TruthInv'
<1>1. /\ Running(h) /\ log' = log /\ notices' = notices /\ pc' = pc
      /\ h.kind = "PostToolUse" /\ h.tool \in WorkspaceTools /\ local[h].want = "tool.completed"
      /\ local[h].after = None
      /\ UNCHANGED <<session, tool, tree, span, alone>>
  BY DEF ReadAfter, ReadsAfter, store, world
<1>2. TypeOK /\ local[h] \in Locals /\ tree \in Statuses /\ pc[h] \in Steps
  BY RunningHook
<1>3. PICK y : /\ local' = [local EXCEPT ![h] = y]
               /\ y = [local[h] EXCEPT !.after = tree] \/ y = [local[h] EXCEPT !.unread = TRUE]
  BY <1>2 DEF ReadAfter, TypeOK
<1>4. /\ y \in Locals /\ y.want = "tool.completed" /\ y.before = local[h].before
      /\ y.after \in {local[h].after, tree}
  BY <1>1, <1>2, <1>3 DEF Locals
<1>5. pc[h] \notin {"none", "returned", "killed"} /\ pc[h] # "scan"
  BY <1>1 DEF Running, Fired, Ended, TruthInv, Told
<1>6. PICK x : x = pc[h]
  OBVIOUS
<1>7. Tells(h, x, y)
  BY <1>1, <1>2, <1>3, <1>6 DEF Tells, TypeOK
<1>8. x # "head"
  <2>1. pc[h] = "head" => h.kind = "SessionStart"
    BY RunningHook DEF Primary
  <2> QED
    BY <1>1, <1>6, <2>1
<1>9. TellsOn(h, x, y) /\ TellsLast(h, x, y)
  BY <1>1, <1>4, <1>5, <1>6, <1>7, <1>8 DEF TellsOn, TellsLast
<1> QED
  BY <1>1, <1>2, <1>4, <1>5, <1>6, <1>7, <1>9, TruthSteps

\* An error is appended instead, or after the primary event.
LEMMA ErrsTruly ==
  ASSUME HookInv, TruthInv, NEW h \in Hooks, Running(h), Want(h, "adapter.error", local[h]),
         UNCHANGED <<session, tool, tree, span, alone>>,
         log' = log \/ (pc[h] = "append" /\ log' = Append(log, Observation(h))),
         notices \subseteq notices'
  PROVE  TruthInv'
<1>1. local[h] \in Locals
  BY RunningHook
<1>2. PICK y : y = [local[h] EXCEPT !.want = "adapter.error", !.viewed = 0]
  OBVIOUS
<1>3. y \in Locals /\ y.want = "adapter.error" /\ y.before = local[h].before /\ y.after = local[h].after
  BY <1>1, <1>2 DEF Locals, EventTypes
<1>4. Tells(h, "view", y)
  BY <1>2 DEF Tells, Want
<1> QED
  BY <1>3, <1>4, WantsTruly, PrimaryIsNoFurther

\* An append throws.
LEMMA ThrownTrue ==
  ASSUME HookInv, TruthInv, NEW h \in Hooks, Running(h), Throw(h),
         UNCHANGED <<session, tool, tree, span, alone>>,
         log' = log \/ (pc[h] = "append" /\ log' = Append(log, Observation(h)))
  PROVE  TruthInv'
<1>1. CASE Return(h, local[h].primary, local[h]) /\ notices' = notices \cup {h}
  <2>1. local[h] \in Locals
    BY RunningHook
  <2>2. PICK y : y = [NewLocal EXCEPT !.primary = local[h].primary, !.result = local[h].primary]
    OBVIOUS
  <2>3. y \in Locals
    BY <2>1, <2>2 DEF Locals, NewLocal, EventTypes, Statuses
  <2>4. Tells(h, "returned", y)
    BY <1>1, <2>2 DEF Tells, Return
  <2>5. TellsOn(h, "returned", y) /\ TellsLast(h, "returned", y)
    BY <1>1 DEF TellsOn, TellsLast
  <2> QED
    BY <2>3, <2>4, <2>5, TruthSteps DEF Steps
<1>2. CASE Want(h, "adapter.error", local[h]) /\ UNCHANGED notices
  BY <1>2, ErrsTruly
<1> QED
  BY <1>1, <1>2 DEF Throw

\* A status that could not be read is an error; one that could is compared.
LEMMA AwaitedTrue ==
  ASSUME HookInv, TruthInv, NEW h \in Hooks, Awaited(h)
  PROVE  TruthInv'
<1>1. /\ pc[h] = "await" /\ Running(h) /\ log' = log /\ notices' = notices
      /\ UNCHANGED <<session, tool, tree, span, alone>>
  BY DEF Awaited, store, world, Running, Fired, Ended
<1>2. CASE Want(h, "adapter.error", local[h])
  BY <1>1, <1>2, ErrsTruly
<1>3. CASE local[h].after # None /\ pc' = [pc EXCEPT ![h] = "scan"] /\ UNCHANGED local
  <2>1. TypeOK /\ local[h] \in Locals
    BY RunningHook
  <2>2. PICK y : y = local[h]
    OBVIOUS
  <2>3. Tells(h, "scan", y)
    BY <1>1, <1>3, <2>1, <2>2 DEF Tells, TypeOK
  <2>4. h.kind = "PostToolUse" /\ h.tool \in WorkspaceTools /\ local[h].want = "tool.completed"
    BY <1>1 DEF TruthInv, Told
  <2>5. TellsOn(h, "scan", y) /\ TellsLast(h, "scan", y)
    BY <1>3, <2>2, <2>4 DEF TellsOn, TellsLast, Early
  <2> QED
    BY <1>1, <2>1, <2>2, <2>3, <2>5, TruthSteps DEF Steps
<1> QED
  BY <1>2, <1>3 DEF Awaited

\* PostToolUse compares the status with the one its request asked about.
LEMMA ScanTrue ==
  ASSUME HookInv, TruthInv, NEW h \in Hooks, Scan(h)
  PROVE  TruthInv'
<1>1. /\ pc[h] = "scan" /\ Running(h) /\ log' = log /\ notices' = notices
      /\ UNCHANGED <<session, tool, tree, span, alone>>
  BY DEF Scan, world, Running, Fired, Ended
<1>2. TypeOK /\ Primary(h) /\ local[h] \in Locals /\ Len(log) \in Nat /\ Acks(h) \subseteq 1..Len(log)
  BY RunningHook
<1>3. h.kind = "PostToolUse" /\ local[h].want = "tool.completed" /\ local[h].after # None
  BY <1>1 DEF TruthInv, Told
<1>4. local[h].primary \in 1..Len(log)
  BY <1>1, <1>2 DEF Primary
<1>5. PICK before : before = RequestedStatus(h, local[h].primary)
  OBVIOUS
<1>6. CASE before # None /\ before # local[h].after /\ Want(h, "workspace.changed", [local[h] EXCEPT !.before = before])
  <2>1. Asked(h.tool, before, Len(log) + 1)
    BY <1>2, <1>4, <1>5, <1>6, Requested
  <2>2. PICK s \in 1..((Len(log) + 1) - 1) :
          log[s].type = "tool.requested" /\ log[s].by.tool = h.tool /\ log[s].before = before
    BY <2>1 DEF Asked
  <2>3. s \in DOMAIN log
    BY <1>2, <2>2 DEF TypeOK
  <2>4. before \in Statuses
    <3>1. log[s] \in Events
      BY <1>2, <2>3 DEF TypeOK
    <3> QED
      BY <2>2, <3>1 DEF Events
  <2>5. PICK y : y = [[local[h] EXCEPT !.before = before] EXCEPT !.want = "workspace.changed", !.viewed = 0]
    OBVIOUS
  <2>6. y \in Locals /\ y.want = "workspace.changed" /\ y.before = before /\ y.after = local[h].after
    BY <1>2, <2>4, <2>5 DEF Locals, EventTypes
  <2>7. Tells(h, "view", y)
    BY <1>1, <1>6, <2>5 DEF Tells, Want
  <2>8. y.want # PrimaryType(h)
    BY <2>6, PrimaryIsNoFurther
  <2>9. TellsOn(h, "view", y) /\ TellsLast(h, "view", y)
    BY <1>3, <1>6, <2>2, <2>3, <2>6, <2>8 DEF TellsOn, TellsLast
  <2> QED
    BY <1>1, <2>6, <2>7, <2>9, TruthSteps DEF Steps
<1>7. CASE ~(before # None /\ before # local[h].after) /\ Return(h, local[h].primary, local[h])
  <2>1. PICK y : y = [NewLocal EXCEPT !.primary = local[h].primary, !.result = local[h].primary]
    OBVIOUS
  <2>2. y \in Locals /\ y.primary = local[h].primary
    BY <1>2, <2>1 DEF Locals, NewLocal, EventTypes, Statuses
  <2>3. Tells(h, "returned", y)
    BY <1>1, <1>7, <2>1 DEF Tells, Return
  <2>4. TellsOn(h, "returned", y) /\ TellsLast(h, "returned", y)
    BY <1>1, <1>5, <1>7, <2>2 DEF TellsOn, TellsLast
  <2> QED
    BY <1>1, <2>2, <2>3, <2>4, TruthSteps DEF Steps
<1> QED
  BY <1>5, <1>6, <1>7 DEF Scan

\* The ledger, or the request's blob, cannot be read.
LEMMA ReadFailsTrue ==
  ASSUME HookInv, TruthInv, NEW h \in Hooks, ReadFails(h)
  PROVE  TruthInv'
<1>1. /\ Running(h) /\ log' = log /\ notices' = notices /\ UNCHANGED <<session, tool, tree, span, alone>>
      /\ Want(h, "adapter.error", local[h])
  BY DEF ReadFails, store, world, Running, Fired, Ended
<1> QED
  BY <1>1, ErrsTruly

\* The engine's view before an append.
LEMMA ViewTrue ==
  ASSUME HookInv, TruthInv, NEW h \in Hooks, View(h)
  PROVE  TruthInv'
<1>1. /\ pc[h] = "view" /\ Running(h) /\ log' = log /\ notices' = notices /\ pc' = [pc EXCEPT ![h] = "append"]
      /\ UNCHANGED <<session, tool, tree, span, alone>>
  BY DEF View, store, world, Running, Fired, Ended
<1>2. TypeOK /\ local[h] \in Locals /\ shown \in Nat
  BY RunningHook
<1>3. PICK y : local' = [local EXCEPT ![h] = y] /\ y = [local[h] EXCEPT !.viewed = shown]
  BY <1>2 DEF View, TypeOK
<1>4. y \in Locals /\ y.want = local[h].want /\ y.after = local[h].after /\ y.before = local[h].before
  BY <1>2, <1>3 DEF Locals
<1>5. Tells(h, "append", y)
  BY <1>1, <1>3 DEF Tells
<1> QED
  BY <1>1, <1>4, <1>5, KeepsTruly DEF Early

\* The lock is taken, and the invocation waits.
LEMMA RetryTrue ==
  ASSUME HookInv, TruthInv, NEW h \in Hooks, Retry(h)
  PROVE  TruthInv'
<1>1. /\ pc[h] = "append" /\ Running(h) /\ log' = log /\ notices' = notices /\ pc' = [pc EXCEPT ![h] = "view"]
      /\ UNCHANGED <<session, tool, tree, span, alone>>
  BY DEF Retry, store, world, Running, Fired, Ended
<1>2. TypeOK /\ local[h] \in Locals
  BY RunningHook
<1>3. PICK y : /\ local' = [local EXCEPT ![h] = y]
               /\ y = [local[h] EXCEPT !.waited = local[h].waited + 1, !.viewed = 0]
  BY <1>2 DEF Retry, TypeOK
<1>4. y \in Locals /\ y.want = local[h].want /\ y.after = local[h].after /\ y.before = local[h].before
  <2>1. local[h].waited + 1 \in Nat
    BY <1>2 DEF Locals
  <2> QED
    BY <1>2, <1>3, <2>1 DEF Locals
<1>5. Tells(h, "view", y)
  BY <1>1, <1>3 DEF Tells
<1> QED
  BY <1>1, <1>4, <1>5, KeepsTruly DEF Early

\* The event is appended, its append fails, or the lock is never free.
LEMMA ThrowsTrue ==
  ASSUME HookInv, TruthInv, NEW h \in Hooks, AppendCorrupt(h) \/ AppendFails(h) \/ GiveUp(h)
  PROVE  TruthInv'
<1>1. /\ pc[h] = "append" /\ Running(h) /\ Throw(h) /\ UNCHANGED <<session, tool, tree, span, alone>>
      /\ log' = log \/ log' = Append(log, Observation(h))
  BY DEF AppendCorrupt, AppendFails, GiveUp, store, world, Running, Fired, Ended
<1> QED
  BY <1>1, ThrownTrue

\* The hook process is killed.
LEMMA KillTrue ==
  ASSUME HookInv, TruthInv, NEW h \in Hooks, Kill(h)
  PROVE  TruthInv'
<1>1. /\ Running(h) /\ pc' = [pc EXCEPT ![h] = "killed"] /\ local' = [local EXCEPT ![h] = NewLocal]
      /\ log' = log \/ (pc[h] = "append" /\ log' = Append(log, Observation(h)))
      /\ notices' = notices /\ UNCHANGED <<session, tool, tree, span, alone>>
  BY DEF Kill, world
<1>2. NewLocal \in Locals
  BY DEF NewLocal, Locals, EventTypes, Statuses
<1>3. Tells(h, "killed", NewLocal) /\ TellsOn(h, "killed", NewLocal) /\ TellsLast(h, "killed", NewLocal)
  BY <1>1 DEF Tells, TellsOn, TellsLast
<1> QED
  BY <1>1, <1>2, <1>3, TruthSteps DEF Steps

\* The event is appended and returned, and the hook goes on from there.
LEMMA AppendEventTrue ==
  ASSUME HookInv, TruthInv, NEW h \in Hooks, AppendEvent(h)
  PROVE  TruthInv'
<1>1. /\ pc[h] = "append" /\ Running(h) /\ Proceed(h, Len(log'))
      /\ log' = Append(log, Observation(h)) /\ notices' = notices
      /\ UNCHANGED <<session, tool, tree, span, alone>>
  BY DEF AppendEvent, world, Running, Fired, Ended
<1>2. TypeOK /\ Primary(h) /\ local[h] \in Locals /\ Len(log) \in Nat
  BY RunningHook
<1>3. Len(log') \in Nat
  <2>1. Len(log') = Len(log) + 1
    BY <1>1, <1>2, ObservationType, Appended
  <2> QED
    BY <1>2, <2>1
<1>4. PICK app \in Locals : app = IF local[h].want = PrimaryType(h) THEN [local[h] EXCEPT !.primary = Len(log')]
                                  ELSE local[h]
  BY <1>2, <1>3 DEF Locals
<1>5. app.want = local[h].want /\ app.before = local[h].before /\ app.after = local[h].after
  BY <1>2, <1>4 DEF Locals
<1>6. local[h].want \in {PrimaryType(h), "adapter.error", "checkpoint.created", "workspace.changed"}
  BY <1>1, <1>2 DEF Primary
<1> DEFINE resolved == IF app.primary = 0 THEN Len(log') ELSE app.primary
<1>7. CASE ReadsAfter(h) /\ pc' = [pc EXCEPT ![h] = "await"] /\ local' = [local EXCEPT ![h] = [app EXCEPT !.viewed = 0]]
  <2>1. PICK y : y = [app EXCEPT !.viewed = 0]
    OBVIOUS
  <2>2. y \in Locals /\ y.want = "tool.completed" /\ y.before = local[h].before /\ y.after = local[h].after
    BY <1>5, <1>7, <2>1 DEF Locals, ReadsAfter
  <2>3. Tells(h, "await", y)
    BY <1>1, <1>7, <2>1 DEF Tells
  <2>4. TellsOn(h, "await", y) /\ TellsLast(h, "await", y)
    BY <1>7, <2>2 DEF TellsOn, TellsLast, Early, ReadsAfter
  <2> QED
    BY <1>1, <2>2, <2>3, <2>4, TruthSteps DEF Steps
<1>8. CASE Follows(h) # "none" /\ Want(h, Follows(h), app)
  <2>1. PICK type \in {"adapter.error", "checkpoint.created"} :
          type = Follows(h) /\ (type = "checkpoint.created" => local[h].want = "agent.suspended")
    BY <1>8 DEF Follows
  <2>2. PICK y : y = [app EXCEPT !.want = type, !.viewed = 0]
    OBVIOUS
  <2>3. y \in Locals /\ y.want = type /\ y.before = local[h].before /\ y.after = local[h].after
    BY <1>5, <2>1, <2>2 DEF Locals, EventTypes
  <2>4. Tells(h, "view", y)
    BY <1>1, <1>8, <2>1, <2>2 DEF Tells, Want
  <2>5. type = "checkpoint.created" => h = Stop
    BY <1>6, <2>1, PrimaryIsNoFurther
  <2> QED
    BY <1>1, <2>1, <2>3, <2>4, <2>5, WantsTruly, PrimaryIsNoFurther
<1>9. CASE ~ReadsAfter(h) /\ Return(h, resolved, app)
  <2>1. PICK y : y = [NewLocal EXCEPT !.primary = app.primary, !.result = resolved]
    OBVIOUS
  <2>2. y \in Locals
    <3>1. app.primary \in Nat /\ resolved \in Nat
      BY <1>3, <1>4 DEF Locals
    <3> HIDE DEF resolved
    <3> QED
      BY <2>1, <3>1 DEF Locals, NewLocal, EventTypes, Statuses
  <2>3. Tells(h, "returned", y)
    <3> HIDE DEF resolved
    <3> QED
      BY <1>1, <1>9, <2>1 DEF Tells, Return
  <2>4. ASSUME h.kind = "PostToolUse", h.tool \in WorkspaceTools, tool[h.tool] = "ok"
        PROVE  local[h].want \in {"adapter.error", "workspace.changed"}
    <3>1. PrimaryType(h) = "tool.completed" /\ h # Stop
      BY <2>4, HookKinds, PrimaryTypes, HookAdapterAssumption
    <3>2. local[h].want # "tool.completed"
      BY <1>9, <2>4 DEF ReadsAfter
    <3>3. local[h].want # "checkpoint.created"
      BY <1>1, <3>1 DEF TruthInv, Told
    <3> QED
      BY <1>6, <3>1, <3>2, <3>3
  <2>5. TellsOn(h, "returned", y) /\ TellsLast(h, "returned", y)
    BY <1>1, <2>4 DEF TellsOn, TellsLast
  <2> QED
    BY <1>1, <2>2, <2>3, <2>5, TruthSteps DEF Steps
<1> QED
  BY <1>1, <1>4, <1>7, <1>8, <1>9 DEF Proceed

\* A step of the launcher or of another process.
Aside == Idle /\ UNCHANGED <<tool, tree, span, alone>>

\* The events of others are none that tell of a tool.
LEMMA OthersAdd ==
  ASSUME TypeOK, NEW e \in Events, e.type \in {"run.created", "other"}, log' = log \/ log' = Append(log, e)
  PROVE  /\ \A seq \in DOMAIN log : seq \in DOMAIN log' /\ log'[seq] = log[seq]
         /\ \A seq \in DOMAIN log' : \/ seq \in DOMAIN log
                                     \/ log'[seq].type \in {"run.created", "other"}
         /\ \A t \in Tools : RequestsOf(t)' = RequestsOf(t) /\ Changes(t)' = Changes(t)
<1>1. /\ \A seq \in DOMAIN log : seq \in DOMAIN log' /\ log'[seq] = log[seq]
      /\ \A seq \in DOMAIN log' : \/ seq \in DOMAIN log
                                  \/ log'[seq].type \in {"run.created", "other"}
  <2>1. CASE log' = log
    BY <2>1
  <2>2. CASE log' = Append(log, e)
    <3>1. /\ DOMAIN log = 1..Len(log) /\ DOMAIN log' = 1..(Len(log) + 1) /\ Len(log) \in Nat
          /\ \A seq \in 1..Len(log) : log'[seq] = log[seq]
          /\ log'[Len(log) + 1] = e
      BY <2>2, Appended
    <3>2. \A seq \in 1..(Len(log) + 1) : seq \in 1..Len(log) \/ seq = Len(log) + 1
      BY <3>1
    <3>3. \A seq \in 1..Len(log) : seq \in 1..(Len(log) + 1)
      BY <3>1
    <3> QED
      BY <3>1, <3>2, <3>3
  <2> QED
    BY <2>1, <2>2
<1>2. \A t \in Tools : RequestsOf(t)' = RequestsOf(t)
  BY <1>1 DEF RequestsOf, Pre, Hook
<1>3. \A t \in Tools : Changes(t)' = Changes(t)
  BY <1>1 DEF Changes, Recorded, Hook
<1> QED
  BY <1>1, <1>2, <1>3

\* Such a step leaves what is told true.
LEMMA AsideTruth ==
  ASSUME HookInv, TruthInv, Aside, NEW e \in Events, e.type \in {"run.created", "other"},
         log' = log \/ log' = Append(log, e)
  PROVE  TruthInv'
<1>1. TypeOK /\ Told /\ Spans /\ UNCHANGED <<pc, local, notices, tool, tree, span, alone>>
  BY DEF HookInv, TruthInv, Aside, Idle
<1>2. /\ \A seq \in DOMAIN log : seq \in DOMAIN log' /\ log'[seq] = log[seq]
      /\ \A seq \in DOMAIN log' : \/ seq \in DOMAIN log
                                  \/ log'[seq].type \in {"run.created", "other"}
      /\ \A t \in Tools : RequestsOf(t)' = RequestsOf(t) /\ Changes(t)' = Changes(t)
  BY <1>1, OthersAdd
<1>3. /\ \A h : (Fired(h)' <=> Fired(h)) /\ (Ended(h)' <=> Ended(h)) /\ (Running(h)' <=> Running(h))
      /\ \A t : Busy(t)' <=> Busy(t)
      /\ \A h : PrimaryType(h)' = PrimaryType(h)
  BY <1>1, IdleHooks DEF Aside
<1>4. \A h \in Hooks : PrimaryType(h) \notin {"run.created", "other"}
  BY PrimaryIsNoFurther
<1>5. ASSUME NEW seq \in DOMAIN log'
      PROVE  /\ log'[seq].type \notin {"run.created", "other"} => log'[seq].by \in Hooks /\ Fired(log[seq].by)'
             /\ log'[seq].type \in ToolEvents => log'[seq].type = PrimaryType(log[seq].by)'
  <2>1. CASE seq \in DOMAIN log
    <3>1. log'[seq] = log[seq]
      BY <1>2, <2>1
    <3>2. PICK by : by = log[seq].by
      OBVIOUS
    <3>3. /\ log[seq].type \notin {"run.created", "other"} => by \in Hooks /\ Fired(by)
          /\ log[seq].type \in ToolEvents => log[seq].type = PrimaryType(by)
      BY <1>1, <2>1, <3>2 DEF Told
    <3>4. (Fired(by)' <=> Fired(by)) /\ PrimaryType(by)' = PrimaryType(by)
      BY <1>3
    <3>5. (Fired(by)' <=> Fired(log[seq].by)') /\ PrimaryType(by)' = PrimaryType(log[seq].by)'
      BY <3>1, <3>2 DEF Fired, PrimaryType, SessionStart, Stop
    <3> QED
      BY <3>1, <3>2, <3>3, <3>4, <3>5
  <2>2. CASE log'[seq].type \in {"run.created", "other"}
    BY <2>2 DEF ToolEvents, Outcomes
  <2> QED
    BY <1>2, <2>1, <2>2
<1>6. ASSUME NEW t \in Tools, NEW s \in RequestsOf(t)', NEW q \in DOMAIN log'
      PROVE  /\ q \in RequestsOf(t)' => s = q
             /\ log'[q].type \in Outcomes /\ log'[q].by = Post(t) => s < q
  <2>1. s \in RequestsOf(t) /\ RequestsOf(t)' = RequestsOf(t) /\ RequestsOf(t) \subseteq DOMAIN log
    BY <1>2, <1>6 DEF RequestsOf
  <2>2. q \in DOMAIN log => log'[q] = log[q]
    BY <1>2
  <2>3. q \notin DOMAIN log => log'[q].type \notin Outcomes
    BY <1>2 DEF Outcomes
  <2> QED
    BY <1>1, <2>1, <2>2, <2>3 DEF Told
<1>7. ASSUME NEW h \in Hooks
      PROVE  /\ pc'[h] \in Early /\ local'[h].want = PrimaryType(h)' =>
                  \A seq \in DOMAIN log' : ~(log'[seq].by = h /\ log'[seq].type = PrimaryType(h)')
             /\ pc'[h] \in {"await", "scan"} =>
                  h.kind = "PostToolUse" /\ h.tool \in WorkspaceTools /\ local'[h].want = "tool.completed"
             /\ pc'[h] = "head" => local'[h].want = PrimaryType(h)'
             /\ pc'[h] = "scan" => local'[h].after # None
             /\ Running(h)' /\ local'[h].want = "checkpoint.created" => h = Stop
  <2>1. PrimaryType(h)' = PrimaryType(h) /\ (Running(h)' <=> Running(h))
    BY <1>3
  <2> QED
    BY <1>1, <1>2, <1>4, <2>1 DEF Told
<1>8. Told'
  <2> HIDE DEF ToolEvents, Outcomes, Early
  <2> QED
    BY <1>5, <1>6, <1>7 DEF Told
<1>9. ASSUME NEW t \in Tools, Spanned(t) PROVE Spanned(t)'
  <2>1. Pre(t) \in Hooks /\ Post(t) \in Hooks
    BY HookKinds
  <2>2. /\ \A u \in Tools : Busy(t)' /\ Busy(u)' => t = u
        /\ Running(Pre(t))' => Running(Pre(t))
        /\ Ended(Post(t))' <=> Ended(Post(t))
        /\ Running(Post(t))' => Running(Post(t))
    BY <1>3, <1>9 DEF Spanned, Running, Fired, Ended, Pre, Post, Hook
  <2>3. /\ \A seq \in RequestsOf(t) : log'[seq] = log[seq]
        /\ \A seq \in Changes(t) : log'[seq] = log[seq]
    BY <1>2 DEF RequestsOf, Changes, Recorded
  <2>4. RequestsOf(t)' = RequestsOf(t) /\ Changes(t)' = Changes(t)
    BY <1>2
  <2>5. Pre(t)' = Pre(t) /\ Post(t)' = Post(t)
    BY DEF Pre, Post, Hook
  <2>6. tool'[t] = "asked" =>
          /\ Running(Pre(t))' => local'[Pre(t)].before \in {None, tree'}
          /\ \A seq \in RequestsOf(t)' : log'[seq].before \in {None, tree'}
    BY <1>1, <1>9, <2>2, <2>3, <2>4 DEF Spanned
  <2>7. tool'[t] # "asked" =>
          /\ \A seq \in RequestsOf(t)' : log'[seq].before \in {None, span'[t].start}
          /\ ~Ended(Post(t))' => tree' = span'[t].end
          /\ Running(Post(t))' => local'[Post(t)].after \in {None, span'[t].end}
          /\ Running(Post(t))' /\ local'[Post(t)].want = "workspace.changed" =>
               local'[Post(t)].before = span'[t].start /\ local'[Post(t)].after = span'[t].end
          /\ \A seq \in Changes(t)' : log'[seq].before = span'[t].start /\ log'[seq].after = span'[t].end
    BY <1>1, <1>9, <2>2, <2>3, <2>4 DEF Spanned
  <2> QED
    BY <2>2, <2>5, <2>6, <2>7 DEF Spanned
<1>10. Spans'
  BY <1>1, <1>9 DEF Spans, TypeOK
<1>11. ASSUME NEW t \in Tools, Reported(t) PROVE Reported(t)'
  <2>1. Post(t) \in Hooks /\ Post(t)' = Post(t)
    BY HookKinds DEF Post, Hook
  <2>2. Comparable(t)' => Comparable(t)
    <3>1. \A seq \in DOMAIN log : seq \in DOMAIN log' /\ log'[seq] = log[seq]
      BY <1>2
    <3>2. \A seq \in RequestsOf(t) : seq \in RequestsOf(t)' /\ log'[seq] = log[seq]
      BY <1>2 DEF RequestsOf
    <3>3. \A seq \in RequestsOf(t)' : seq \in RequestsOf(t)
      BY <1>2
    <3> QED
      BY <1>1, <2>1, <3>1, <3>2, <3>3 DEF Comparable
  <2> QED
    BY <1>1, <1>2, <1>11, <2>1, <2>2 DEF Reported
<1> QED
  BY <1>1, <1>8, <1>10, <1>11, HookAdapterAssumption DEF TruthInv, TypeOK

\* A tool that runs gives its call the statuses that its hooks are to tell of.
LEMMA RunToolTrue ==
  ASSUME HookInv, TruthInv, NEW r \in Tools, NEW outcome \in {"ok", "failed"}, NEW digest \in Digests,
         RunTool(r, outcome, digest)
  PROVE  TruthInv'
<1>1. /\ tool[r] = "asked" /\ Ended(Pre(r)) /\ tool' = [tool EXCEPT ![r] = outcome] /\ tree' = digest /\ Idle
      /\ span' = IF r \in alone THEN [span EXCEPT ![r] = [start |-> tree, end |-> digest]] ELSE span
      /\ UNCHANGED <<log, alone>>
  BY DEF RunTool, Idle, store, Pre
<1>2. TypeOK /\ Ordered /\ Told /\ Spans /\ UNCHANGED <<pc, local, notices, log, alone>>
  BY <1>1 DEF HookInv, TruthInv, Idle
<1>3. tool'[r] = outcome /\ outcome # "asked" /\ \A t \in Tools : t # r => tool'[t] = tool[t]
  BY <1>1, <1>2 DEF TypeOK
<1>4. \A h : (Fired(h)' <=> Fired(h)) /\ (Ended(h)' <=> Ended(h)) /\ (Running(h)' <=> Running(h)) /\ \A t : Busy(t)' <=> Busy(t)
  BY <1>1, IdleHooks
<1>5. \A h \in Hooks : Fired(h) => PrimaryType(h)' = PrimaryType(h)
  <2> SUFFICES ASSUME NEW h \in Hooks, Fired(h) PROVE PrimaryType(h)' = PrimaryType(h)
    OBVIOUS
  <2>1. h.kind = "PostToolUse" => h.tool \in Tools /\ tool[h.tool] # "asked"
    BY <1>2, HookKinds DEF Ordered
  <2>2. h.kind = "PostToolUse" => tool'[h.tool] = tool[h.tool]
    BY <1>1, <1>3, <2>1
  <2> QED
    BY <2>2 DEF PrimaryType, SessionStart, Stop
<1>6. ~Fired(Post(r)) /\ Busy(r)
  BY <1>1, <1>2 DEF Ordered, Busy, Fired, Ended, Pre, Post
<1>7. Told'
  <2>1. ASSUME NEW seq \in DOMAIN log
        PROVE  /\ log[seq].type \notin {"run.created", "other"} => log[seq].by \in Hooks /\ Fired(log[seq].by)'
               /\ log[seq].type \in ToolEvents => log[seq].type = PrimaryType(log[seq].by)'
    <3>1. PICK by : by = log[seq].by
      OBVIOUS
    <3>2. /\ log[seq].type \notin {"run.created", "other"} => by \in Hooks /\ Fired(by)
          /\ log[seq].type \in ToolEvents => log[seq].type = PrimaryType(by)
      BY <1>2, <3>1 DEF Told
    <3>3. log[seq].type \in ToolEvents => log[seq].type \notin {"run.created", "other"}
      BY DEF ToolEvents, Outcomes
    <3>4. (Fired(by)' <=> Fired(log[seq].by)') /\ PrimaryType(by)' = PrimaryType(log[seq].by)'
      BY <1>2, <3>1 DEF Fired, PrimaryType, SessionStart, Stop
    <3>5. Fired(by)' <=> Fired(by)
      BY <1>4
    <3>6. by \in Hooks /\ Fired(by) => PrimaryType(by)' = PrimaryType(by)
      BY <1>5
    <3> QED
      BY <3>1, <3>2, <3>3, <3>4, <3>5, <3>6
  <2>2. ASSUME NEW h \in Hooks
        PROVE  /\ pc[h] \in Early /\ local[h].want = PrimaryType(h)' =>
                    \A seq \in DOMAIN log : ~(log[seq].by = h /\ log[seq].type = PrimaryType(h)')
               /\ pc[h] \in {"await", "scan"} =>
                    h.kind = "PostToolUse" /\ h.tool \in WorkspaceTools /\ local[h].want = "tool.completed"
               /\ pc[h] = "head" => local[h].want = PrimaryType(h)'
               /\ pc[h] = "scan" => local[h].after # None
               /\ Running(h)' /\ local[h].want = "checkpoint.created" => h = Stop
    <3>1. pc[h] # "none" => PrimaryType(h)' = PrimaryType(h)
      BY <1>5 DEF Fired
    <3>2. Running(h)' <=> Running(h)
      BY <1>4
    <3>3. "none" \notin Early
      BY DEF Early
    <3> QED
      BY <1>2, <3>1, <3>2, <3>3 DEF Told
  <2>3. \A t \in Tools : \A s \in RequestsOf(t)', q \in DOMAIN log :
          /\ q \in RequestsOf(t)' => s = q
          /\ log[q].type \in Outcomes /\ log[q].by = Post(t) => s < q
    <3>1. \A t \in Tools : RequestsOf(t)' = RequestsOf(t)
      BY <1>2 DEF RequestsOf, Pre, Hook
    <3> QED
      BY <1>2, <3>1 DEF Told
  <2> HIDE DEF ToolEvents, Outcomes, Early
  <2> QED
    BY <1>2, <2>1, <2>2, <2>3 DEF Told, Post, Hook
<1>8. ASSUME NEW t \in Tools PROVE RequestsOf(t)' = RequestsOf(t) /\ Changes(t)' = Changes(t)
  BY <1>2 DEF RequestsOf, Changes, Recorded, Pre, Hook
<1>9. ASSUME NEW t \in alone PROVE Spanned(t)'
  <2>1. t \in Tools /\ Spanned(t) /\ Pre(t)' = Pre(t) /\ Post(t)' = Post(t)
    BY <1>2, <1>9 DEF Spans, TypeOK, Pre, Post, Hook
  <2>2. \A u \in Tools : Busy(t)' /\ Busy(u)' => t = u
    BY <1>4, <2>1 DEF Spanned
  <2>3. RequestsOf(t) # {} => Fired(Pre(t))
    BY <1>2, <2>1, HookKinds DEF RequestsOf, Told
  <2>4. CASE t = r
    <3>1. span'[t] = [start |-> tree, end |-> digest] /\ tool'[t] # "asked" /\ tool[t] = "asked"
      BY <1>1, <1>2, <1>3, <1>9, <2>4 DEF Spans
    <3>2. Changes(t) = {}
      <4> SUFFICES ASSUME NEW seq \in Changes(t) PROVE FALSE
        OBVIOUS
      <4>1. seq \in DOMAIN log /\ log[seq].by = Post(t) /\ log[seq].type = "workspace.changed"
        BY DEF Changes, Recorded, Post
      <4> QED
        BY <1>2, <1>6, <2>4, <4>1 DEF Told
    <3>3. ~Running(Post(t))'
      BY <1>4, <1>6, <2>4 DEF Running
    <3>4. \A seq \in RequestsOf(t)' : log'[seq].before \in {None, span'[t].start}
      BY <1>2, <1>8, <2>1, <3>1 DEF Spanned
    <3> QED
      BY <1>1, <1>8, <2>1, <2>2, <3>1, <3>2, <3>3, <3>4 DEF Spanned
  <2>5. CASE t # r
    <3>1. ~Busy(t) /\ tool'[t] = tool[t] /\ span'[t] = span[t]
      BY <1>1, <1>2, <1>3, <1>6, <2>1, <2>5 DEF Spanned, Spans
    <3>2. tool[t] = "asked" => ~Running(Pre(t)) /\ RequestsOf(t) = {}
      BY <1>2, <2>1, <2>3, <3>1 DEF Ordered, Busy, Running, Fired, Ended, Pre, Post
    <3>3. tool[t] # "asked" => Ended(Post(t)) /\ ~Running(Post(t))
      BY <1>2, <2>1, <3>1 DEF Ordered, Busy, Running, Fired, Ended, Pre, Post
    <3>4. /\ Running(Pre(t))' <=> Running(Pre(t))
          /\ Running(Post(t))' <=> Running(Post(t))
          /\ Ended(Post(t))' <=> Ended(Post(t))
      BY <1>4, <2>1 DEF Running, Fired, Ended
    <3> QED
      BY <1>2, <1>8, <2>1, <2>2, <3>1, <3>2, <3>3, <3>4 DEF Spanned
  <2> QED
    BY <2>4, <2>5
<1>10. Spans'
  <2>1. span' \in [Tools -> [start : Statuses, end : Statuses]]
    BY <1>1, <1>2 DEF Spans, TypeOK, Statuses
  <2> QED
    BY <1>2, <1>9, <2>1 DEF Spans
<1>11. ASSUME NEW t \in WorkspaceTools \cap alone PROVE Reported(t)'
  <2>1. t \in Tools /\ Reported(t) /\ Post(t)' = Post(t)
    BY <1>2, <1>11 DEF TruthInv, TypeOK, Post, Hook
  <2>2. CASE t = r
    BY <1>2, <1>6, <2>1, <2>2 DEF Reported, Comparable, Fired
  <2>3. CASE t # r
    <3>1. tool'[t] = tool[t] /\ span'[t] = span[t]
      BY <1>1, <1>2, <1>3, <2>1, <2>3 DEF Spans
    <3>2. Comparable(t)' <=> Comparable(t)
      BY <1>2, <1>8, <2>1 DEF Comparable
    <3> QED
      BY <1>8, <2>1, <3>1, <3>2 DEF Reported
  <2> QED
    BY <2>2, <2>3
<1> QED
  BY <1>2, <1>7, <1>10, <1>11 DEF TruthInv

\* A hook that starts has told of nothing, and a call that it runs in parallel with
\* no longer is alone.
LEMMA FireTrue ==
  ASSUME HookInv, TruthInv, NEW h \in Hooks, Fire(h)
  PROVE  TruthInv'
<1>1. PICK x \in Steps \ {"none"}, y \in Locals : Spawned(h, x, y)
  BY FireSpawns
<1>2. TypeOK /\ Ordered /\ Told /\ Spans /\ Primary(h) /\ ~Fired(h)
  BY DEF HookInv, TruthInv, Fire
<1>3. /\ log' = log /\ tool' = tool /\ tree' = tree /\ notices \subseteq notices'
      /\ span' = [t \in Tools |-> IF t \in alone' THEN span[t] ELSE NoSpan]
      /\ alone' = IF h.kind = "PreToolUse" /\ \E t \in Tools : Busy(t)
                  THEN alone \ ({h.tool} \cup {t \in Tools : Busy(t)})
                  ELSE alone
  BY <1>1 DEF Spawned, Fire
<1>4. alone' \subseteq alone /\ \A t \in alone' : t \in Tools /\ Spanned(t) /\ span'[t] = span[t]
  BY <1>2, <1>3 DEF Spans, TypeOK
<1>5. /\ pc'[h] = x /\ local'[h] = y /\ pc[h] = "none"
      /\ \A g \in Hooks : g # h => pc'[g] = pc[g] /\ local'[g] = local[g]
      /\ \A g \in Hooks : /\ Fired(g)' <=> (Fired(g) \/ g = h)
                          /\ Ended(g) => Ended(g)'
                          /\ g # h => (Running(g)' <=> Running(g)) /\ (Ended(g)' <=> Ended(g))
                          /\ PrimaryType(g)' = PrimaryType(g)
      /\ \A t \in Tools : Busy(t)' => Busy(t) \/ h = Pre(t)
  BY <1>1, OneStarts
<1>6. /\ x \in {"head", "status", "view", "returned"} /\ y.want \in {PrimaryType(h), "adapter.error"}
      /\ x = "head" => y.want = PrimaryType(h)
      /\ y.before = None /\ y.after = None /\ y.primary = 0
  <2>1. FirstStep(h) \in {"head", "status", "view"}
    BY DEF FirstStep
  <2> QED
    BY <1>1, <2>1 DEF Spawned, NewLocal
<1>7. /\ PrimaryType(h) \notin {"adapter.error", "checkpoint.created", "workspace.changed", "other", "run.created"}
      /\ \A seq \in DOMAIN log : log[seq].type \notin {"run.created", "other"} => log[seq].by # h
  BY <1>2, PrimaryIsNoFurther DEF Told
<1>8. ASSUME NEW t \in Tools PROVE RequestsOf(t)' = RequestsOf(t) /\ Changes(t)' = Changes(t)
  BY <1>3 DEF RequestsOf, Changes, Recorded, Pre, Hook
<1>9. Told'
  <2>1. ASSUME NEW seq \in DOMAIN log
        PROVE  /\ log[seq].type \notin {"run.created", "other"} => log[seq].by \in Hooks /\ Fired(log[seq].by)'
               /\ log[seq].type \in ToolEvents => log[seq].type = PrimaryType(log[seq].by)'
    <3>1. PICK by : by = log[seq].by
      OBVIOUS
    <3>2. /\ log[seq].type \notin {"run.created", "other"} => by \in Hooks /\ Fired(by)
          /\ log[seq].type \in ToolEvents => log[seq].type = PrimaryType(by)
      BY <1>2, <3>1 DEF Told
    <3>3. log[seq].type \in ToolEvents => log[seq].type \notin {"run.created", "other"}
      BY DEF ToolEvents, Outcomes
    <3>4. (Fired(by)' <=> Fired(log[seq].by)') /\ PrimaryType(by)' = PrimaryType(log[seq].by)'
      BY <1>3, <3>1 DEF Fired, PrimaryType, SessionStart, Stop
    <3>5. by \in Hooks => (Fired(by) => Fired(by)') /\ PrimaryType(by)' = PrimaryType(by)
      BY <1>5
    <3> QED
      BY <3>1, <3>2, <3>3, <3>4, <3>5
  <2>2. ASSUME NEW g \in Hooks
        PROVE  /\ pc'[g] \in Early /\ local'[g].want = PrimaryType(g)' =>
                    \A seq \in DOMAIN log : ~(log[seq].by = g /\ log[seq].type = PrimaryType(g)')
               /\ pc'[g] \in {"await", "scan"} =>
                    g.kind = "PostToolUse" /\ g.tool \in WorkspaceTools /\ local'[g].want = "tool.completed"
               /\ pc'[g] = "head" => local'[g].want = PrimaryType(g)'
               /\ pc'[g] = "scan" => local'[g].after # None
               /\ Running(g)' /\ local'[g].want = "checkpoint.created" => g = Stop
    <3>1. PrimaryType(g)' = PrimaryType(g)
      BY <1>5
    <3>2. CASE g = h
      BY <1>5, <1>6, <1>7, <3>1, <3>2
    <3>3. CASE g # h
      BY <1>2, <1>5, <3>1, <3>3 DEF Told
    <3> QED
      BY <3>2, <3>3
  <2>3. \A t \in Tools : \A s \in RequestsOf(t)', q \in DOMAIN log :
          /\ q \in RequestsOf(t)' => s = q
          /\ log[q].type \in Outcomes /\ log[q].by = Post(t) => s < q
    BY <1>2, <1>8 DEF Told
  <2> HIDE DEF ToolEvents, Outcomes, Early
  <2> QED
    BY <1>3, <2>1, <2>2, <2>3 DEF Told, Post, Hook
<1>10. ASSUME NEW t \in alone' PROVE Spanned(t)'
  <2>1. t \in alone /\ t \in Tools /\ Spanned(t) /\ span'[t] = span[t]
    BY <1>4
  <2>2. Pre(t)' = Pre(t) /\ Post(t)' = Post(t) /\ Pre(t) \in Hooks /\ Post(t) \in Hooks
    BY <2>1, HookKinds DEF Pre, Post, Hook
  <2>3. ASSUME NEW u \in Tools, Busy(t)', Busy(u)' PROVE t = u
    <3>1. (Busy(t) \/ h = Pre(t)) /\ (Busy(u) \/ h = Pre(u))
      BY <1>5, <2>1, <2>3
    <3>2. CASE Busy(t) /\ Busy(u)
      BY <2>1, <3>2 DEF Spanned
    <3>3. CASE h = Pre(t) /\ Busy(u)
      <4>1. h.kind = "PreToolUse" /\ h.tool = t
        BY <2>1, <3>3, HookKinds
      <4> QED
        BY <1>3, <1>10, <3>3, <4>1
    <3>4. CASE h = Pre(u) /\ Busy(t)
      <4>1. h.kind = "PreToolUse"
        BY <3>4, HookKinds
      <4> QED
        BY <1>3, <1>10, <2>1, <3>4, <4>1
    <3>5. CASE h = Pre(t) /\ h = Pre(u)
      <4>1. h.tool = t
        BY <2>1, <3>5, HookKinds
      <4>2. h.tool = u
        BY <3>5, HookKinds
      <4> QED
        BY <4>1, <4>2
    <3> QED
      BY <3>1, <3>2, <3>3, <3>4, <3>5
  <2>4. tool'[t] = "asked" =>
          /\ Running(Pre(t))' => local'[Pre(t)].before \in {None, tree'}
          /\ \A seq \in RequestsOf(t)' : log'[seq].before \in {None, tree'}
    BY <1>3, <1>5, <1>6, <1>8, <2>1, <2>2 DEF Spanned
  <2>5. Running(Post(t))' =>
          /\ local'[Post(t)].after \in {None, span'[t].end} \/ tool'[t] = "asked"
          /\ tool'[t] # "asked" /\ local'[Post(t)].want = "workspace.changed" =>
               local'[Post(t)].before = span'[t].start /\ local'[Post(t)].after = span'[t].end
    <3>1. CASE h = Post(t)
      BY <1>5, <1>6, <1>7, <3>1
    <3>2. CASE h # Post(t)
      BY <1>3, <1>5, <2>1, <2>2, <3>2 DEF Spanned
    <3> QED
      BY <3>1, <3>2
  <2>6. tool'[t] # "asked" =>
          /\ \A seq \in RequestsOf(t)' : log'[seq].before \in {None, span'[t].start}
          /\ ~Ended(Post(t))' => tree' = span'[t].end
          /\ \A seq \in Changes(t)' : log'[seq].before = span'[t].start /\ log'[seq].after = span'[t].end
    BY <1>3, <1>5, <1>8, <2>1, <2>2 DEF Spanned
  <2> QED
    BY <2>2, <2>3, <2>4, <2>5, <2>6 DEF Spanned
<1>11. Spans'
  <2>1. NoSpan \in [start : Statuses, end : Statuses]
    BY DEF NoSpan, Statuses
  <2>2. span' \in [Tools -> [start : Statuses, end : Statuses]]
    BY <1>2, <1>3, <2>1 DEF Spans
  <2> QED
    BY <1>10, <2>2 DEF Spans
<1>12. ASSUME NEW t \in WorkspaceTools \cap alone' PROVE Reported(t)'
  <2>1. t \in WorkspaceTools \cap alone /\ t \in Tools /\ span'[t] = span[t] /\ Reported(t) /\ Post(t)' = Post(t)
        /\ Post(t) \in Hooks
    BY <1>4, <1>12, HookKinds DEF TruthInv, Post, Hook
  <2>2. Comparable(t)' => Comparable(t)
    <3>1. CASE h = Post(t)
      BY <1>5, <1>6, <2>1, <3>1 DEF Comparable
    <3>2. CASE h # Post(t)
      BY <1>3, <1>5, <1>8, <2>1, <3>2 DEF Comparable
    <3> QED
      BY <3>1, <3>2
  <2> QED
    BY <1>3, <1>8, <2>1, <2>2 DEF Reported
<1> QED
  BY <1>9, <1>11, <1>12 DEF TruthInv

\* Init tells of nothing.
LEMMA TruthInit ==
  ASSUME Init
  PROVE  TruthInv
<1>1. /\ log = <<>> /\ tool = [t \in Tools |-> "asked"] /\ pc = [h \in Hooks |-> "none"]
      /\ span = [t \in Tools |-> NoSpan] /\ alone = Tools
  BY DEF Init
<1>2. DOMAIN log = {} /\ \A h \in Hooks : pc[h] = "none" /\ ~Fired(h) /\ ~Running(h)
  BY <1>1 DEF Fired, Running
<1>3. \A t \in Tools : RequestsOf(t) = {} /\ tool[t] = "asked" /\ ~Busy(t) /\ ~Running(Pre(t)) /\ pc[Post(t)] = "none"
  BY <1>1, <1>2, HookKinds DEF RequestsOf, Busy, Pre
<1>4. Told
  <2>1. "none" \notin Early
    BY DEF Early
  <2> QED
    BY <1>2, <1>3, <2>1 DEF Told
<1>5. span \in [Tools -> [start : Statuses, end : Statuses]]
  BY <1>1 DEF NoSpan, Statuses
<1> QED
  BY <1>1, <1>3, <1>4, <1>5, HookAdapterAssumption DEF TruthInv, Spans, Spanned, Reported

\* Every step leaves what is told true.
LEMMA TruthStep ==
  ASSUME HookInv, TruthInv, [Next]_vars
  PROVE  TruthInv'
<1>1. CASE StartRun
  <2>1. Aside /\ log = <<>> /\ log' = <<Entry("run.created", Launcher)>>
    BY <1>1 DEF StartRun, Aside, Idle, Entry, HookInv, Ordered
  <2>2. log' = Append(log, Entry("run.created", Launcher))
    BY <2>1
  <2> QED
    BY <2>1, <2>2, OtherEvents, AsideTruth
<1>2. CASE SpawnClaude \/ OtherCloses \/ UNCHANGED vars
  <2>1. Aside /\ log' = log
    BY <1>2 DEF SpawnClaude, OtherCloses, vars, store, world, Aside, Idle
  <2> QED
    BY <2>1, OtherEvents, AsideTruth
<1>3. CASE OtherWrites
  <2>1. Aside /\ log' = Append(log, Entry("other", Other))
    BY <1>3 DEF OtherWrites, Aside, Idle
  <2> QED
    BY <2>1, OtherEvents, AsideTruth
<1>4. CASE \E t \in Tools, outcome \in {"ok", "failed"}, digest \in Digests : RunTool(t, outcome, digest)
  BY <1>4, RunToolTrue
<1>5. CASE \E h \in Hooks : Fire(h)
  BY <1>5, FireTrue
<1>6. CASE \E h \in Hooks : HookStep(h)
  BY <1>6, ReadHeadTrue, ReadBeforeTrue, ReadAfterTrue, AwaitedTrue, ScanTrue, ReadFailsTrue, ViewTrue,
     AppendEventTrue, ThrowsTrue, RetryTrue DEF HookStep
<1>7. CASE \E h \in Hooks : Kill(h)
  BY <1>7, KillTrue
<1> QED
  BY <1>1, <1>2, <1>3, <1>4, <1>5, <1>6, <1>7 DEF Next

\* What the ledger tells of tools and of the workspace stays true.
THEOREM TruthInvariant == Spec => []TruthInv
<1>1. Init => HookInv /\ TruthInv
  BY HookInvInit, TruthInit
<1>2. HookInv /\ TruthInv /\ [Next]_vars => HookInv' /\ TruthInv'
  BY HookInvStep, TruthStep
<1> QED
  BY <1>1, <1>2, PTL DEF Spec

\* A change that PostToolUse of a call that ran alone tells of is one that the tool
\* made, and is told unless something of that invocation failed.
LEMMA ChangesAreTrue ==
  ASSUME HookInv, TruthInv
  PROVE  ChangesAreReported
<1> SUFFICES ASSUME NEW t \in WorkspaceTools \cap alone,
                    pc[Post(t)] = "returned", local[Post(t)].primary # 0, tool[t] = "ok"
             PROVE  /\ \A seq \in Changes(t) :
                         /\ log[seq].before = span[t].start /\ log[seq].after = span[t].end
                         /\ span[t].start # span[t].end
                    /\ (/\ span[t].start # span[t].end
                        /\ {seq \in Recorded(Pre(t)) :
                              log[seq].type = "tool.requested" /\ log[seq].before # None
                              /\ local[Post(t)].primary - seq <= MaxScan} # {}
                        /\ Post(t) \notin notices
                        /\ \A seq \in Recorded(Post(t)) : log[seq].type # "adapter.error")
                         => Changes(t) # {}
  BY DEF ChangesAreReported, Pre, Post
<1>1. Spanned(t) /\ Reported(t) /\ Matching
  BY DEF TruthInv, Spans, HookInv
<1>2. \A seq \in Changes(t) :
        log[seq].before = span[t].start /\ log[seq].after = span[t].end /\ span[t].start # span[t].end
  <2>1. \A seq \in Changes(t) : log[seq].before # log[seq].after
    BY <1>1 DEF Matching, Changes, Recorded
  <2> QED
    BY <1>1, <2>1 DEF Spanned
<1>3. ASSUME span[t].start # span[t].end, Post(t) \notin notices,
             \A seq \in Recorded(Post(t)) : log[seq].type # "adapter.error",
             NEW seq \in Recorded(Pre(t)), log[seq].type = "tool.requested", log[seq].before # None,
             local[Post(t)].primary - seq <= MaxScan
      PROVE  Changes(t) # {}
  <2>1. seq \in RequestsOf(t)
    BY <1>3 DEF Recorded, RequestsOf
  <2>2. \A s \in DOMAIN log : log[s].by = Post(t) => log[s].type # "adapter.error"
    BY <1>3 DEF Recorded
  <2>3. Comparable(t)
    BY <1>3, <2>1, <2>2 DEF Comparable
  <2> QED
    BY <1>1, <1>3, <2>3 DEF Reported
<1> QED
  BY <1>2, <1>3

-----------------------------------------------------------------------------
(* The pending intents of the ledger.                                        *)

\* A property of 0 that goes from each number to the next one, up to n.
LEMMA UpTo ==
  ASSUME NEW n \in Nat, NEW good, 0 \in good, \A k \in 0..(n - 1) : k \in good => k + 1 \in good
  PROVE  n \in good
<1> DEFINE places == {s \in 1..n : n - s \notin good}
<1> SUFFICES ASSUME n \notin good PROVE FALSE
  OBVIOUS
<1>1. n \in places \/ places # {}
  <2>1. n # 0
    OBVIOUS
  <2>2. n - 1 \notin good
    BY <2>1
  <2>3. 1 \in places
    BY <2>1, <2>2
  <2> QED
    BY <2>3
<1>2. places # {} /\ places \subseteq 1..n
  BY <1>1
<1>3. PICK s \in places : \A other \in places : other <= s
  <2> HIDE DEF places
  <2> QED
    BY <1>2, Latest
<1>4. s # n
  BY <1>3
<1>5. n - (s + 1) \in 0..(n - 1) /\ (n - (s + 1)) + 1 = n - s /\ s + 1 \in 1..n /\ ~(s + 1 <= s)
  BY <1>3, <1>4
<1>6. n - (s + 1) \notin good
  BY <1>3, <1>5
<1> QED
  BY <1>3, <1>5, <1>6

\* The greatest of a set of places.
LEMMA GreatestOf ==
  ASSUME NEW n \in Nat, NEW places, places \subseteq 1..n, places # {}
  PROVE  Intents!Max(places) \in places /\ \A i \in places : i <= Intents!Max(places)
<1>1. PICK m \in places : \A i \in places : i <= m
  BY Latest
<1>2. \A i \in places : m >= i
  BY <1>1
<1>3. Intents!Max(places) \in places /\ \A i \in places : Intents!Max(places) >= i
  BY <1>2 DEF Intents!Max
<1>4. Intents!Max(places) \in 1..n /\ \A i \in places : i \in 1..n
  BY <1>3
<1> QED
  BY <1>3, <1>4

\* The fold over a set of events takes out the last of them.
CorrelateLast(L, g, s) ==
  IF s = {} THEN {}
  ELSE Intents!Correlate(g[s \ {Intents!Max(s)}], Intents!Max(s), L[Intents!Max(s)])

\* There is such a fold.
LEMMA FoldExists ==
  ASSUME NEW L, NEW n \in Nat
  PROVE  \E g : g = [s \in SUBSET (1..n) |-> CorrelateLast(L, g, s)]
<1> DEFINE IsFold(g, k) == g = [s \in SUBSET (1..k) |-> CorrelateLast(L, g, s)]
           good == {k \in 0..n : \E g : IsFold(g, k)}
<1>1. 0 \in good
  <2> DEFINE g == [s \in SUBSET (1..0) |-> {}]
  <2>1. \A s \in SUBSET (1..0) : CorrelateLast(L, g, s) = {}
    BY DEF CorrelateLast
  <2>2. g = [s \in SUBSET (1..0) |-> CorrelateLast(L, g, s)]
    BY <2>1
  <2>3. 0 \in 0..n
    OBVIOUS
  <2> HIDE DEF g
  <2> QED
    BY <2>2, <2>3, Zenon
<1>2. ASSUME NEW k \in 0..(n - 1), k \in good PROVE k + 1 \in good
  <2>1. PICK f : IsFold(f, k)
    BY <1>2
  <2> DEFINE g == [s \in SUBSET (1..(k + 1)) |-> IF s \in SUBSET (1..k) THEN f[s] ELSE CorrelateLast(L, f, s)]
  <2>2. k \in Nat /\ k + 1 \in Nat /\ k + 1 \in 0..n /\ SUBSET (1..k) \subseteq SUBSET (1..(k + 1))
    OBVIOUS
  <2>3. ASSUME NEW s \in SUBSET (1..(k + 1)) PROVE CorrelateLast(L, g, s) = CorrelateLast(L, f, s)
    <3> SUFFICES ASSUME s # {} PROVE g[s \ {Intents!Max(s)}] = f[s \ {Intents!Max(s)}]
      BY DEF CorrelateLast
    <3>1. Intents!Max(s) \in s /\ \A i \in s : i <= Intents!Max(s)
      BY <2>2, GreatestOf
    <3>2. \A i \in s \ {Intents!Max(s)} : i \in 1..k
      <4>1. PICK m : m = Intents!Max(s)
        OBVIOUS
      <4>2. m \in 1..(k + 1) /\ \A i \in s : i \in 1..(k + 1) /\ i <= m
        BY <3>1, <4>1
      <4> QED
        BY <2>2, <4>1, <4>2
    <3>3. s \ {Intents!Max(s)} \in SUBSET (1..k)
      BY <3>2
    <3> QED
      BY <2>2, <3>3
  <2>4. \A s \in SUBSET (1..k) : f[s] = CorrelateLast(L, f, s)
    BY <2>1
  <2>5. \A s \in SUBSET (1..(k + 1)) : g[s] = CorrelateLast(L, g, s)
    BY <2>3, <2>4, Zenon
  <2>6. g = [s \in SUBSET (1..(k + 1)) |-> g[s]]
    OBVIOUS
  <2> HIDE DEF g
  <2>7. IsFold(g, k + 1)
    BY <2>5, <2>6, Zenon
  <2> QED
    BY <2>2, <2>7
<1>3. n \in good
  <2> HIDE DEF good
  <2> QED
    BY <1>1, <1>2, UpTo
<1> QED
  BY <1>3

\* The derivation, event by event.
LEMMA DerivationSteps ==
  ASSUME NEW L, NEW n \in Nat, DOMAIN L = 1..n
  PROVE  \E intents : /\ intents[0] = {}
                      /\ \A k \in 1..n : intents[k] = Intents!Correlate(intents[k - 1], k, L[k])
                      /\ Intents!DerivePendingIntent(L, DOMAIN L) = intents[n]
<1> DEFINE D == 1..n
           id == [seq \in DOMAIN L |-> seq]
           IsIter(g) == g = [s \in SUBSET D |->
                               IF s = {} THEN {}
                               ELSE IF id[Intents!Max(s)] \in DOMAIN L
                                    THEN Intents!Correlate(g[s \ {Intents!Max(s)}], id[Intents!Max(s)],
                                                           L[id[Intents!Max(s)]])
                                    ELSE g[s \ {Intents!Max(s)}]]
           G == CHOOSE g : IsIter(g)
           intents == [k \in 0..n |-> G[1..k]]
<1>1. Intents!DerivePendingIntent(L, DOMAIN L) = (CHOOSE g : IsIter(g))[DOMAIN id]
  BY Zenon DEF Intents!DerivePendingIntent, Intents!FoldLeft, Intents!MapThenFoldSet
<1>2. \A s \in SUBSET D : s # {} => id[Intents!Max(s)] = Intents!Max(s) /\ Intents!Max(s) \in DOMAIN L
  BY GreatestOf
<1>3. \E g : IsIter(g)
  <2>1. PICK g : g = [s \in SUBSET D |-> CorrelateLast(L, g, s)]
    BY FoldExists
  <2> HIDE DEF D, id
  <2>2. \A s \in SUBSET D :
          g[s] = IF s = {} THEN {}
                 ELSE IF id[Intents!Max(s)] \in DOMAIN L
                      THEN Intents!Correlate(g[s \ {Intents!Max(s)}], id[Intents!Max(s)], L[id[Intents!Max(s)]])
                      ELSE g[s \ {Intents!Max(s)}]
    <3> TAKE s \in SUBSET D
    <3>1. g[s] = CorrelateLast(L, g, s)
      BY <2>1
    <3> QED
      BY <1>2, <3>1 DEF CorrelateLast
  <2>3. g = [s \in SUBSET D |-> g[s]]
    BY <2>1
  <2>4. IsIter(g)
    BY <2>2, <2>3, Zenon
  <2> QED
    BY <2>4
<1>4. IsIter(G)
  BY <1>3
<1>5. intents[0] = {}
  <2>1. 1..0 = {} /\ 0 \in 0..n /\ 1..0 \in SUBSET D
    OBVIOUS
  <2> HIDE DEF G, D
  <2> QED
    BY <1>4, <2>1
<1>6. \A k \in 1..n : intents[k] = Intents!Correlate(intents[k - 1], k, L[k])
  <2> TAKE k \in 1..n
  <2>1. 1..k \subseteq 1..k /\ k \in 1..k /\ k \in Nat
    OBVIOUS
  <2>2. Intents!Max(1..k) = k
    <3>1. Intents!Max(1..k) \in 1..k /\ k <= Intents!Max(1..k)
      BY <2>1, GreatestOf
    <3> QED
      BY <2>1, <3>1
  <2>3. (1..k) \ {k} = 1..(k - 1) /\ k - 1 \in 0..n /\ k \in 0..n
    OBVIOUS
  <2>4. 1..k \in SUBSET D /\ 1..k # {}
    <3>1. \A i \in 1..k : i \in 1..n
      OBVIOUS
    <3> QED
      BY <2>1, <3>1
  <2> HIDE DEF G, id, D
  <2>5. G[1..k] = IF 1..k = {} THEN {}
                  ELSE IF id[Intents!Max(1..k)] \in DOMAIN L
                       THEN Intents!Correlate(G[(1..k) \ {Intents!Max(1..k)}], id[Intents!Max(1..k)],
                                              L[id[Intents!Max(1..k)]])
                       ELSE G[(1..k) \ {Intents!Max(1..k)}]
    BY <1>4, <2>4, Zenon
  <2>6. G[1..k] = Intents!Correlate(G[1..(k - 1)], k, L[k])
    BY <1>2, <2>2, <2>3, <2>4, <2>5
  <2> QED
    BY <2>3, <2>6
<1>7. Intents!DerivePendingIntent(L, DOMAIN L) = intents[n]
  <2>1. DOMAIN id = 1..n /\ n \in 0..n
    OBVIOUS
  <2> HIDE DEF G, IsIter
  <2> QED
    BY <1>1, <2>1 DEF G
<1> HIDE DEF intents
<1> QED
  BY <1>5, <1>6, <1>7

\* The ledger as the derivation sees it.
Correlation == [seq \in DOMAIN log |-> Correlated(log[seq])]

\* The outcome of a call is in the ledger by k.
OutcomeBy(t, type, k) == \E s \in 1..k : log[s].type = type /\ log[s].by = Post(t)

\* The status of an intent is that of the call, as of the first k events.
TrueStatus(status, t, k) ==
  CASE status = "in_progress" -> ~OutcomeBy(t, "tool.completed", k) /\ ~OutcomeBy(t, "tool.failed", k)
    [] status = "completed"   -> OutcomeBy(t, "tool.completed", k)
    [] status = "pending"     -> OutcomeBy(t, "tool.failed", k)

IntentRecords == [kind : {"tool"}, intent_id : Tools, requested_seq : Nat,
                  status : {"in_progress", "completed", "pending"}, resolved_seq : Nat]

\* Intents that the first k events of the ledger bear out.
TrueIntents(k) ==
  {intent \in IntentRecords : /\ intent.requested_seq \in RequestsOf(intent.intent_id)
                              /\ TrueStatus(intent.status, intent.intent_id, k)}

\* An event's part in the correlation.
LEMMA CorrelatedParts ==
  ASSUME TypeOK, Told, NEW k \in DOMAIN log
  PROVE  /\ Correlation[k] = Correlated(log[k])
         /\ log[k].type = "tool.requested" =>
              /\ Correlated(log[k]).role = "request" /\ Correlated(log[k]).kind = "tool"
              /\ Intents!IntentId(Correlated(log[k])) = log[k].by.tool
              /\ log[k].by.tool \in Tools /\ log[k].by = Pre(log[k].by.tool)
         /\ log[k].type \in Outcomes =>
              /\ Correlated(log[k]).role = IF log[k].type = "tool.completed" THEN "acknowledgement" ELSE "failure"
              /\ Correlated(log[k]).kind = "tool"
              /\ Intents!IntentId(Correlated(log[k])) = log[k].by.tool
              /\ log[k].by.tool \in Tools /\ log[k].by = Post(log[k].by.tool)
         /\ log[k].type \notin ToolEvents => Correlated(log[k]).role = "none"
<1>1. Correlation[k] = Correlated(log[k])
  BY DEF Correlation
<1>2. None \notin Tools
  BY HookAdapterAssumption
<1>3. CASE log[k].type = "tool.requested"
  <2>1. Correlated(log[k]).role = "request" /\ Correlated(log[k]).kind = "tool"
        /\ Correlated(log[k]).id = log[k].by.tool
    BY <1>3 DEF Correlated
  <2> QED
    BY <1>1, <1>2, <1>3, <2>1, ToolEventsOf DEF Intents!IntentId, Outcomes, ToolEvents
<1>4. CASE log[k].type \in Outcomes
  <2>1. /\ Correlated(log[k]).role = IF log[k].type = "tool.completed" THEN "acknowledgement" ELSE "failure"
        /\ Correlated(log[k]).kind = "tool" /\ Correlated(log[k]).id = log[k].by.tool
    BY <1>4 DEF Correlated, Outcomes
  <2> QED
    BY <1>1, <1>2, <1>4, <2>1, ToolEventsOf DEF Intents!IntentId, Outcomes, ToolEvents
<1>5. CASE log[k].type \notin ToolEvents
  <2>1. log[k].type \notin {"tool.requested", "tool.completed", "tool.failed"}
    BY <1>5 DEF ToolEvents, Outcomes
  <2>2. Correlated(log[k]).role = "none"
    BY <2>1 DEF Correlated
  <2> QED
    BY <1>1, <1>5, <2>2 DEF ToolEvents, Outcomes
<1> QED
  BY <1>3, <1>4, <1>5 DEF ToolEvents

\* One more event.
LEMMA OutcomesNext ==
  ASSUME NEW k \in Nat, k # 0, NEW t, NEW type
  PROVE  OutcomeBy(t, type, k) <=> OutcomeBy(t, type, k - 1) \/ (log[k].type = type /\ log[k].by = Post(t))
<1>1. \A s : s \in 1..k <=> s \in 1..(k - 1) \/ s = k
  OBVIOUS
<1> QED
  BY <1>1 DEF OutcomeBy

\* The intents that one more event makes are borne out too.
LEMMA CorrelateTrue ==
  ASSUME TypeOK, Told, NEW k \in DOMAIN log, NEW intents \in SUBSET TrueIntents(k - 1)
  PROVE  Intents!Correlate(intents, k, Correlated(log[k])) \in SUBSET TrueIntents(k)
<1> DEFINE e == Correlated(log[k])
           resolved == IF Intents!IntentId(e) = None THEN {} ELSE Intents!LatestOf(intents, e)
<1>1. k \in Nat /\ k # 0 /\ DOMAIN log = 1..Len(log) /\ Len(log) \in Nat
      /\ \A t \in Tools : RequestsOf(t) \subseteq DOMAIN log
  BY DEF TypeOK, RequestsOf
<1>2. \A intent \in intents : /\ intent \in IntentRecords /\ intent.requested_seq \in RequestsOf(intent.intent_id)
                              /\ intent.kind = "tool" /\ intent.intent_id \in Tools
                              /\ TrueStatus(intent.status, intent.intent_id, k - 1)
  BY DEF TrueIntents, IntentRecords
<1>3. \A intent \in intents :
        \/ intent \in TrueIntents(k)
        \/ /\ intent.status = "in_progress" /\ log[k].type \in Outcomes /\ log[k].by = Post(intent.intent_id)
  <2> TAKE intent \in intents
  <2>1. /\ OutcomeBy(intent.intent_id, "tool.completed", k) <=>
             \/ OutcomeBy(intent.intent_id, "tool.completed", k - 1)
             \/ log[k].type = "tool.completed" /\ log[k].by = Post(intent.intent_id)
        /\ OutcomeBy(intent.intent_id, "tool.failed", k) <=>
             \/ OutcomeBy(intent.intent_id, "tool.failed", k - 1)
             \/ log[k].type = "tool.failed" /\ log[k].by = Post(intent.intent_id)
    BY <1>1, OutcomesNext
  <2>2. intent.status \in {"in_progress", "completed", "pending"}
    BY <1>2 DEF IntentRecords
  <2>3. \/ TrueStatus(intent.status, intent.intent_id, k)
        \/ /\ intent.status = "in_progress" /\ log[k].type \in Outcomes /\ log[k].by = Post(intent.intent_id)
    BY <1>2, <2>1, <2>2 DEF TrueStatus, Outcomes
  <2> QED
    BY <1>2, <2>3 DEF TrueIntents
<1>4. CASE log[k].type = "tool.requested"
  <2> DEFINE t == log[k].by.tool
  <2>1. e.role = "request" /\ e.kind = "tool" /\ Intents!IntentId(e) = t /\ t \in Tools /\ log[k].by = Pre(t)
    BY <1>4, CorrelatedParts
  <2>2. Intents!Correlate(intents, k, e) = intents \cup {Intents!Requested(e, k)}
    BY <2>1 DEF Intents!Correlate
  <2>3. Intents!Requested(e, k) = [kind |-> "tool", intent_id |-> t, requested_seq |-> k,
                                   status |-> "in_progress", resolved_seq |-> 0]
    BY <2>1 DEF Intents!Requested
  <2>4. k \in RequestsOf(t)
    BY <1>4, <2>1 DEF RequestsOf
  <2>5. \A s \in 1..k : ~(log[s].type \in Outcomes /\ log[s].by = Post(t))
    <3> SUFFICES ASSUME NEW s \in 1..k, log[s].type \in Outcomes, log[s].by = Post(t) PROVE FALSE
      OBVIOUS
    <3>1. s \in DOMAIN log /\ s <= k
      BY <1>1
    <3>2. k < s
      BY <2>1, <2>4, <3>1 DEF Told
    <3> QED
      BY <1>1, <3>1, <3>2
  <2>6. TrueStatus("in_progress", t, k)
    BY <2>5 DEF TrueStatus, OutcomeBy, Outcomes
  <2>7. Intents!Requested(e, k) \in TrueIntents(k)
    <3> HIDE DEF t, e
    <3> QED
      BY <1>1, <2>1, <2>3, <2>4, <2>6 DEF TrueIntents, IntentRecords
  <2>8. log[k].type \notin Outcomes
    BY <1>4 DEF Outcomes
  <2> QED
    BY <1>3, <2>2, <2>7, <2>8
<1>5. CASE log[k].type \in Outcomes
  <2> DEFINE t == log[k].by.tool
  <2>1. /\ e.role = IF log[k].type = "tool.completed" THEN "acknowledgement" ELSE "failure"
        /\ e.kind = "tool" /\ Intents!IntentId(e) = t /\ t \in Tools /\ log[k].by = Post(t) /\ t # None
    BY <1>5, CorrelatedParts, HookAdapterAssumption
  <2>2. Intents!Correlate(intents, k, e) = (intents \ resolved) \cup Intents!Resolve(resolved, k, e)
    BY <2>1 DEF Intents!Correlate
  <2>3. resolved = Intents!LatestOf(intents, e) /\ resolved \subseteq intents
    BY <2>1 DEF Intents!LatestOf
  <2>4. ASSUME NEW intent \in intents \ resolved PROVE intent \in TrueIntents(k)
    <3> SUFFICES ASSUME intent.intent_id = t PROVE intent \in resolved
      BY <1>2, <1>3, <2>1, HookKinds
    <3>1. intent \in {i \in intents : i.kind = e.kind /\ i.intent_id = Intents!IntentId(e)}
      BY <1>2, <2>1
    <3>2. \A other \in intents : other.intent_id = t =>
            other.requested_seq = intent.requested_seq /\ other.requested_seq \in Nat
      <4> TAKE other \in intents
      <4> HAVE other.intent_id = t
      <4>1. other.requested_seq \in RequestsOf(t) /\ intent.requested_seq \in RequestsOf(t)
        BY <1>2
      <4> QED
        BY <1>1, <2>1, <4>1 DEF Told
    <3>3. \A other \in intents : other.intent_id = t => other.requested_seq <= intent.requested_seq
      <4> TAKE other \in intents
      <4> HAVE other.intent_id = t
      <4>1. other.requested_seq = intent.requested_seq /\ other.requested_seq \in Nat
        BY <3>2
      <4> QED
        BY <4>1
    <3>4. intent \in Intents!LatestOf(intents, e)
      BY <2>1, <3>1, <3>3 DEF Intents!LatestOf
    <3> QED
      BY <2>3, <3>4
  <2>5. ASSUME NEW intent \in resolved, intent.status # "completed"
        PROVE  [intent EXCEPT !.status = IF e.role = "acknowledgement" THEN "completed" ELSE "pending",
                              !.resolved_seq = k] \in TrueIntents(k)
    <3>1. intent \in intents /\ intent.intent_id = t
      BY <2>1, <2>3 DEF Intents!LatestOf
    <3>2. PICK new : new = [intent EXCEPT !.status = IF e.role = "acknowledgement" THEN "completed" ELSE "pending",
                                          !.resolved_seq = k]
      OBVIOUS
    <3>3. PICK type : type = log[k].type
      OBVIOUS
    <3>4. new \in IntentRecords /\ new.intent_id = t /\ new.requested_seq = intent.requested_seq
          /\ new.status = IF type = "tool.completed" THEN "completed" ELSE "pending"
      <4>1. (IF e.role = "acknowledgement" THEN "completed" ELSE "pending") = IF type = "tool.completed"
                                                                              THEN "completed" ELSE "pending"
        BY <2>1, <3>3
      <4>2. intent \in IntentRecords
        BY <1>2, <3>1
      <4> HIDE DEF e, t
      <4> QED
        BY <1>1, <3>1, <3>2, <4>1, <4>2 DEF IntentRecords
    <3>5. OutcomeBy(t, type, k) /\ type \in {"tool.completed", "tool.failed"}
      <4>1. k \in 1..k
        BY <1>1
      <4> QED
        BY <1>5, <2>1, <3>3, <4>1 DEF OutcomeBy, Outcomes
    <3>6. TrueStatus(new.status, t, k)
      BY <3>4, <3>5 DEF TrueStatus
    <3>7. new.requested_seq \in RequestsOf(t)
      BY <1>2, <3>1, <3>4
    <3> QED
      BY <3>2, <3>4, <3>6, <3>7 DEF TrueIntents
  <2>6. ASSUME NEW intent \in resolved, intent.status = "completed" PROVE intent \in TrueIntents(k)
    BY <1>3, <2>3, <2>6
  <2>7. Intents!Resolve(resolved, k, e) \subseteq TrueIntents(k)
    <3> HIDE DEF resolved, e
    <3> QED
      BY <2>5, <2>6 DEF Intents!Resolve
  <2> QED
    BY <2>2, <2>4, <2>7
<1>6. CASE log[k].type \notin ToolEvents
  <2>1. e.role = "none"
    BY <1>6, CorrelatedParts
  <2>2. Intents!Correlate(intents, k, e) = intents
    BY <2>1 DEF Intents!Correlate
  <2> QED
    BY <1>3, <1>6, <2>2 DEF ToolEvents
<1> QED
  BY <1>4, <1>5, <1>6 DEF ToolEvents

\* The pending intents of the ledger are borne out by it.
LEMMA PendingIntentsTrue ==
  ASSUME TypeOK, Told
  PROVE  PendingIntents \in SUBSET TrueIntents(Len(log))
<1>1. Len(log) \in Nat /\ DOMAIN log = 1..Len(log)
  BY DEF TypeOK
<1>2. DOMAIN Correlation = 1..Len(log) /\ PendingIntents = Intents!DerivePendingIntent(Correlation, DOMAIN Correlation)
  BY <1>1 DEF Correlation, PendingIntents
<1>3. PICK intents : /\ intents[0] = {}
                     /\ \A k \in 1..Len(log) : intents[k] = Intents!Correlate(intents[k - 1], k, Correlation[k])
                     /\ Intents!DerivePendingIntent(Correlation, DOMAIN Correlation) = intents[Len(log)]
  BY <1>1, <1>2, DerivationSteps
<1> DEFINE good == {k \in 0..Len(log) : intents[k] \in SUBSET TrueIntents(k)}
<1>4. 0 \in good
  BY <1>1, <1>3
<1>5. ASSUME NEW k \in 0..(Len(log) - 1), k \in good PROVE k + 1 \in good
  <2>1. k + 1 \in 1..Len(log) /\ (k + 1) - 1 = k /\ k + 1 \in 0..Len(log)
    BY <1>1
  <2>2. intents[k + 1] = Intents!Correlate(intents[k], k + 1, Correlated(log[k + 1]))
    BY <1>1, <1>3, <2>1, CorrelatedParts
  <2>3. intents[k] \in SUBSET TrueIntents((k + 1) - 1)
    BY <1>5, <2>1
  <2>4. intents[k + 1] \in SUBSET TrueIntents(k + 1)
    BY <1>1, <2>1, <2>2, <2>3, CorrelateTrue
  <2> QED
    BY <2>1, <2>4
<1>6. Len(log) \in good
  <2> HIDE DEF good
  <2> QED
    BY <1>1, <1>4, <1>5, UpTo
<1> QED
  BY <1>2, <1>3, <1>6

\* They never claim an outcome that the tool did not have, and show one whose hook
\* returned it.
LEMMA IntentsTrue ==
  ASSUME HookInv, TruthInv
  PROVE  IntentsAreTrue
<1> SUFFICES ASSUME NEW intent \in PendingIntents, NEW t, t = intent.intent_id
             PROVE  /\ intent.status = "completed" => tool[t] = "ok"
                    /\ intent.status = "pending" => tool[t] = "failed"
                    /\ local[Post(t)].primary # 0 =>
                         intent.status = IF tool[t] = "ok" THEN "completed" ELSE "pending"
  BY DEF IntentsAreTrue, Post
<1>1. TypeOK /\ Ordered /\ Told /\ DOMAIN log = 1..Len(log)
  BY DEF HookInv, TruthInv, TypeOK
<1>2. /\ t \in Tools /\ intent.status \in {"in_progress", "completed", "pending"}
      /\ TrueStatus(intent.status, t, Len(log))
  BY <1>1, PendingIntentsTrue DEF TrueIntents, IntentRecords
<1>3. \A type \in Outcomes : OutcomeBy(t, type, Len(log)) =>
        /\ type = IF tool[t] = "ok" THEN "tool.completed" ELSE "tool.failed"
        /\ tool[t] # "asked"
  <2> SUFFICES ASSUME NEW type \in Outcomes, NEW s \in 1..Len(log), log[s].type = type, log[s].by = Post(t)
               PROVE  /\ type = IF tool[t] = "ok" THEN "tool.completed" ELSE "tool.failed"
                      /\ tool[t] # "asked"
    BY DEF OutcomeBy
  <2>1. Post(t) \in Hooks /\ Post(t).tool = t
    BY <1>2, HookKinds
  <2>2. Fired(Post(t)) /\ type = IF tool[t] = "ok" THEN "tool.completed" ELSE "tool.failed"
    BY <1>1, <2>1, ToolEventsOf
  <2> QED
    BY <1>1, <1>2, <2>2 DEF Ordered
<1>4. tool[t] \in {"asked", "ok", "failed"}
  BY <1>1, <1>2 DEF TypeOK
<1>5. local[Post(t)].primary # 0 =>
        OutcomeBy(t, IF tool[t] = "ok" THEN "tool.completed" ELSE "tool.failed", Len(log))
  <2> SUFFICES ASSUME local[Post(t)].primary # 0
               PROVE  OutcomeBy(t, IF tool[t] = "ok" THEN "tool.completed" ELSE "tool.failed", Len(log))
    OBVIOUS
  <2>1. Post(t) \in Hooks /\ Primary(Post(t))
        /\ PrimaryType(Post(t)) = IF tool[t] = "ok" THEN "tool.completed" ELSE "tool.failed"
    BY <1>2, HookKinds, PrimaryTypes DEF HookInv
  <2>2. NewLocal.primary = 0
    BY DEF NewLocal
  <2>3. local[Post(t)].primary \in Acks(Post(t))
    BY <2>1, <2>2 DEF Primary
  <2>4. Acks(Post(t)) \subseteq 1..Len(log)
    BY <1>1 DEF Acks, TypeOK
  <2> QED
    BY <2>1, <2>3, <2>4 DEF OutcomeBy, Acks
<1>6. "tool.completed" \in Outcomes /\ "tool.failed" \in Outcomes
  BY DEF Outcomes
<1> QED
  BY <1>2, <1>3, <1>4, <1>5, <1>6 DEF TrueStatus

\* Whatever hooks are lost, refused or killed, what the ledger tells of tools and of
\* the workspace is what happened: the pending intents claim no outcome that a tool
\* did not have, and have those whose hooks returned; a change is reported exactly if
\* the call made one, with the statuses before and after it, against the status that
\* its request carries.
THEOREM ObservationsTrue == Spec => []ObservationsAreTrue
<1>1. HookInv /\ TruthInv => IntentsAreTrue /\ ChangesAreReported
  BY IntentsTrue, ChangesAreTrue
<1> QED
  BY <1>1, HookInvariant, TruthInvariant, ChangesRequested, PTL DEF ObservationsAreTrue
=============================================================================
