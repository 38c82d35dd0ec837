-------------------------------- MODULE Lineage --------------------------------
(***************************************************************************)
(* Runs, the runs forked from them, and what is read of that forest: diff in  *)
(* src/engine/engine.ts, the lineage query of src/storage/local-backend.ts,    *)
(* the walk for claims in src/context/lineage.ts, and the timeline of           *)
(* src/ui/views.ts.  Each reads other records: the store and the inspector the  *)
(* run records, the engine and the context builder the agent.forked events.     *)
(*                                                                           *)
(* The store answers as RunLog promises; an append is one step.  Between        *)
(* backend.fork and its agent.forked event a run is listed, and others may use   *)
(* it; the forking process may die there.  A checkpoint is known by its run and  *)
(* its cursor; runs are numbered as they are created, and run ids sort so.       *)
(***************************************************************************)
EXTENDS Naturals, Sequences, FiniteSetsExt, SequencesExt

CONSTANTS MaxRuns,    \* bound: runs
          MaxEvents,  \* bound: events of all runs
          MaxObservations,  \* bound: those of them that are no checkpoint, restore or fork
          MaxMillis,  \* bound: the times that checkpoints are created at, in milliseconds
          MaxLate     \* bound: the checkpoints that are not created at the first of these

ASSUME LineageAssumption ==
  /\ MaxRuns \in Nat \ {0} /\ MaxEvents \in Nat \ {0} /\ MaxObservations \in Nat
  /\ MaxMillis \in Nat /\ MaxLate \in Nat

VARIABLES runs,    \* run.json of each run: [parent, from], 0 for none
          ledger,  \* [runs -> its events]
          forking  \* the runs whose fork() has not yet appended agent.forked

forestVars == <<runs, ledger, forking>>

Runs == DOMAIN runs

\* Of an event: the checkpoint that it names, or created_at, by its type.
Event(type, run, seq, at) == [type |-> type, run |-> run, seq |-> seq, at |-> at]

Ref(run, seq) == [run |-> run, seq |-> seq]
None == Ref(0, 0)
Positions == [run : Runs, seq : Nat]

CheckpointSeqs(r) == {seq \in DOMAIN ledger[r] : ledger[r][seq].type = "checkpoint"}
Checkpoints == UNION {{Ref(r, seq) : seq \in CheckpointSeqs(r)} : r \in Runs}

-----------------------------------------------------------------------------
(* The forest grows.                                                         *)

\* A run with its first checkpoint.
ForestInit ==
  /\ runs = <<[parent |-> 0, from |-> 0]>>
  /\ ledger = <<<<Event("checkpoint", 1, 0, 0)>>>>
  /\ forking = {}

CanAppend == MapThenSumSet(LAMBDA r : Len(ledger[r]), Runs) < MaxEvents

AppendEvent(r, event) ==
  /\ CanAppend
  /\ ledger' = [ledger EXCEPT ![r] = Append(@, event)]

\* #fold: where a run is at, the checkpoint it created or was restored to last.
Current(r) ==
  LET moves == {seq \in DOMAIN ledger[r] : ledger[r][seq].type \in {"checkpoint", "restored"}}
  IN  IF moves = {} THEN 0
      ELSE IF ledger[r][Max(moves)].type = "restored" THEN ledger[r][Max(moves)].seq ELSE Max(moves)

Observations(r) == {seq \in DOMAIN ledger[r] : ledger[r][seq].type = "observation"}

Record(r) ==
  /\ MapThenSumSet(LAMBDA q : Cardinality(Observations(q)), Runs) < MaxObservations
  /\ AppendEvent(r, Event("observation", 0, 0, 0))
  /\ UNCHANGED <<runs, forking>>

\* checkpoint: its parent is the current checkpoint, if there is one.  The wall clock
\* may show any time.
TakeCheckpoint(r) ==
  /\ \E at \in 0..MaxMillis : AppendEvent(r, Event("checkpoint", r, Current(r), at))
  /\ MapThenSumSet(LAMBDA q : Cardinality({seq \in DOMAIN ledger'[q] : ledger'[q][seq].at # 0}), Runs) <= MaxLate
  /\ UNCHANGED <<runs, forking>>

\* resume or rollback.
RestoreTo(r, seq) ==
  /\ AppendEvent(r, Event("restored", r, seq, 0))
  /\ UNCHANGED <<runs, forking>>

\* fork: backend.fork creates the run.
Fork(r, seq) ==
  /\ Len(runs) < MaxRuns
  /\ runs' = Append(runs, [parent |-> r, from |-> seq])
  /\ ledger' = Append(ledger, <<>>)
  /\ forking' = forking \cup {Len(runs) + 1}

\* fork, once the worktree is materialized.
AppendForked(r) ==
  /\ r \in forking
  /\ AppendEvent(r, Event("forked", runs[r].parent, runs[r].from, 0))
  /\ forking' = forking \ {r}
  /\ UNCHANGED runs

\* fork fails, or its process dies, before that.
ForkDies(r) ==
  /\ r \in forking
  /\ forking' = forking \ {r}
  /\ UNCHANGED <<runs, ledger>>

ForestNext ==
  \E r \in Runs :
    \/ Record(r) \/ TakeCheckpoint(r) \/ AppendForked(r) \/ ForkDies(r)
    \/ \E seq \in CheckpointSeqs(r) : RestoreTo(r, seq) \/ Fork(r, seq)

ForestSpec == ForestInit /\ [][ForestNext]_forestVars

-----------------------------------------------------------------------------
(* Engine: diff.                                                             *)

\* The agent.forked event that a run's view keeps.
ForkedFrom(r) ==
  LET forks == {seq \in DOMAIN ledger[r] : ledger[r][seq].type = "forked"}
  IN  IF forks = {} THEN None
      ELSE Ref(ledger[r][Max(forks)].run, ledger[r][Max(forks)].seq)

\* #lineage: from the checkpoint up through the runs it was forked from.
\* Runs only fork from older ones, so the chain ends.
EngineLineage[c \in Positions] ==
  IF ForkedFrom(c.run) = None THEN <<c>> ELSE <<c>> \o EngineLineage[ForkedFrom(c.run)]

\* The cursor at which a lineage leaves the run, or 0.
SeqIn(lineage, r) ==
  LET entries == {i \in DOMAIN lineage : lineage[i].run = r}
  IN  IF entries = {} THEN 0 ELSE lineage[Min(entries)].seq

\* Mutant: the range starts where the other checkpoint's own cursor is.
DiffRangeOfCursor(c, other) ==
  LET start == IF other.run = c.run THEN other.seq ELSE 0
  IN  Min({start, c.seq})..c.seq

\* diff: the range of c's own run beyond the first run of its lineage that is also
\* in the other's, as the numbers from its exclusive start to the cursor.
DiffRange(c, other) ==
  LET mine == EngineLineage[c]
      theirs == EngineLineage[other]
      shared == {i \in DOMAIN mine : \E j \in DOMAIN theirs : theirs[j].run = mine[i].run}
      start == IF shared # {} /\ Min(shared) = 1 THEN Min({c.seq, SeqIn(theirs, c.run)}) ELSE 0
  IN  Min({start, c.seq})..c.seq

-----------------------------------------------------------------------------
(* Context Builder: the walk for claims.                                     *)

ParentOf(c) == ledger[c.run][c.seq].seq

\* #loadForkOrigin: only the event at seq 1 makes a run a fork.
ForkOrigin(r) ==
  IF ledger[r][1].type = "forked" THEN Ref(ledger[r][1].run, ledger[r][1].seq) ELSE None

\* previous: the parent, else the checkpoint that the run was forked from.
Previous(c) == IF ParentOf(c) # 0 THEN Ref(c.run, ParentOf(c)) ELSE ForkOrigin(c.run)

\* The checkpoints that selectClaims asks for claims, nearest first.
ClaimWalk[c \in Checkpoints \cup {None}] ==
  IF c = None THEN <<>> ELSE <<c>> \o ClaimWalk[Previous(c)]

-----------------------------------------------------------------------------
(* Storage: the lineage query.                                               *)

\* The elements of a finite set in order: LastOf(T) is the last of a part of them.
InOrder(S, LastOf(_)) == MapThenFoldSet(LAMBDA x, before : Append(before, x), <<>>, LAMBDA x : x, LastOf, S)

\* Checkpoints of a run, in checkpoint order.
RefsOf(r, seqs) == LET list == InOrder(seqs, Max) IN [i \in DOMAIN list |-> Ref(r, list[i])]

ListCheckpoints(r) == RefsOf(r, CheckpointSeqs(r))

\* A checkpoint and its ancestors of the same run.
Chain[c \in Checkpoints] ==
  {c.seq} \cup (IF ParentOf(c) = 0 THEN {} ELSE Chain[Ref(c.run, ParentOf(c))])

\* Of each fork parent, outermost first, the checkpoint forked and its ancestors.
ParentSegments[r \in Runs] ==
  IF runs[r].parent = 0 THEN <<>>
  ELSE ParentSegments[runs[r].parent]
         \o RefsOf(runs[r].parent, Chain[Ref(runs[r].parent, runs[r].from)])

\* Mutant: of a parent run, every checkpoint up to the one that was forked.
LineageCheckpointsAll(r) ==
  LET Segments[q \in Runs] ==
        IF runs[q].parent = 0 THEN <<>>
        ELSE Segments[runs[q].parent]
               \o RefsOf(runs[q].parent, CheckpointSeqs(runs[q].parent) \cap (1..runs[q].from))
  IN  Segments[r] \o ListCheckpoints(r)

\* #lineageCheckpoints
LineageCheckpoints(r) == ParentSegments[r] \o ListCheckpoints(r)

-----------------------------------------------------------------------------
(* Inspector: the timeline.                                                  *)

\* The runs forked from one, in the order of their ids.
Forks(r) == InOrder({f \in Runs : runs[f].parent = r}, Max)

\* The run and those forked from it, breadth first: after n rounds of the loop, those
\* of which it has taken n from the queue.  A run has one parent, so none comes twice.
BreadthFirst(r) ==
  LET Order[n \in 0..Len(runs)] ==
        IF n = 0 THEN <<r>>
        ELSE LET before == Order[n - 1]
             IN  before \o (IF n \in DOMAIN before THEN Forks(before[n]) ELSE <<>>)
  IN  Order[Len(runs)]

CreatedAt(c) == ledger[c.run][c.seq].at

Entries(r) == LET shown == Range(BreadthFirst(r)) IN {c \in Checkpoints : c.run \in shown}

\* Mutant: checkpoints of one millisecond are ordered by their number.
TimelineByNumber(r) ==
  LET Earlier(x, y) == \/ CreatedAt(x) < CreatedAt(y)
                       \/ CreatedAt(x) = CreatedAt(y) /\ x.seq < y.seq
  IN  InOrder(Entries(r), LAMBDA T : CHOOSE x \in T : \A y \in T \ {x} : ~Earlier(x, y))

\* timeline: by created_at, then the order of the runs, then the number.
Timeline(r) ==
  LET order == BreadthFirst(r)
      RunIndex(c) == CHOOSE i \in DOMAIN order : order[i] = c.run
      Earlier(x, y) == \/ CreatedAt(x) < CreatedAt(y)
                       \/ /\ CreatedAt(x) = CreatedAt(y)
                          /\ RunIndex(x) < RunIndex(y) \/ (x.run = y.run /\ x.seq < y.seq)
  IN  InOrder(Entries(r), LAMBDA T : CHOOSE x \in T : \A y \in T \ {x} : Earlier(y, x))

\* #forkSourceCommit: the checkpoint that the run's record names.
ForkSource(r) == Ref(runs[r].parent, runs[r].from)

\* The parentId of a node, and what the changed paths of a checkpoint are relative to.
NodeParent(c) == IF ParentOf(c) # 0 THEN Ref(c.run, ParentOf(c)) ELSE ForkSource(c.run)

\* The ledger pane of a checkpoint: the events after its same-run parent.
LedgerRange(c) == Min({ParentOf(c), c.seq})..c.seq

-----------------------------------------------------------------------------
(* Properties.                                                               *)

\* The positions of the runs: 0 before the first event.
Places == {x \in Positions : x.seq <= Len(ledger[x.run])}

\* What a position goes on from: the event before it, the checkpoint restored, or that
\* which the run announced that it was forked from.
GoesOnFrom(x) ==
  IF x.seq = 0 THEN ForkedFrom(x.run)
  ELSE IF ledger[x.run][x.seq].type = "restored" THEN Ref(x.run, ledger[x.run][x.seq].seq)
  ELSE Ref(x.run, x.seq - 1)

\* The events that led to a position, without those of the branches that were left.
Descent[x \in Places] ==
  (IF x.seq = 0 THEN {} ELSE {x}) \cup (IF GoesOnFrom(x) = None THEN {} ELSE Descent[GoesOnFrom(x)])

\* All events up to a checkpoint, of its own run and of those it came from.
Covered(c) == UNION {{Ref(entry.run, seq) : seq \in 1..entry.seq} : entry \in Range(EngineLineage[c])}

\* Whichever branches two checkpoints are on, a side's range shows no event that led to
\* both; and of the events of its own run that led to it and not to the other it leaves
\* out none, but for those of a branch that the other's lineage left before its cursor.
\* "The events that side holds beyond the two checkpoints' common ancestor" (types.ts)
\* would have these too: after c1, an effect, c2, a rollback to c1 and c3, the diff of
\* c2 and c3 does not show the effect.
DiffRangesExact ==
  \A b \in Checkpoints :
    LET theirs == Descent[b]
        covered == Covered(b)
    IN  \A a \in Checkpoints \ {b} :
          LET range == DiffRange(a, b)
              shown == {Ref(a.run, seq) : seq \in range \ {Min(range)}}
              beyond == {x \in Descent[a] : x.run = a.run} \ theirs
          IN  /\ shown \cap theirs = {}
              /\ beyond \ shown = beyond \cap covered

\* A run and those that it comes from.
Ancestry[r \in Runs] == {r} \cup (IF runs[r].parent = 0 THEN {} ELSE Ancestry[runs[r].parent])

\* Every fork on the way to this run announced itself before anything else.
Announced(r) ==
  \A q \in Ancestry[r] : runs[q].parent = 0 \/ (ledger[q] # <<>> /\ ledger[q][1].type = "forked")

\* The reads agree on where a checkpoint comes from, across forks and restores: a
\* claim that a resumed agent is shown is one that the lineage query lists, in the
\* order of the lineage; and the inspector's parent is the one the walk goes to.
\* A fork that died, or that another process wrote to first, is a run of its own
\* to the walk, and a part of its parent's lineage to the others.  The events that a
\* checkpoint's pane lists are those that diff finds it holds beyond its parent.
LineagesAgree ==
  \A c \in Checkpoints :
    LET walk == ClaimWalk[c]
        listed == LineageCheckpoints(c.run)
    IN  /\ Range(walk) \subseteq Range(listed)
        /\ \A i, j \in DOMAIN listed, k, l \in DOMAIN walk :
             listed[i] = walk[k] /\ listed[j] = walk[l] => (i < j <=> l < k)
        /\ NodeParent(c).run # 0 => DiffRange(c, NodeParent(c)) = LedgerRange(c)
        /\ Announced(c.run) =>
              /\ NodeParent(c) = Previous(c)
              /\ \A x \in Range(listed) : x.run # c.run => x \in Range(walk)

\* A run's timeline shows its checkpoints and those of every run forked from it,
\* each after its parent, though many are created in one millisecond, unless the clock
\* went back in between.
TimelineParentsFirst ==
  \A r \in Runs :
    LET timeline == Timeline(r)
    IN  /\ Range(timeline) = {c \in Checkpoints : r \in Ancestry[c.run]}
        /\ \A i, j \in DOMAIN timeline :
             timeline[i] = NodeParent(timeline[j]) /\ CreatedAt(timeline[i]) <= CreatedAt(timeline[j])
               => i < j
=============================================================================
