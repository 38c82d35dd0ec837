------------------------------- MODULE RunStore -------------------------------
(***************************************************************************)
(* One run in the store of src/storage/local-backend.ts, written by several *)
(* LocalBackend instances (processes) at a time.  The truth about the run is *)
(* durable: run.json, the ledger events.jsonl, the state blobs in CAS and    *)
(* the checkpoint refs in git.  checkpoint.db is an index of it that readers *)
(* see.  A backend does one mutation at a time (#exclusive), writes only     *)
(* under the run's lock, and caches the lock with the ledger head as its     *)
(* writer until a write fails or it closes.                                  *)
(*                                                                           *)
(* One step per durable write, lock operation or index transaction.  Every   *)
(* write may fail, and a process may die, between any two of them; a ledger  *)
(* line may also be cut short or be written whole by an append that fails.   *)
(* The lock is the ideal one that RunLock is meant to implement.             *)
(***************************************************************************)
EXTENDS Naturals, Sequences, FiniteSets, FiniteSetsExt

CONSTANTS Backends,  \* LocalBackend instances, each in a process of its own
          None,      \* no backend
          MaxCalls   \* bound: calls of appendEvent and createCheckpoint

ASSUME RunStoreAssumption ==
  /\ None \notin Backends
  /\ MaxCalls \in Nat

VARIABLES runDir,     \* how far createRun got: "none", "dir" or "complete" (run.json)
          events,     \* the complete lines of events.jsonl
          torn,       \* events.jsonl ends in a line without its newline
          refs,       \* git refs refs/checkpoints/<run>/c_<n>
          blobs,      \* agent state objects in CAS
          index,      \* this run's rows of checkpoint.db
          lock,       \* the backend holding the run's lock, or None
          pc,         \* [Backends -> the step its current mutation is at]
          writer,     \* [Backends -> its cached writer of this run, or NoWriter]
          op,         \* [Backends -> the locals of its current mutation]
          calls,      \* calls of appendEvent and createCheckpoint so far
          announced,  \* the run's id has been returned by createRun or indexed
          acked,      \* events whose append was acknowledged to its caller
          overlooked  \* a reindex that listed runs/ before this run cleared its rows

durable == <<runDir, events, torn, refs, blobs>>
history == <<calls, announced, acked, overlooked>>
vars == <<durable, index, lock, pc, writer, op, history>>

-----------------------------------------------------------------------------
(* Events, checkpoints and what a process keeps of them.  A call seals at    *)
(* most one event; its number stands for the event's hash and, if it is a    *)
(* checkpoint, for the workspace commit.                                     *)

Ids == 1..MaxCalls
GenesisHash == 0
NoParent == 0

Checkpoints == [n : Nat \ {0}, parent : Nat, commit : Ids, seq : Nat \ {0}]
NoCheckpoint == [n |-> 0, parent |-> NoParent, commit |-> 0, seq |-> 0]

Events == [seq : Nat \ {0}, hash : Ids, prev : 0..MaxCalls,
           checkpoint : Checkpoints \cup {NoCheckpoint}]
NoEvent == [seq |-> 0, hash |-> 0, prev |-> 0, checkpoint |-> NoCheckpoint]

\* A line written after a torn tail runs into it: no ledger event.
Garbage == NoEvent

States == [n : Nat \ {0}, seq : Nat \ {0}, commit : Ids]
Refs == [n : Nat \ {0}, commit : Ids]

\* What #loadDurableRun returns: the events, the checkpoints whose ref and
\* state blob are durable too, and the next checkpoint number.
Loads == [events : Seq(Events \cup {Garbage}), checkpoints : SUBSET Checkpoints,
          next : Nat \ {0}]
NotLoaded == [events |-> <<>>, checkpoints |-> {}, next |-> 0]

\* A cached writer: the ledger head and the next checkpoint number.
Writers == [seq : Nat, hash : 0..MaxCalls, next : Nat \ {0}]
NoWriter == [seq |-> 0, hash |-> 0, next |-> 0]

Kinds == {"none", "createRun", "append", "checkpoint", "reindex"}
Ops == [kind : Kinds, id : 0..MaxCalls, parent : Nat,
        checkpoint : Checkpoints \cup {NoCheckpoint},
        event : Events \cup {NoEvent},
        loaded : Loads \cup {NotLoaded}, indexed : Nat]
NoOp == [kind |-> "none", id |-> 0, parent |-> NoParent, checkpoint |-> NoCheckpoint,
         event |-> NoEvent, loaded |-> NotLoaded, indexed |-> 0]

EmptyIndex == [run |-> FALSE, events |-> {}, checkpoints |-> {}]

Locations == {"idle", "runfile", "insertrun", "acquire", "load", "roll", "ready",
              "blob", "ref", "append", "index", "rebuild"}

TypeOK ==
  /\ runDir \in {"none", "dir", "complete"}
  /\ events \in Seq(Events \cup {Garbage})
  /\ torn \in BOOLEAN
  /\ refs \in SUBSET Refs
  /\ blobs \in SUBSET States
  /\ index \in [run : BOOLEAN, events : SUBSET (Events \cup {Garbage}),
                checkpoints : SUBSET Checkpoints]
  /\ lock \in Backends \cup {None}
  /\ pc \in [Backends -> Locations]
  /\ writer \in [Backends -> Writers \cup {NoWriter}]
  /\ op \in [Backends -> Ops]
  /\ calls \in 0..MaxCalls
  /\ announced \in BOOLEAN
  /\ acked \in SUBSET Events
  /\ overlooked \in BOOLEAN

-----------------------------------------------------------------------------
(* Reading the durable state.                                                *)

Lines(log) == {log[i] : i \in DOMAIN log}

HeadHash(log, i) == IF i = 0 THEN GenesisHash ELSE log[i].hash

\* verifyChain: the seqs count up from 1 and each event names its predecessor.
VerifyChain(log) ==
  \A i \in DOMAIN log : log[i].seq = i /\ log[i].prev = HeadHash(log, i - 1)

State(c) == [n |-> c.n, seq |-> c.seq, commit |-> c.commit]
Ref(c) == [n |-> c.n, commit |-> c.commit]

\* The checkpoint.created records of a ledger.
Recorded(log) == {e.checkpoint : e \in {e \in Lines(log) : e.checkpoint # NoCheckpoint
                                                         /\ e.checkpoint.seq = e.seq}}

\* Those whose ref points at the recorded commit and whose state blob is in CAS.
Restorable(log) == {c \in Recorded(log) : Ref(c) \in refs /\ State(c) \in blobs}

\* One more than the highest recorded number, restorable or not.
NextNumber(log) == 1 + Max({0} \cup {c.n : c \in Recorded(log)})

LoadDurableRun(log) ==
  [events |-> log, checkpoints |-> Restorable(log), next |-> NextNumber(log)]

WriterOf(loaded) ==
  [seq |-> Len(loaded.events), hash |-> HeadHash(loaded.events, Len(loaded.events)),
   next |-> loaded.next]

\* checkpoint.db: the highest indexed event seq, 0 when there is none.
MaxEventSeq == Max({0} \cup {e.seq : e \in index.events})

\* The rows a transaction inserts must be new: PRIMARY KEY (run_id, seq) and
\* (run_id, n), or the transaction fails.
NewRows(es, cs) ==
  /\ \A e \in es, f \in index.events : e.seq # f.seq
  /\ \A c \in cs, d \in index.checkpoints : c.n # d.n

InsertRows(es, cs) ==
  [index EXCEPT !.events = @ \cup es, !.checkpoints = @ \cup cs]

-----------------------------------------------------------------------------

Init ==
  /\ runDir = "none"
  /\ events = <<>>
  /\ torn = FALSE
  /\ refs = {}
  /\ blobs = {}
  /\ index = EmptyIndex
  /\ lock = None
  /\ pc = [b \in Backends |-> "idle"]
  /\ writer = [b \in Backends |-> NoWriter]
  /\ op = [b \in Backends |-> NoOp]
  /\ calls = 0
  /\ announced = FALSE
  /\ acked = {}
  /\ overlooked = FALSE

Goto(b, location) == pc' = [pc EXCEPT ![b] = location]
Begin(b, o) == op' = [op EXCEPT ![b] = o]

\* The current mutation of b is over: its result or its error is delivered.
Done(b) == Goto(b, "idle") /\ Begin(b, NoOp)

(* createRun ---------------------------------------------------------------*)

\* The run directory and its empty ledger.  Run ids are unique (a ULID), so a
\* run is created by one call.
CreateRun(b) ==
  /\ pc[b] = "idle"
  /\ runDir = "none"
  /\ runDir' = "dir"
  /\ Goto(b, "runfile")
  /\ Begin(b, [NoOp EXCEPT !.kind = "createRun"])
  /\ UNCHANGED <<events, torn, refs, blobs, index, lock, writer, history>>

\* run.json, last: the run exists from here on.
WriteRunFile(b) ==
  /\ pc[b] = "runfile"
  /\ runDir' = "complete"
  /\ Goto(b, "insertrun")
  /\ UNCHANGED <<events, torn, refs, blobs, index, lock, writer, op, history>>

\* The index row; createRun returns the run.
InsertRun(b) ==
  /\ pc[b] = "insertrun"
  /\ ~index.run
  /\ index' = [index EXCEPT !.run = TRUE]
  /\ announced' = TRUE
  /\ Done(b)
  /\ UNCHANGED <<durable, lock, writer, calls, acked, overlooked>>

\* A reindex has indexed the run already: the plain INSERT fails, and so does
\* createRun, although the run exists.
InsertRunConflict(b) ==
  /\ pc[b] = "insertrun"
  /\ index.run
  /\ Done(b)
  /\ UNCHANGED <<durable, index, lock, writer, history>>

(* Getting the writer ------------------------------------------------------*)

\* appendEvent or createCheckpoint is called (and its turn has come).
Call(b, kind, parent) ==
  /\ pc[b] = "idle"
  /\ announced
  /\ calls < MaxCalls
  /\ calls' = calls + 1
  /\ Begin(b, [NoOp EXCEPT !.kind = kind, !.id = calls + 1, !.parent = parent])
  /\ Goto(b, IF writer[b] = NoWriter THEN "acquire" ELSE "ready")
  /\ UNCHANGED <<durable, index, lock, writer, announced, acked, overlooked>>

\* RunLock.acquire succeeds.
AcquireLock(b) ==
  /\ pc[b] = "acquire"
  /\ lock = None
  /\ lock' = b
  /\ Goto(b, "load")
  /\ UNCHANGED <<durable, index, writer, op, history>>

\* Mutant: the caller waits for the lock.
RunLockedWaits(b) ==
  /\ pc[b] = "acquire"
  /\ lock # None
  /\ UNCHANGED vars

\* RunLock.acquire rejects with ERR_RUN_LOCKED, at once.
RunLocked(b) ==
  /\ pc[b] = "acquire"
  /\ lock # None
  /\ Done(b)
  /\ UNCHANGED <<durable, index, lock, writer, history>>

\* Mutant: the torn tail is ignored but not truncated.
LoadWithoutTruncation(b) ==
  /\ pc[b] = "load"
  /\ VerifyChain(events)
  /\ UNCHANGED <<runDir, events, torn, refs, blobs, index, lock, writer, history>>

\* #loadDurableRun truncates a torn tail, verifies the chain (a broken one is
\* ERR_CORRUPT: Drop) and reads the checkpoints.
Load(b) ==
  /\ pc[b] = "load"
  /\ VerifyChain(events)
  /\ torn' = FALSE
  /\ UNCHANGED <<runDir, events, refs, blobs, index, lock, writer, history>>

\* #writer: how far the index goes.  An index ahead of the ledger is ERR_CORRUPT.
LoadWriter(b) ==
  /\ op[b].kind \in {"append", "checkpoint"}
  /\ Load(b)
  /\ MaxEventSeq <= Len(events)
  /\ Begin(b, [op[b] EXCEPT !.loaded = LoadDurableRun(events), !.indexed = MaxEventSeq])
  /\ Goto(b, "roll")

\* Mutant: only the events are rolled forward.
RollForwardEventsOnly(b) ==
  LET loaded == op[b].loaded
      es == {e \in Lines(loaded.events) : e.seq > op[b].indexed}
  IN  /\ pc[b] = "roll"
      /\ NewRows(es, {})
      /\ index' = [InsertRows(es, {}) EXCEPT !.run = TRUE]
      /\ writer' = [writer EXCEPT ![b] = WriterOf(loaded)]
      /\ Goto(b, "ready")
      /\ Begin(b, [op[b] EXCEPT !.loaded = NotLoaded, !.indexed = 0])
      /\ UNCHANGED <<durable, lock, history>>

\* One transaction rolls the index forward to the durable ledger; the writer
\* is cached.
RollForward(b) ==
  LET loaded == op[b].loaded
      es == {e \in Lines(loaded.events) : e.seq > op[b].indexed}
      cs == {c \in loaded.checkpoints : c.seq > op[b].indexed}
  IN  /\ pc[b] = "roll"
      /\ NewRows(es, cs)
      /\ index' = [InsertRows(es, cs) EXCEPT !.run = TRUE]
      /\ writer' = [writer EXCEPT ![b] = WriterOf(loaded)]
      /\ Goto(b, "ready")
      /\ Begin(b, [op[b] EXCEPT !.loaded = NotLoaded, !.indexed = 0])
      /\ UNCHANGED <<durable, lock, history>>

(* The ledger line ---------------------------------------------------------*)

\* #seal: the next event of the chain, after the writer's head.
Sealed(b) ==
  [seq |-> writer[b].seq + 1, hash |-> op[b].id, prev |-> writer[b].hash,
   checkpoint |-> op[b].checkpoint]

\* appendDurable writes at the end of the file, right behind a torn tail.
WriteLine(e) ==
  /\ events' = Append(events, IF torn THEN Garbage ELSE e)
  /\ torn' = FALSE

\* The mutation is about to append its line.
Appending(b) ==
  \/ pc[b] = "ready" /\ op[b].kind = "append"
  \/ pc[b] = "append"

\* The line is durable; the writer's head moves, and after a checkpoint its
\* next number.
AppendLine(b) ==
  /\ Appending(b)
  /\ WriteLine(Sealed(b))
  /\ writer' = [writer EXCEPT ![b].seq = @ + 1, ![b].hash = op[b].id,
                  ![b].next = IF op[b].kind = "checkpoint" THEN @ + 1 ELSE @]
  /\ Begin(b, [op[b] EXCEPT !.event = Sealed(b)])
  /\ Goto(b, "index")
  /\ UNCHANGED <<runDir, refs, blobs, index, lock, history>>

\* The index rows of the event, in one transaction; the call is acknowledged.
IndexRows(b) ==
  LET es == {op[b].event}
      cs == {op[b].checkpoint} \ {NoCheckpoint}
  IN  /\ pc[b] = "index"
      /\ NewRows(es, cs)
      /\ index' = InsertRows(es, cs)
      /\ acked' = acked \cup es
      /\ Done(b)
      /\ UNCHANGED <<durable, lock, writer, calls, announced, overlooked>>

(* createCheckpoint --------------------------------------------------------*)

ParentIndexed(parent) ==
  parent # NoParent => \E c \in index.checkpoints : c.n = parent

\* The run and the parent are indexed; commitTree writes objects that no ref
\* reaches yet.
CommitTree(b) ==
  /\ pc[b] = "ready"
  /\ op[b].kind = "checkpoint"
  /\ index.run
  /\ ParentIndexed(op[b].parent)
  /\ Begin(b, [op[b] EXCEPT !.checkpoint =
                 [n |-> writer[b].next, parent |-> op[b].parent,
                  commit |-> op[b].id, seq |-> writer[b].seq + 1]])
  /\ Goto(b, "blob")
  /\ UNCHANGED <<durable, index, lock, writer, history>>

\* Mutant: the ref is not written.
PutStateOnly(b) ==
  /\ pc[b] = "blob"
  /\ blobs' = blobs \cup {State(op[b].checkpoint)}
  /\ Goto(b, "append")
  /\ UNCHANGED <<runDir, events, torn, refs, index, lock, writer, op, history>>

\* The agent state object goes to CAS.
PutState(b) ==
  /\ pc[b] = "blob"
  /\ blobs' = blobs \cup {State(op[b].checkpoint)}
  /\ Goto(b, "ref")
  /\ UNCHANGED <<runDir, events, torn, refs, index, lock, writer, op, history>>

\* The checkpoint's ref is written, over an orphan of the same number.
UpdateRef(b) ==
  LET c == op[b].checkpoint
  IN  /\ pc[b] = "ref"
      /\ refs' = {r \in refs : r.n # c.n} \cup {Ref(c)}
      /\ Goto(b, "append")
      /\ UNCHANGED <<runDir, events, torn, blobs, index, lock, writer, op, history>>

(* Failures ----------------------------------------------------------------*)

\* The writer is dropped and its lock released, and the mutation rejects.
DropWriter(b) ==
  /\ writer' = [writer EXCEPT ![b] = NoWriter]
  /\ lock' = IF lock = b THEN None ELSE lock
  /\ Done(b)

\* createCheckpoint of an unindexed run or of an unknown parent: ERR_NOT_FOUND.
RejectCheckpoint(b) ==
  /\ pc[b] = "ready"
  /\ op[b].kind = "checkpoint"
  /\ ~(index.run /\ ParentIndexed(op[b].parent))
  /\ DropWriter(b)
  /\ UNCHANGED <<durable, index, history>>

\* The append fails or the process dies in it: part of the line is in the
\* file, or all of it.
AppendFails(b) ==
  /\ Appending(b)
  /\ \/ torn' = TRUE /\ UNCHANGED events
     \/ WriteLine(Sealed(b))
  /\ DropWriter(b)
  /\ UNCHANGED <<runDir, refs, blobs, index, history>>

\* A step of a write fails without effect, or the process is closed or killed
\* (the lock of a dead process is reclaimed by the next acquire: it is free).
Drop(b) ==
  /\ DropWriter(b)
  /\ UNCHANGED <<durable, index, history>>

\* A step of createRun fails; what was written stays.
CreateRunFails(b) ==
  /\ op[b].kind = "createRun"
  /\ Done(b)
  /\ UNCHANGED <<durable, index, lock, writer, history>>

(* reindex -----------------------------------------------------------------*)

\* Mutant: reindex takes no lock.
ReindexUnlocked(b) ==
  /\ pc[b] = "idle"
  /\ Begin(b, [NoOp EXCEPT !.kind = "reindex"])
  /\ Goto(b, IF runDir # "complete" THEN "rebuild" ELSE "load")
  /\ UNCHANGED <<durable, index, lock, writer, history>>

\* runs/ is listed and run.json read: the run is seen only when complete.  Its
\* lock is taken unless this backend holds it already.
Reindex(b) ==
  /\ pc[b] = "idle"
  /\ Begin(b, [NoOp EXCEPT !.kind = "reindex"])
  /\ Goto(b, IF runDir # "complete" THEN "rebuild"
             ELSE IF writer[b] = NoWriter THEN "acquire" ELSE "load")
  /\ UNCHANGED <<durable, index, lock, writer, history>>

LoadReindex(b) ==
  /\ op[b].kind = "reindex"
  /\ Load(b)
  /\ Begin(b, [op[b] EXCEPT !.loaded = LoadDurableRun(events)])
  /\ Goto(b, "rebuild")

\* The locks taken for the reindex are released; a cached writer keeps its own.
ReleaseTaken(b) ==
  lock' = IF lock = b /\ writer[b] = NoWriter THEN None ELSE lock

\* One transaction clears every row and inserts what was loaded; a cached
\* writer is refreshed.
Rebuild(b) ==
  LET loaded == op[b].loaded
      seen == loaded # NotLoaded
  IN  /\ pc[b] = "rebuild"
      /\ index' = IF seen THEN [run |-> TRUE, events |-> Lines(loaded.events),
                                checkpoints |-> loaded.checkpoints]
                  ELSE EmptyIndex
      /\ writer' = IF seen /\ writer[b] # NoWriter
                   THEN [writer EXCEPT ![b] = WriterOf(loaded)]
                   ELSE writer
      /\ ReleaseTaken(b)
      /\ announced' = (announced \/ seen)
      /\ overlooked' = (overlooked \/ (~seen /\ announced))
      /\ Done(b)
      /\ UNCHANGED <<durable, calls, acked>>

\* A step of reindex fails: nothing is rebuilt.
ReindexFails(b) ==
  /\ op[b].kind = "reindex"
  /\ ReleaseTaken(b)
  /\ Done(b)
  /\ UNCHANGED <<durable, index, writer, history>>

-----------------------------------------------------------------------------

\* The mutation that b has begun goes on, failing only for its own reasons.
Progress(b) ==
  \/ WriteRunFile(b) \/ InsertRun(b) \/ InsertRunConflict(b)
  \/ AcquireLock(b) \/ RunLocked(b) \/ LoadWriter(b) \/ RollForward(b)
  \/ AppendLine(b) \/ IndexRows(b)
  \/ CommitTree(b) \/ RejectCheckpoint(b) \/ PutState(b) \/ UpdateRef(b)
  \/ LoadReindex(b) \/ Rebuild(b)

\* What its callers and its environment do to b.
Environment(b) ==
  \/ CreateRun(b)
  \/ Call(b, "append", NoParent)
  \/ \E parent \in 0..MaxCalls : Call(b, "checkpoint", parent)
  \/ Reindex(b)
  \/ AppendFails(b) \/ Drop(b) \/ CreateRunFails(b) \/ ReindexFails(b)

Next == \E b \in Backends : Progress(b) \/ Environment(b)

Spec == Init /\ [][Next]_vars

\* Node runs the continuation of every settled promise: a live backend goes on.
\* Nothing obliges callers to call, or steps to fail.
Fairness == \A b \in Backends : WF_vars(Progress(b))

FairSpec == Spec /\ Fairness

-----------------------------------------------------------------------------
(* Properties *)

\* The ledger on disk is an unbroken hash chain at every moment, and no line of
\* it runs into the torn tail of another: what verifyChain accepts when the
\* next process takes the lock, whatever failed or died before.
LedgerChain == VerifyChain(events)

\* What readers see is whole: a prefix of the ledger without a gap, and
\* checkpoints whose event is in the ledger, whose ref points at their commit,
\* whose state is in CAS, that have their number for themselves and a parent
\* that is visible and older.  A reindex that has overlooked the run takes
\* events and parents away.  ("A crash at any earlier point leaves no visible
\* partial checkpoint".)
VisibleIsWhole ==
  /\ ~overlooked => index.events = {events[i] : i \in 1..MaxEventSeq}
  /\ \A c \in index.checkpoints :
       /\ c \in Restorable(events)
       /\ \A d \in index.checkpoints : d.n = c.n => d = c
       /\ ~overlooked /\ c.parent # NoParent =>
            \E d \in index.checkpoints : d.n = c.parent /\ d.seq < c.seq

\* The index that a reindex would build now.
RebuiltIndex ==
  [run |-> TRUE, events |-> Lines(events), checkpoints |-> Restorable(events)]

\* Between its mutations a backend that holds the writer agrees with the disk,
\* and the index is what reindex would rebuild: roll-forward and the failure
\* paths lose and invent nothing.
WriterConverged ==
  \A b \in Backends :
    writer[b] # NoWriter /\ pc[b] \in {"idle", "ready"} =>
      /\ lock = b
      /\ ~torn
      /\ writer[b] = WriterOf(LoadDurableRun(events))
      /\ ~overlooked => index = RebuiltIndex

\* An event that was acknowledged, or that readers can see, is in the ledger, and
\* stays there ("appended and fsynced before the append is acknowledged").
AckedDurable == acked \cup index.events \subseteq Lines(events)

\* Every call of a backend ends, whatever the other backends hold: the lock is
\* refused at once, never waited for.
CallsEnd == \A b \in Backends : pc[b] # "idle" ~> pc[b] = "idle"

\* The store implements RunLog: the log is the ledger file, and what readers
\* see of it is the index.
Log == INSTANCE RunLog WITH
  Entries <- Events,
  log <- events,
  shown <- MaxEventSeq,
  acked <- acked,
  reliable <- ~overlooked

ImplementsRunLog == Log!Spec
=============================================================================
