---------------------------- MODULE Projections ----------------------------
(***************************************************************************)
(* Semantic projections of the checkpoints of one run: the declared ones     *)
(* (Ckpt.save of src/sdk, CheckpointEngine's #putDeclaredProjection) and the  *)
(* distilled ones (`ckpt distill`: src/cli/commands/distill.ts and            *)
(* src/distill), their blobs in the content-addressed store                  *)
(* (src/storage/cas.ts), and their index in checkpoint.db, which              *)
(* putProjection writes and reindex() rebuilds.                               *)
(*                                                                           *)
(* One process writes the run: its SDK saves, and an adapter that shares its  *)
(* engine makes checkpoints and restores.  Others distill, which takes no     *)
(* lock, or reindex, which takes the run's.  A process may die, a write may   *)
(* fail, and the power may go.                                                *)
(*                                                                           *)
(* The state of a checkpoint, its hash and its commit are its number.  The    *)
(* index rows of runs, events and checkpoints follow the ledger (RunStore).   *)
(***************************************************************************)
EXTENDS Naturals, Sequences, FiniteSets, SequencesExt, FiniteSetsExt

CONSTANTS Saves,          \* calls of save()
          Others,         \* processes that distill or reindex
          Replies,        \* what a provider may claim: sets of cited evidence, one set per claim
          Costs,          \* what a call may cost
          Cap,            \* DEFAULT_BUDGET_USD
          None, Writer,
          FanOut(_),      \* the directory of a blob: the first digits of its address
          OldDirs,        \* the directories that earlier runs left in the store, which are on disk
          MaxLog,         \* bound: events in the ledger
          MaxDistills,    \* bound: calls of the provider
          MaxReindexes,   \* bound
          MaxFailures     \* bound: deaths of a process, failed writes, losses of power

ASSUME ProjectionsAssumption ==
  /\ Costs \subseteq Nat /\ Cap \in Nat \ {0}
  /\ None \notin Others /\ Writer \notin Others

VARIABLES log,        \* the ledger: [type, cp, save]
          lock,       \* the holder of the run's lock
          blobs,      \* projections that a blob holds
          synced,     \* those whose entry in their directory is on disk
          entered,    \* directories whose own entry in objects/sha256 is on disk
          lost,       \* projections whose directory a loss of power took
          rows,       \* projections that checkpoint.db lists
          pc, job,    \* what each process is doing
          saves,      \* [Saves -> status of the call]
          line,       \* saves not settled yet, in call order
          billed,     \* what the provider was paid
          acked,      \* projections whose put returned
          raced,      \* projections whose rows were inserted during another process's reindex
          distills, reindexes, failures

vars == <<log, lock, blobs, synced, entered, lost, rows, pc, job, saves, line, billed, acked, raced,
          distills, reindexes, failures>>

Procs == Others \cup {Writer}

NoPut == [id |-> <<>>, cp |-> 0, source |-> None, from |-> 0, claims |-> {}, cost |-> 0]
NoJob == [put |-> NoPut, from |-> 0, cp |-> 0, listed |-> {}]

Init ==
  /\ log = <<>> /\ lock = None
  /\ blobs = {} /\ synced = {} /\ rows = {} /\ entered = OldDirs /\ lost = {}
  /\ pc = [p \in Procs |-> "idle"] /\ job = [p \in Procs |-> NoJob]
  /\ saves = [s \in Saves |-> "none"] /\ line = <<>>
  /\ billed = 0 /\ acked = {} /\ raced = {}
  /\ distills = 0 /\ reindexes = 0 /\ failures = 0

-----------------------------------------------------------------------------
(* The run's view, folded from the ledger.                                   *)

Checkpoints == {log[i].cp : i \in {i \in DOMAIN log : log[i].type = "checkpoint"}}

\* The event that created a checkpoint; a first checkpoint has no parent.
Cursor(c) ==
  IF c = 0 THEN 0 ELSE CHOOSE i \in DOMAIN log : log[i].type = "checkpoint" /\ log[i].cp = c

\* The current checkpoint after the first n events.
CurrentAt(n) ==
  LET moves == {i \in 1..n : log[i].type \in {"checkpoint", "resumed"}}
  IN  IF moves = {} THEN 0 ELSE log[Max(moves)].cp
Current == CurrentAt(Len(log))
ParentOf(c) == CurrentAt(Cursor(c) - 1)

DeclaredAt(s) == CHOOSE i \in DOMAIN log : log[i].type = "declared" /\ log[i].save = s

-----------------------------------------------------------------------------
(* The writing process: Ckpt.save() and the other callers of its engine.     *)

EngineFree == pc[Writer] = "idle" /\ lock \in {None, Writer}

Append1(event) == Len(log) < MaxLog /\ log' = Append(log, event) /\ lock' = Writer

\* The save whose turn it is settles, and the next one runs.
Settle(s, status) == saves' = [saves EXCEPT ![s] = status] /\ line' = Tail(line)

CallSave(s) ==
  /\ saves[s] = "none"
  /\ saves' = [saves EXCEPT ![s] = "called"] /\ line' = Append(line, s)
  /\ UNCHANGED <<log, lock, blobs, synced, entered, lost, rows, pc, job, billed, acked, raced, distills, reindexes, failures>>

\* Mutant: the saves of one Ckpt are not run one after the other.
TurnAny(s) == s \in ToSet(line)

\* `tail`: a save runs once those called before it have settled.
Turn(s) == line # <<>> /\ Head(line) = s

\* forward(): record() appends state.declared ...
Record(s) ==
  /\ Turn(s) /\ saves[s] = "called" /\ EngineFree
  /\ Append1([type |-> "declared", cp |-> 0, save |-> s])
  /\ saves' = [saves EXCEPT ![s] = "recorded"]
  /\ UNCHANGED <<blobs, synced, entered, lost, rows, pc, job, line, billed, acked, raced, distills, reindexes, failures>>

\* The event is after the parent's cursor.
AssertDeclaredEvents(s) == DeclaredAt(s) > Cursor(Current)

Declared(s, c) ==
  [id |-> <<"declared", c>>, cp |-> c, source |-> "declared", from |-> Cursor(Current),
   claims |-> {{[kind |-> "event", n |-> DeclaredAt(s)]}}, cost |-> 0]

\* ... and checkpoint() makes a checkpoint, then puts its declared projection.
SaveCheckpoint(s) ==
  LET c == Cardinality(Checkpoints) + 1
  IN  /\ Turn(s) /\ saves[s] = "recorded" /\ EngineFree
      /\ AssertDeclaredEvents(s)
      /\ Append1([type |-> "checkpoint", cp |-> c, save |-> s])
      /\ pc' = [pc EXCEPT ![Writer] = "put"]
      /\ job' = [job EXCEPT ![Writer].put = Declared(s, c)]
      /\ UNCHANGED <<blobs, synced, entered, lost, rows, saves, line, billed, acked, raced, distills, reindexes, failures>>

SaveRejected(s) ==
  /\ Turn(s) /\ saves[s] = "recorded" /\ EngineFree
  /\ ~AssertDeclaredEvents(s)
  /\ Settle(s, "rejected")
  /\ UNCHANGED <<log, lock, blobs, synced, entered, lost, rows, pc, job, billed, acked, raced, distills, reindexes, failures>>

\* A checkpoint or a restore for another caller of the engine.
OtherCheckpoint ==
  /\ EngineFree
  /\ Append1([type |-> "checkpoint", cp |-> Cardinality(Checkpoints) + 1, save |-> None])
  /\ UNCHANGED <<blobs, synced, entered, lost, rows, pc, job, saves, line, billed, acked, raced, distills, reindexes, failures>>
Restore ==
  /\ EngineFree
  /\ \E c \in Checkpoints \ {Current} : Append1([type |-> "resumed", cp |-> c, save |-> None])
  /\ UNCHANGED <<blobs, synced, entered, lost, rows, pc, job, saves, line, billed, acked, raced, distills, reindexes, failures>>

Close ==
  /\ lock = Writer /\ EngineFree /\ line = <<>>
  /\ lock' = None
  /\ UNCHANGED <<log, blobs, synced, entered, lost, rows, pc, job, saves, line, billed, acked, raced, distills, reindexes, failures>>

-----------------------------------------------------------------------------
(* A distillation.                                                           *)

\* What listProjections returns for the checkpoints of the run.
Spent(listed) == MapThenSumSet(LAMBDA p : p.cost, listed)

\* Both ends of the range are those of the store.
RequestFits(c, from) == from = Cursor(ParentOf(c))

\* runBudget, then distill() up to the call of the provider.  distillRequestFor
\* asks for the right range; another caller may ask for all of the run.
Distill(o) ==
  /\ pc[o] = "idle" /\ distills < MaxDistills
  /\ Spent(rows) < Cap
  /\ \E c \in Checkpoints : \E from \in {Cursor(ParentOf(c)), 0} :
       /\ RequestFits(c, from)
       /\ job' = [job EXCEPT ![o] = [NoJob EXCEPT !.cp = c, !.from = from]]
  /\ pc' = [pc EXCEPT ![o] = "asked"]
  /\ distills' = distills + 1
  /\ UNCHANGED <<log, lock, blobs, synced, entered, lost, rows, saves, line, billed, acked, raced, reindexes, failures>>

\* The events and payload blobs of the range, and every checkpoint of the run.
Evidence(from, to) ==
  [kind : {"event", "artifact"}, n : (from + 1)..to] \cup [kind : {"checkpoint"}, n : Checkpoints]

\* Mutant: a claim is kept if some of its evidence is known.
KeptSome(claims, from, to) == {claim \in claims : claim \cap Evidence(from, to) # {}}

\* validateClaims: a claim without evidence, or with any that is not known, is dropped.
Kept(claims, from, to) == {claim \in claims : claim # {} /\ claim \subseteq Evidence(from, to)}

\* The provider answers.  Its price is paid whether or not its reply can be read.
Answer(o) ==
  /\ pc[o] = "asked"
  /\ \E cost \in Costs :
       /\ billed' = billed + cost
       /\ \/ /\ pc' = [pc EXCEPT ![o] = "idle"]         \* DISTILL_INVALID_OUTPUT
             /\ job' = [job EXCEPT ![o] = NoJob]
          \/ \E claims \in Replies :
               /\ pc' = [pc EXCEPT ![o] = "put"]
               /\ job' = [job EXCEPT ![o].put =
                            [id |-> <<"proj", distills, o>>, cp |-> job[o].cp, source |-> "distilled",
                             from |-> job[o].from, cost |-> cost,
                             claims |-> Kept(claims, job[o].from, Cursor(job[o].cp))]]
  /\ UNCHANGED <<log, lock, blobs, synced, entered, lost, rows, saves, line, acked, raced, distills, reindexes, failures>>

-----------------------------------------------------------------------------
(* putProjection: the blob, then the index row.                              *)

\* The save that made the latest checkpoint settles with the put of its projection.
Settled(p, status) ==
  IF p = Writer THEN Settle(log[Len(log)].save, status) ELSE UNCHANGED <<saves, line>>

\* The put ends: a blob that is there needs no writing, a projection that is
\* listed is not stored again.
PutBegin(p) ==
  /\ pc[p] = "put"
  /\ \A q \in rows : q.id # job[p].put.id
  /\ pc' = [pc EXCEPT ![p] = IF job[p].put \in blobs THEN "row" ELSE "install"]
  /\ UNCHANGED <<log, lock, blobs, synced, entered, lost, rows, job, saves, line, billed, acked, raced, distills, reindexes, failures>>

\* #install: the synced temporary file is renamed to its address, in a directory
\* that ensureDir makes if it is not there ...
Install(p) ==
  /\ pc[p] = "install"
  /\ blobs' = blobs \cup {job[p].put}
  /\ pc' = [pc EXCEPT ![p] = "sync"]
  /\ UNCHANGED <<log, lock, synced, entered, lost, rows, job, saves, line, billed, acked, raced, distills, reindexes, failures>>

\* Mutant: the directory of the blob is not synced.
SyncedNever(blob) == synced

Synced(blob) == synced \cup {blob}

\* ... and its directory is synced; the one above it, which may have a new entry, is not.
SyncDir(p) ==
  /\ pc[p] = "sync"
  /\ synced' = Synced(job[p].put)
  /\ pc' = [pc EXCEPT ![p] = "row"]
  /\ UNCHANGED <<log, lock, blobs, entered, lost, rows, job, saves, line, billed, acked, raced, distills, reindexes, failures>>

\* The index transaction; the call returns.
InsertRow(p) ==
  /\ pc[p] = "row"
  /\ rows' = rows \cup {job[p].put} /\ acked' = acked \cup {job[p].put}
  /\ raced' = IF \E q \in Procs : pc[q] = "rebuild" THEN raced \cup {job[p].put} ELSE raced
  /\ pc' = [pc EXCEPT ![p] = "idle"] /\ job' = [job EXCEPT ![p] = NoJob]
  /\ Settled(p, "resolved")
  /\ UNCHANGED <<log, lock, blobs, synced, entered, lost, billed, distills, reindexes, failures>>

\* A write fails (no space, say), and the call with it.
PutFails(p) ==
  /\ pc[p] \in {"install", "sync", "row"} /\ failures < MaxFailures
  /\ failures' = failures + 1
  /\ pc' = [pc EXCEPT ![p] = "idle"] /\ job' = [job EXCEPT ![p] = NoJob]
  /\ Settled(p, "failed")
  /\ UNCHANGED <<log, lock, blobs, synced, entered, lost, rows, billed, acked, raced, distills, reindexes>>

-----------------------------------------------------------------------------
(* reindex(): with the lock, the blobs are listed and read; then one          *)
(* transaction clears the tables and fills them again.                        *)

Reindex(o) ==
  /\ pc[o] = "idle" /\ lock = None /\ reindexes < MaxReindexes
  /\ reindexes' = reindexes + 1
  /\ lock' = o
  /\ pc' = [pc EXCEPT ![o] = "rebuild"]
  /\ job' = [job EXCEPT ![o].listed = blobs]
  /\ UNCHANGED <<log, blobs, synced, entered, lost, rows, saves, line, billed, acked, raced, distills, failures>>

\* The projections of durable checkpoints.
DurableProjections(listed) == {p \in listed : p.cp \in Checkpoints}

Rebuild(o) ==
  /\ pc[o] = "rebuild"
  /\ rows' = DurableProjections(job[o].listed)
  /\ lock' = None
  /\ pc' = [pc EXCEPT ![o] = "idle"] /\ job' = [job EXCEPT ![o] = NoJob]
  /\ UNCHANGED <<log, blobs, synced, entered, lost, saves, line, billed, acked, raced, distills, reindexes, failures>>

-----------------------------------------------------------------------------
(* Faults.                                                                   *)

Dead(ps) ==
  /\ failures < MaxFailures /\ failures' = failures + 1
  /\ pc' = [p \in Procs |-> IF p \in ps THEN "idle" ELSE pc[p]]
  /\ job' = [p \in Procs |-> IF p \in ps THEN NoJob ELSE job[p]]
  /\ lock' = IF lock \in ps THEN None ELSE lock
  /\ IF Writer \in ps
     THEN /\ line' = <<>>
          /\ saves' = [s \in Saves |-> IF s \in ToSet(line) THEN "died" ELSE saves[s]]
     ELSE UNCHANGED <<saves, line>>

Dies(p) ==
  /\ pc[p] # "idle" \/ (p = Writer /\ lock = Writer)
  /\ Dead({p})
  /\ UNCHANGED <<log, blobs, synced, entered, lost, rows, billed, acked, raced, distills, reindexes>>

Dir(blob) == FanOut(blob.id)

\* A directory may be gone with all that is in it, unless its own entry was on
\* disk; a renamed blob, unless its directory was synced.  Events and index
\* transactions are synced when their calls return.
PowerLoss ==
  /\ Dead(Procs)
  /\ \E gone \in SUBSET ({Dir(b) : b \in blobs} \ entered), kept \in SUBSET (blobs \ synced) :
       /\ blobs' = {b \in synced \cup kept : Dir(b) \notin gone} /\ synced' = blobs'
       /\ entered' = entered \cup ({Dir(b) : b \in blobs} \ gone)
       /\ lost' = lost \cup {b \in blobs : Dir(b) \in gone}
  /\ UNCHANGED <<log, rows, billed, acked, raced, distills, reindexes>>

-----------------------------------------------------------------------------

Next ==
  \/ \E s \in Saves : CallSave(s) \/ Record(s) \/ SaveCheckpoint(s) \/ SaveRejected(s)
  \/ OtherCheckpoint \/ Restore \/ Close
  \/ \E o \in Others : Distill(o) \/ Answer(o) \/ Reindex(o) \/ Rebuild(o)
  \/ \E p \in Procs : PutBegin(p) \/ Install(p) \/ SyncDir(p) \/ InsertRow(p) \/ PutFails(p) \/ Dies(p)
  \/ PowerLoss

Spec == Init /\ [][Next]_vars

-----------------------------------------------------------------------------
(* Properties.                                                               *)

\* A stored claim cites evidence, and only what its checkpoint covers: events
\* (or their payloads) after the cursor of the checkpoint's parent and up to its
\* own, or checkpoints that exist.  Whoever asked, whatever the provider said,
\* and whatever other callers of the engine did between record and checkpoint.
EvidenceInRange ==
  \A p \in blobs :
    /\ p.from = Cursor(ParentOf(p.cp))
    /\ \A claim \in p.claims :
         /\ claim # {}
         /\ \A e \in claim : IF e.kind = "checkpoint" THEN e.n \in Checkpoints
                             ELSE e.n > Cursor(ParentOf(p.cp)) /\ e.n <= Cursor(p.cp)

\* A projection whose put returned stays in the store, where any later reindex()
\* finds it, whatever dies and even if the power goes: unless its whole directory
\* went, one that the store did not have before.  It is missing from the index
\* only if a reindex() of another process was going on when its row was inserted.
AckedListed ==
  \A p \in acked : \/ p \in lost /\ Dir(p) \notin OldDirs
                   \/ p \in blobs /\ (p \in rows \/ p \in raced)

\* The saves of one Ckpt do not make each other fail: one is rejected for a
\* stale event only if another caller of the engine moved the checkpoint since.
SavesDoNotDisturb ==
  \A s \in Saves :
    saves[s] = "rejected" =>
      \E i \in DOMAIN log : i > DeclaredAt(s) /\ log[i].type # "declared" /\ log[i].save = None
=============================================================================
