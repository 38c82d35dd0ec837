# Verification of ckpt

`ckpt` keeps an event-sourced history of an AI agent's run on a developer's
machine: every tool call and side effect is an event of an append-only,
hash-chained ledger; a checkpoint ties a position of the ledger to a git commit
of the workspace and to a blob of agent state; `resume` and `rollback` check an
earlier commit out in an execution worktree and record that they did. Hooks of
the agent, command-line calls and programs that use the SDK are separate
processes which share one `.ckpt` directory. There is no server: what holds the
history together is the order of file-system, git and SQLite operations, a
lockfile per run, and the rule that everything but the ledger, the blobs and the
refs can be derived again.

This directory holds TLA+ modules of that program, the TLC configurations that
check them on small instances, and TLAPS proofs about them for every instance.
Paths below are relative to the repository; line numbers refer to
`src/...` inside it.

## 1. The system

### 1.1 Components

| component | code | state it keeps | operations | modelled |
|---|---|---|---|---|
| run lock | `storage/lock.ts` | `.ckpt/lock/<run>.lock`, private `.stale-*` files | acquire, reclaim, release | `RunLock` |
| run store | `storage/local-backend.ts`, `ledger-log.ts`, `index-db.ts` | `run.json`, `events.jsonl`, refs, blobs, `checkpoint.db`, a cached writer per process | createRun, appendEvent, createCheckpoint, roll-forward, reindex, close, queries | `RunStore`, `RunLog` (one run); the lineage query in `Lineage` |
| projection and claim index | `local-backend.ts`, `distill/projection-store.ts` | projection and claim rows, blobs | putProjection, queries, rebuild | `Projections` |
| content-addressed store | `storage/cas.ts`, `fs-util.ts` | blobs by hash | put, get | put and its syncs in `Projections`; elsewhere a set of blobs |
| change detection | `storage/change-detection.ts` | cache of size, mtime and inode | detect | `Snapshot` |
| git plumbing | `storage/git.ts`, `engine/git.ts`, `bundle/git.ts` | objects, refs, the execution worktree | commit a delta, update-ref, checkout and clean, walk, create refs | as used by `RunStore`, `Engine`, `Snapshot`, `BundleFormat` |
| execution ledger | `ledger/*.ts` | none (pure) | seal an event, verify a chain | in `RunStore`, `BundleFormat` |
| pending and resume intent | `ledger/pending-intent.ts`, `engine/resume-intent.ts` | none (pure) | derivePendingIntent, abandonedWindows, pendingIntentAt | `ResumeIntent`, `RunHistory` |
| engine | `engine/engine.ts`, `side-effects.ts`, `observations.ts`, ... | a view of each run, folded from its ledger; one queue of calls per process | startRun, fork, record, checkpoint, resume, rollback; diff, replay | `Engine`, `RunHistory`, `ResumeIntent`; diff in `Lineage`; what record keeps in `Redact` |
| snapshots and lineage | `engine/snapshot.ts`, `lineage.ts`, `json-patch.ts` | a stat cache | stage a workspace, restore it, compare states | `Snapshot`; as one reading of a workspace in `Engine` |
| claude code adapter | `adapters/claude-code/*.ts` | none: a process per hook | hook to observation or checkpoint, retries on the lock | `HookAdapter` |
| distiller | `distill/*.ts` | what the projections of a run cost | ask, validate, charge, store; triggers | `Projections`, without the triggers |
| context builder | `context/*.ts` | none | choose what fits a budget | `ResumeContext`; its walk over forks in `Lineage` |
| bundles | `bundle/*.ts` | archive files | plan, confirm, write; verify, import, roll back | `Bundle`, `BundleFormat` |
| redaction | `redact/*.ts` | none (pure) | detect, sanitize, scan in windows, exclude paths | `Redact`; excluded paths in `Snapshot` |
| sdk | `sdk/*.ts` | one engine and backend, a queue of saves | save, resume, ... | save() in `Projections` |
| inspector | `ui/*.ts` | none | read-only HTTP views | timeline, parents and ledger pane in `Lineage` |
| command line | `cli/*.ts` | none | one call of another part | no |
| model schemas | `model/*.ts` | none | validate records | no: the types of the models stand for valid records |

### 1.2 Interactions

An operation of the engine runs alone within its process (`#serial`). It first
folds into its view what the index (`checkpoint.db`) shows of the run's ledger,
decides from the view, writes the execution worktree if it is a restore, and
appends events through the store. The store runs one mutation at a time per
backend (`#exclusive`), takes the run's lock at its first write to the run and
keeps it until a write fails or the backend closes; taking the lock reads the
ledger, verifies it and rolls the index forward. A write goes to git and CAS
first (for a checkpoint), then to the ledger with fsync, then to the index in one
transaction. Readers only read the index, and take no lock. `reindex` takes no
lock that `createRun` respects, and rebuilds the index from the files.

`ckpt run claude` starts a run, closes the store again and spawns claude, with the
run's id in the environment. Claude spawns a `ckpt hook` process for each hook and
waits for it before it goes on with that tool call; tool calls run in parallel.
A hook process opens the store, appends what it observed through `record()` and
`checkpoint()`, retries while another process has the run's lock, and releases
the lock when it ends.

A program that uses the SDK calls `save()`: a `record` of what it declares, a
`checkpoint`, and, within that checkpoint's call, a put of the declared projection.
`ckpt distill` reads a run without its lock, asks a provider for claims, and puts
them the same way: the blob into the CAS, then rows into the index. A reindex
finds the projections again by reading every blob.

A checkpoint's files come from `buildSnapshot`, which lists, stats and reads the
workspace while the agent may write it, and hands storage a delta against the tree
of the commit that its cache belongs to; storage refuses a delta that does not fit.
What is read is sanitized on its way. A restore checks a commit out and cleans the
worktree but for excluded paths.

An export plans, scans every byte it will write, asks the user about what it found,
records an unsafe export in the ledger, and writes. An import verifies a bundle
against the store, takes the locks of its runs, checks again, and writes objects,
blobs, ledgers, refs and, last, run records; it undoes what it created if a write
fails, and ends with a reindex. The context builder, diff, the lineage query and
the inspector only read, each along its own records: `run.json` or the ledger.

### 1.3 What is hard about it

`PROJECT.json` lists the hazards with their lines. By kind:

- **interleavings of processes**: reclaiming a dead process's lock; a reindex
  during another's append, createRun or putProjection; a restore's checkout, which
  comes before the lock, under a process that snapshots the same tree; an agent
  that writes files while they are listed and read;
- **crashes and partial failures** between any two of the writes above; an append
  whose fsync fails although its line is in the file; a torn line; an import that
  fails at its fourth run, or whose rollback does;
- **stale state**: the cached writer after a failure; the view, which is read
  before the lock is taken; the index behind the ledger; a stat that no longer
  stands for the file; a ledger that grew after the export scanned it;
- **protocol sequences**: restores that nest and abandon each other, tool ids that
  are used again across them, forks of forks, a file that becomes a directory;
- **numeric edges**: the next checkpoint number when the latest checkpoint is not
  restorable; pages of the ledger that end in an abandoned window; a secret at the
  end of a scan window; lines that count what was left out, and take room themselves;
- **timeouts and retries**: hooks of one session compete for the lock with each
  other, within a budget of waits; a failed append may have been durable;
- **liveness**: calls never wait for another process, a dead process's lock is
  recovered, and a hook ends whoever holds the lock.

### 1.4 What makes each component correct

- run lock: one holder at a time; every call ends; a dead holder is recovered;
- run store: an unbroken ledger; nothing acknowledged or visible is lost; a visible
  checkpoint is whole; after any failure the cached writer, the disk and the index
  agree; all of which is the promise of `RunLog`;
- intents: each request is reported once, with the status that *its history*
  gives it, where a restore continues the history of its target;
- engine: what a checkpoint changed since its parent is what was done since; the ledger
  does not promise a worktree that is not there; calls that do not overlap compose;
- adapter: what a hook resolves to is what it recorded, and a loss is reported; no
  intent claims an outcome that a tool did not have; a change is reported exactly
  if the tool made one; hooks never block the agent;
- projections: what is acknowledged is found again, also after a reindex or, but for
  a directory that was new, a loss of power; claims cite only what their checkpoint covers;
- snapshots and change detection: what is recorded of a file was there; storage
  accepts every delta; a restored workspace is the checkpoint, as git checks it out;
- bundles: an import is all or nothing and never touches what was there; a bundle
  holds nothing secret that was not confirmed and recorded;
- context: what the paged walk finds is the history; the context fits, and hides no
  work whose outcome is unknown;
- redaction: windows find what one pass finds; what is kept holds no part of a secret;
- lineage: the reads of the forest of runs agree on where a checkpoint comes from; a diff
  shows no event that led to both sides.

## 2. The modules

| module | what it is | composes with |
|---|---|---|
| `RunLock` | the lockfile protocol, a step per visible system call | its promise is the ideal lock of `RunStore` and `Engine` |
| `RunLog` | abstract: a durable log, readers see a prefix, acknowledgements stay | implemented by `RunStore`, assumed by `Engine` |
| `RunStore` | one run written by several backends, a step per durable write | `Log == INSTANCE RunLog WITH ...` |
| `ResumeIntent` | the pure derivations, as operators over a ledger | used by `RunHistory` |
| `RunHistory` | every ledger that one engine can write, and what positions of it mean | extends `ResumeIntent` |
| `Engine` | engine operations of several processes on one run, over the store's promise | the log of `RunLog` |
| `HookAdapter` | the launcher, claude's tool calls and a process per hook, on one run | appends as `Engine` does; `Intents == INSTANCE ResumeIntent WITH Ids <- Tools` |
| `BundleFormat` | what bundles and stores hold, what an export selects and an import demands, as operators | extended by `Bundle` |
| `Bundle` | exports and imports of several services, a step per durable write, beside engines and reindexes | extends `BundleFormat`; the ideal lock of `RunStore` |
| `Snapshot` | checkpoints, restores and detections of a workspace that an agent writes meanwhile | the files that `Engine` reads at once |
| `Projections` | saves, distillations, puts of projections and reindexes of one run | the ledger and lock of `RunStore`, one step per append |
| `ResumeContext` | what a resumed agent is told, over every ledger | extends `RunHistory` |
| `Lineage` | forests of runs, and what four readers make of them | the log of `RunLog`, for several runs |
| `Redact` | the detectors, sanitize, and the scan in windows | what `Snapshot` and `BundleFormat` assume of texts |
| `RunLockProofs`, `RunStoreProofs`, `EngineProofs`, `RunHistoryProofs`, `HookAdapterProofs`, `SnapshotProofs`, `ProjectionsProofs`, `BundleProofs` | theorems | extend their component |
| `MC*` | small sets, hosts, alphabets, symmetry | extend their component |

Definitions keep the names of the code where they have one; `PROJECT.json` maps
each to its lines. Definitions whose comment begins with "Mutant:" are wrong on
purpose: plausible bugs that show each property can fail. No specification uses
them.

### 2.1 RunLock

A process is at a location of `acquire()` or `release()`: "create" before
`link()`, "read" before `readOwner`, "rename" before the stale file is moved
aside, "check", "restore" and "drop" while it inspects what it moved, "held"
after `acquire()` returned, "relread" and "relunlink" in `release()`. `lockfile`
is what the lock path holds, `aside[p]` the private file of a reclaimer. `host`
is chosen initially: a process on another host cannot be probed and must be
respected. An owner that cannot be parsed is represented (`Unreadable`), but
`createLockfile` links only complete files, so it is not reached. `Crash` kills
a process anywhere.

Abstractions: a pid is never reused (the code cannot see a reuse either, and
respects the lock); the private temporary file and the directory fsync belong to
the link step, so an fsync that fails *after* the link is not modelled.

### 2.2 RunStore and RunLog

`runDir`, `events`, `torn`, `refs` and `blobs` are the durable files; `index` is
the run's rows in `checkpoint.db`; `pc[b]`, `op[b]` and `writer[b]` are where a
backend is in its mutation, its locals, and the writer it caches. Every
mutation is a path through the same locations as its code: "acquire", "load"
(ledger, refs and blobs are read and verified), "roll" (roll-forward), "ready",
then "blob", "ref", "append" and "index". Any write may fail; an append may leave
a torn tail, or its whole line and still fail; `Crash` may happen anywhere.
`reindex` lists `runs/`, loads, and rebuilds in one transaction; whether it saw
the run's directory is decided when it lists.

The call number of an event stands for its hash and commit: hashes do not
collide. The lock is an ideal one, of which a dead process lets go (that the
protocol recovers it is `RunLock`'s concern). A crash is of a process; what a loss
of power leaves is in `Projections`. Blobs and refs, once written, stay.

`RunLog` is the store's promise: a log that grows by one entry, of which readers
see a prefix that never shrinks, and acknowledgements only for visible entries.
The refinement maps the log to the ledger, `shown` to the highest indexed seq.
After a reindex that overlooked the run (a finding) only the log is promised.

### 2.3 ResumeIntent and RunHistory

`ResumeIntent` transcribes `derivePendingIntent` (a fold that keeps the latest
request of every id, completion being sticky), `abandonedWindows` (the walk back
over the restores), `pendingIntentAt` (the resolutions of the abandoned windows
are set aside for tool calls and kept for side effects) and `deriveSideEffects`.
`RunHistory` writes a ledger with observations, checkpoints and restores, keeps
what each checkpoint recorded, and defines the reference: `History[p]`, the
events that a workspace at position `p` descends from, where a restore continues
its target's history; `AnswersTo` and `StatusOf`, which say declaratively which
acknowledgements belong to a request. Ids and payloads are model values; an
observation that is neither a request nor a resolution changes nothing that is
derived, and is left out: `Observations` are the events of RULES, the only ones that
an alphabet may contain. Of a commit whose payload is offloaded nothing is claimed:
`WellPaired` requires that it names its request.

### 2.4 Engine

Each process has a view, a call (`op[p]`) and the step of the call's plan it is
at (`pc[p]`): `Plan` is the order of "view", "materialize", "snapshot" and
"append" in the code. A commit is a number: that of the checkpoint which made
it. `base[w]` is the set of commits which the files of workspace `w` continue: a
checkout makes it one commit, a failing checkout none, a checkpoint replaces what
its snapshot was made from. An event has the commit that it restores or, of a
checkpoint, the parent it records; and of a checkpoint it remembers `current`, that
its intents took every earlier event into account, and `from`, what its files continue.

The store is the log that `RunStore` implements: one writer, which keeps the lock
until it fails or exits; an append may become durable and not visible. `fork` and
`startRun` in progress are initial states, since the run id exists, listed, before
its first event. `cuts` counts calls that ended half-way, `overlapped` says whether
two calls were ever in progress together, and `crossed` whether one of these was a
restore and the other a restore or a checkpoint (`Crosses`), or a restore was cut
short. Two properties are about runs where nothing of this happened.

A checkpoint is accepted although its view is stale when the process did not
hold the lock before: `createCheckpoint` seals after the head it finds and does
not compare it with the view. What it recorded is then "as of" an older head;
`current` is FALSE, and `UndisturbedCallsCompose` says when this cannot happen.

### 2.5 HookAdapter

`session` is the launcher's progress, `tool[t]` and `tree` are what claude and its
tools did, `pc[h]` and `local[h]` the step and the locals of the process of hook
`h`: "head" before `sessionStart` looks for run.created, "status" before
`preToolUse` reads the workspace, "view" and "append" around each attempt of
`record()` or `checkpoint()`, "await" and "scan" in `postToolUse`. `local[h].want`
is the observation to append next; `Proceed` says what follows a success and
`Throw` what follows a failure, whichever it was. The status after a tool is
read by an action of its own (`ReadAfter`), as the code starts it before the
append and awaits it afterwards. The same `append` serves all observations, as
in the code; the waits it may sleep are counted in delays.

The store is again the log of `RunLog`, with one writer, and an append may be
durable although it failed, so that a later view cannot fold it (`AppendCorrupt`).
What claude does is external: the tool runs once its PreToolUse hook ended, however
that ended, and PostToolUse fires once it ran. The digest of the status stands for
the workspace. One turn is modelled, with a SessionStart and a Stop; SessionEnd,
UserPromptSubmit and unknown hooks take steps that these and a plain tool's hooks
take. Calls have an id each, and a tool whose status is not read is taken not to
change it.

### 2.6 BundleFormat and Bundle

A store, and likewise a bundle, is a record of run directories, run records,
ledgers, refs, blobs and git objects. A sha stands for the content it was computed
from, so a check of a hash compares contents; of wording only whether it is clean,
holds something that redaction detects, or holds a marker. `BundleFormat` has what
an export selects and finds (`ExportPlan`, `Walk` over git objects), what it writes
(`WrittenBundle`), and the checks of an import in the order in which they are made,
so that the first to fail is the error (`Verify`, `RunsToWrite`). What the two compare of
a state blob differs, and so do `NamesState` and `MatchesState`.

In `Bundle`, `pc[s]` is the step of the call of service `s` and `job[s]` its locals:
for an import, the positions in the manifest of the runs to write and of the one it
is at, what to undo, and what was written. Each
durable write, lock operation, step of the rollback and index transaction is an
action. `source` is exported from and `store` imported into, and engines append to
both. `Received` are bundles from elsewhere: merged, cut short, or damaged.
`died` and `cut` remember what a death left behind.

### 2.7 Snapshot

`files` is the workspace: per path a content, a mode, an mtime of a coarse clock,
and an inode. One pass runs at a time, path by path: "List", "Stat", "Read" and
"Commit" of a checkpoint, "Restore", or the steps of `ChangeDetector.detect`.
Between any two of them the agent may create, rewrite in place or by rename, move,
chmod or delete files, so that a directory becomes a file and back. `had[p]` is
what a path held since the pass began, the reference for what it recorded.
`cache` is the engine's stat cache and `detected` the one in `checkpoint.db`; both
trust an mtime only outside the racy window. What redaction makes of a content is
a constant, `Sanitized`. What a checkout writes for a stored content is another,
`CheckedOut`: attributes, `core.autocrlf` or a filter may make something else of it,
not the same each time, since only the system's configuration is switched off
(engine/git.ts:26, 46) while blobs are stored unfiltered (storage/git.ts:408).
A restore writes every file of the commit; a checkout may leave one alone that is as
its index says. Nobody sets an mtime by hand.

### 2.8 Projections

One process writes the run: `saves` are its calls of `save()`, in the order of
`line`, and other callers of its engine make checkpoints and restores in between.
Others distill (no lock) or reindex (with it). A put goes from "put" through
"install" and "sync" to "row"; `blobs`, `synced` and `rows` are what is renamed to
its address, whose entry is on disk, and what the index lists. A blob is in the
directory of the first digits of its address (`FanOut`), of which `OldDirs` were there
before; the entry of a new one is not synced, so that a loss of power may take it with
all its blobs (`lost`) until it is on disk (`entered`). A
distillation asks for a range, which is checked against the store, and keeps the
claims whose evidence it was shown. `raced` holds the projections whose rows were
inserted during another process's reindex, which clears them (3.1).

### 2.9 ResumeContext

`RunHistory` grows the ledger; here a checkpoint may also have claims, and the run
may inherit some from the one it was forked from. `Build` is `build()`: claims
from the nearest checkpoint that has any, mandatory content first, then tier by
tier what fits (`SelectTier1`), then events in the order of `Consider`, found by one
backward walk in pages (`Visit`, `Page`), among them those that a claim which is shown
cites (`CitedBy`: the union over them). A claim cites events since the cursor of its
checkpoint's parent, which `assertDeclaredEvents` of the engine demands of declared
claims, and the distiller, which reads no others, of distilled ones. Of a text only its
width counts, and counts have as many digits as they need. The builder's two internal assertions
are part of `ContextFits`.

### 2.10 Redact

A text is a sequence of symbols, each a character of a class or a string that no
window is small enough to cut. `FindCandidates` is the left-to-right scan of one
detector, `Sanitize` the replacement, and the state machine the export's scan in
windows, which grow when a decision is not final (`Grow`), hand over to the next
(`HandOver`) and fall back to the end of the line (`Covered`). The formats of
tokens count as one detector; JSON literals, escaped quotes, and the measure of
entropy are abstracted. `SanitizeMember` is what `record` keeps of a member of a
payload.

### 2.11 Lineage

Runs are numbered as they are created; `runs[r]` is what `run.json` says of its
parent, `ledger[r]` its events, and `forking` the runs whose `agent.forked` event
is not yet written: they are listed, and others may use them. `DiffRange` (engine),
`ClaimWalk` (context), `LineageCheckpoints` (storage), and `Timeline`, `NodeParent` and
`LedgerRange` (inspector) read this state, some by the record and some by the event.
The clock is the wall clock: a checkpoint's `at` may be any time. The reference for diff
is `Descent`, the events that led to a position: before an event comes the one before
it, before a restore what led to the checkpoint restored, and before a run's first event
what led to the checkpoint that it announced.

## 3. The runs

| run | bounds | expected |
|---|---|---|
| `run_lock` | 3 processes, on one host or one of them away; 3 rounds; 2 acquires each; 2 deaths | pass |
| `run_lock_four` | 4 processes on one host, one death | violation of `MutualExclusion` |
| `run_store` | 2 backends, 3 calls, any number of reindexes, failures and deaths | pass |
| `run_history` | ledgers of up to 6 events, 2 of them checkpoints; two ids; tool and side-effect alphabets | pass |
| `engine` | 2 processes, 3 calls on a run that exists, is being started or forked; ledgers of up to 6 events; one call cut short | pass |
| `hook_adapter` | 2 tool calls whose status is read, 2 statuses, 1 wait, a scan of 2 events, one write of another process or one failure or kill | pass |
| `bundle` | 2 services, 2 calls, 2 runs of which one's commit has the other's as parent, one checkpoint whose state has another commit, one event of an engine, one failed write or death | pass |
| `snapshot` | 3 paths (an excluded one, a file, a file below it), 5 contents of which a checkout makes anything of one, 2 modes, 2 inodes; timestamps of 2 ticks, 3 ticks; 2 writes, 3 passes | pass |
| `projections` | 2 saves, 2 other processes, ledgers of up to 5 events, a distillation, a reindex, a directory that was there and a new one, one death, failed write or loss of power | pass |
| `resume_context` | ledgers of up to 5 events, 2 of them checkpoints; up to 2 claims that cite an event since the parent; pages of 2; 3 budgets | pass |
| `redact` | 24,738 texts; windows of 5 that overlap by 2 and may double; PEM bodies of 3, tokens of 2 or 3 | pass |
| `lineage` | 3 runs, 6 events, one of them an observation; 2 times, and one checkpoint at the later | pass |

**run_lock.** Three processes are one dead holder and two that race to reclaim
its lock, the case that lock.ts:9-10 is about, with a second death and second
acquires (so released and fresh tokens meet late reclaimers). Two rounds reach
the reclaim and the retry after it; the third makes the give-up of a contended
acquire reachable (the code allows 5). `MutualExclusion` holds; every call ends
(`CallsTerminate`) and a dead holder's lock is recovered (`StaleLockRecovered`).
With a fourth process the first is lost: see 3.1.

**run_store.** Two backends suffice because a backend interacts only through the
files and the lock, and three calls give a checkpoint, a failure and a successor
whose parent and number depend on them. `LedgerChain`, `AckedDurable`;
`VisibleIsWhole`, that readers see a prefix of the ledger whose checkpoints are
complete; `WriterConverged`, that cache, disk and index agree whenever a writer is
ready; the refinement `ImplementsRunLog`, and `CallsEnd`.

**run_history.** Six events hold two checkpoints, a restore that abandons
another, and a request with its resolution on both sides of it; two ids make one
retried and one unrelated call; some observations have no id. Everything derived
is compared with the reference definitions: `DerivationCorrect`;
`ResumesReportHistory`, that a resume reports of every request of its target's
history what that history knows, agrees with the checkpoint, and forgets none; and
`WarningsAgreeWithIntents`. An id used on both sides of an abandoned window is
allowed to be reported less complete than it is, never more.

**engine.** Three calls give checkpoint, rollback to an older one, checkpoint, or
any three that overlap; the existing run gives a fourth event to go back to. One
cut call is enough to leave an unindexed event, a half-replaced worktree or a
worktree without its event. `ParentsAreContinued`: the files of a checkpoint go back,
through the checkpoints that they continue, to the parent that it records, whatever
overlaps, fails or dies, unless a restore crossed another call or was cut short (then
they need not: 3.1). `ExecutionTreeExists`, and for undisturbed calls
`UndisturbedCallsCompose`.

**hook_adapter.** Two calls whose hooks may overlap in every way, and one
disturbance anywhere: an event of another process, which keeps the lock or not; an
append, a status or a scan that fails; a payload that cannot be parsed; a kill.
Contention of the two calls is no disturbance, so a hook may lose the lock to its
sibling and then fail as well. One wait makes both the retry and the give-up
reachable (the code allows 40 delays), and a scan of two events leaves a request
both just in reach and just out of it (the code allows 4096).
`ResultIsWhatHappened` is the contract of `handleHook`'s header;
`UndisturbedRecorded` says that launcher and hooks leave the lock free for those
that follow; `ObservationsAreTrue` relates the pending intents to what the tools
really did, and workspace.changed to what they changed; `HooksEnd`.

**bundle.** Two services import bundles that share a run, or one exports while the
store grows, with one fault at any write. `VisibleRunWhole`; `ImportsAllOrNothing`, a
failed import leaves nothing of its runs and a returned one stays; `RunsOnlyGrow`,
nothing that an import finds is overwritten or taken back; `RoundTrip`, a written
bundle verifies in a store that has nothing, or is refused for a reason that holds of
it: a redaction, a checkpoint whose state is of another commit, a part left out;
`BundlesAreSafeOrRecorded`. Two runs are the least at which the rollback has an
order, and at which one import can find what another wrote.

**snapshot.** Three passes are a checkpoint, a restore or second checkpoint that
goes by its cache, and one more; two writes change a file between its stat and its
read and swap a file for a directory. Timestamps are coarser than the clock, so two
writes may have one mtime; contents of one size cannot be told apart by a stat.
`CheckpointIsRecent` and `DetectedIsRecent` compare with `had`; `DeltaAlwaysFits` with
the tree that storage checks the delta against. `RestoredUnchanged`: a checkpoint of a
workspace as it was restored has the files of the commit restored, with their modes and,
but for those that the checkout or redaction converts, their contents.

**projections.** Two saves and another caller of their engine give the orders in
which a declared event is stale; a distiller and a reindex meet each step of a put; two
blobs may share a new directory, of which one is put when it is on disk.
`EvidenceInRange`, `AckedListed`, `SavesDoNotDisturb`.

**resume_context.** The budgets lie below, at, and above the width of what is
mandatory; two claims of a checkpoint may cite two events, one event, or none. Five
events and pages of two put a restore, an abandoned window and the events around it on
different pages. `ScanFindsHistory` compares the walk with the
declarative history; `ContextFits` and `NothingHidden`.

**redact.** Texts are every four of twelve fragments, and pairs of fragments with
fillers longer than the overlap between them, so that a secret begins, ends or is
decided on each side of each edge. `WindowsCoverSinglePass` is the claim of
redact/bundle.ts; `SanitizeSettles`, with the exception that it states, that of
detectors.ts; `CapturesKeepNoSecret` that of observations.ts.

**lineage.** Three runs are a fork of a fork or two forks of one; six events put a
restore before or after a fork, and hold two checkpoints on two branches of one run with
an observation on one of them. `DiffRangesExact`: the range of a side has no event that
led to the other side, and leaves out of what led to its own nothing but what a branch
explains that the other's run had left (3.1). `LineagesAgree`. `TimelineParentsFirst`: a
timeline has exactly the checkpoints of the run and of those forked from it, parents
first if the clock did not go back between them; a checkpoint at the later time may have
children at the earlier one, and ties are the rule.

Deadlock is not checked in any run: callers need not call again, processes die,
and the bounds end every behaviour. That nothing waits for ever is what the
liveness properties say.

**Fairness.** `RunLock` and `RunStore` assume weak fairness of `Progress` of each
process: a live process is scheduled by the operating system, its promise
continuations are run by Node, and system calls return. Nothing is assumed of
callers (who need not call or release), of failures, or of deaths. No strong
fairness is needed since no call waits on a condition. `HookAdapter` assumes that
while hook processes can take a step, one of them does, which is weaker than
fairness for each; nothing is assumed of claude, its tools, or the process that
may hold the lock. A git or a disk that hangs is outside all of these.
The other modules check safety only: their calls take no lock that they would
wait for, and what they must do eventually is part of the runs above.

### 3.1 Disagreements found

`run_lock_four` is shown by a run: while a mistaken reclaim has a fresh lockfile
aside (lock.ts:106-115) the path is free; a newcomer links its own and two
processes hold the lock. It takes a dead holder, two reclaimers and a newcomer.

The others were met while modelling. Where a model contains one, its properties are
stated so that it is exempt; where a text of the repository is at odds, it is named.

- *Lock.* A mistaken reclaimer may link back a file whose holder has released in
  between (lock.ts:115): the run is locked while that process lives.
- *Index.* A reindex that listed `runs/` before createRun finished clears the run's
  rows (local-backend.ts:579). The roll-forward (670) goes by the highest indexed
  seq and never restores them once a later event is indexed. Likewise a projection
  that is put during another process's reindex is cleared until the next one, and
  a reindex may list a blob that was renamed but not yet synced (575).
- *Engine.* The view is read from the index, which may lag behind the ledger. The
  next append rolls forward and succeeds, and `#fold` (engine.ts:615) then throws
  ERR_CORRUPT over an intact ledger which holds the caller's event. `resume` and
  `rollback` replace the execution worktree (408, 469) before the append that
  takes the lock; if it is refused, or the checkout fails, the process that does
  hold the lock snapshots files that its parent does not explain.
- *Diff.* "The events that side holds beyond the two checkpoints' common ancestor" is
  what engine/types.ts:59-60 says of the ranges (and the comment of engine.ts:476). In
  one run they begin at the lower of the two cursors (486-490), wherever the common
  ancestor is: after checkpoint c1, a side effect, c2, a rollback to c1 and c3, diff(c2,
  c3) has (c2, c2] and (c2, c3], and the effect, which c2 holds beyond c1, is in neither.
  `DiffRangesExact` says that a range leaves out nothing else. A range also shows what its
  own run abandoned in between.
- *Forks.* A fork that dies before its `agent.forked` event, or that another process
  writes to first, is a child to storage and the inspector, and a root to the engine
  and the context builder (context/lineage.ts:8-9).
- *Adapter.* handler.ts:13-15 calls a lost observation safe because the tool's intent
  "stays in_progress". That is so for a lost PostToolUse. After a lost PreToolUse
  there is no intent, and the tool runs all the same.
- *Bundles.* import.ts:27-28 says that a run directory without `run.json` is
  ignored; after a crash `runsToWrite` (373-386) refuses the run for it
  (ERR_RUN_EXISTS). A run with an identical head is "already imported and is left
  alone" (20-21) also while another import is still writing further runs: if that one
  fails it removes the run, and the first has returned without it. A rollback goes on
  after a step that fails (449): if `run.json` cannot be removed, its refs and ledger
  are, under a visible run. Hence the `faults <= 1` of two properties. And the state
  blob of "every declared checkpoint" is said to be "a valid Agent State Object for
  it" (12-14), which `verifyBundle` finds out of a blob that the bundle holds; one that
  it leaves to the store is only looked for (281-299). A re-sealed bundle can so
  declare a checkpoint with the state of another, which `VisibleRunWhole` allows for
  (`LeavesState`) and the bundle `borrowed` of the run does. A store that took such a
  bundle exports: `planExport` compares a state's run and checkpoint id (export.ts:245),
  `verifyBundle` also its commit and seq (import.ts:286-294). The bundle that it then
  writes, complete and without any redaction, is refused as ERR_TAMPERED (`Stale`).
- *Snapshots.* Excluded paths are matched without regard to case (redact/paths.ts),
  `git clean -e` (engine/git.ts:29-33, 155) with it: a restore deletes `.ENV`. A
  file that outgrows the limit between its lstat and its read (snapshot.ts:175) is
  committed. `materialize` makes a worktree "whose HEAD, index and files are exactly
  `commit`" (engine/git.ts:130-131) by `git checkout` and `git worktree add` (156, 165),
  which convert what attributes, `core.autocrlf` or a filter of the user's say, while
  blobs are written with `--no-filters` (storage/git.ts:408): the files may differ from
  the blobs, and the next checkpoint then shows changes that nobody made.
- *Budget.* distill/budget.ts:29-33 bounds the overshoot by one call. A reply that
  cannot be read is paid and never charged, and concurrent distillations all pass.
- *CAS.* `has` (cas.ts:55) answers before another process's directory sync. `#install`
  syncs the directory of a blob (cas.ts:184) but not, if `ensureDir` has just made it
  (182, fs-util.ts:24-27), the one above, as createRun does (local-backend.ts:282-283): a
  loss of power may take the new directory with a blob whose put returned. `AckedListed`
  leaves these out. The directories of the store itself (layout.ts) are taken to be on disk.
- *Redaction.* "Sanitizing sanitized output is a no-op" (detectors.ts, sanitize.test.ts)
  fails when a PEM block begins inside the value of a secret's assignment. Keys of a
  payload that sanitize to the same marker collide (observations.ts:76-84).

## 4. The proofs

All hold for every set of processes, paths, tools and contents and every value of the
bounds, under the named assumptions on constants. `RunLockAssumption`,
`RunStoreAssumption`, `EngineAssumption`, `ProjectionsAssumption`,
`HookAdapterAssumption`, `ResumeIntentAssumption`, `RunHistoryAssumption` and
`LineageAssumption` say no more than that the bounds are numbers, that an alphabet holds
observations, that what stands for nothing is not a member of the set it is left out of,
and that the launcher and the other process are two. `ServiceAssumption` and
`BundleAssumption` say the same of `Bundle`, whose `FilesAssumption` is that the initial
stores and the bundles received are of their shape: a ledger is a sequence of events, a
manifest lists runs. What bundles hold is not restricted. `SourceAssumption` says what a
store to export from holds: git objects of the types that their referrers require, as in
every repository that git wrote, and no "marker", which stands for text that this export
replaces (text redacted when it was captured is clean). Its `AppendAssumption` is a
limit of the model: what an engine appends beside an import has no payload and no
checkpoint. Of `Snapshot`, `PathsAssumption` says that a walk comes to a directory
before what is in it, and that not everything is excluded; `ContentsAssumption` that the
racy window (engine/cache.ts) is at least the granularity of timestamps, without which a
cache hit would prove nothing, and that a checkout writes something for each content;
`FilesAssumption` that the initial files are files, and that one moved in from elsewhere
has an inode of its own.

**RunLockProofs** (`TypeCorrect`, `SafeBeforeCrash`, `HeldFileSafe`, `ExclusionOfTwo`,
`ExclusionOfThree`). The invariant `LockInv`: while nobody is dead, nobody is
reclaiming, and exactly the process whose token the lockfile holds is between its
link and its unlink. Without the first part a step of a reclaimer would move a live
holder's file; without the second a link could succeed beside a holder. `TokenDrawn`
bounds the tokens. After a death, exclusion needs to know where the holder's file
can have gone. `HolderClaims`: the path holds the file of whoever holds the lock, or
it is free and every other process is dead or has that very file aside; `SeenDead`:
who a reclaimer has judged stale is dead. So a newcomer that could link beside a
holder must be alive, not reclaiming, and a third besides the holder and the
reclaimer, while a fourth is dead: `ExclusionOfTwo` states it for behaviours in which,
once a process has died, no more than two are alive; `ExclusionOfThree` for all
behaviours of three processes.
`run_lock_four` shows that four suffice to violate it, so the bound is exact.

**RunStoreProofs** (`StoreInvariant`, `StoreTypes`, `LedgerIntact`, `AckedStay`). The
ledger's chain is not inductive alone: an appended event is sealed from the
writer that a backend cached long before. `StoreInv` adds:
`Locked`, whoever is beyond "acquire", or caches a writer, holds the lock;
`Synced`, what such a backend has loaded or cached is the head of the ledger on
disk; `Numbered`, checkpoint numbers do not exceed ledger positions, which
types the next number; `InCall`, a call that writes has drawn its id;
`Stored`, what is acknowledged, indexed or loaded is in the ledger. Each part has
a lemma with a step per action.

What readers see (`ViewInvariant`, `VisibleWhole`, `Converged`,
`StoreImplementsRunLog`) needs more: `ViewInv` adds to `StoreInv` what the index has to do with the
ledger. `Shown`: unless an index was overlooked, it holds the first k events and the
checkpoints up to there, all of them for the backend that has the writer, and a
backend about to roll it forward has measured k; `Drafts`: a checkpoint that is not
yet recorded takes the writer's next number and position, and its state and ref
are on disk before its line; `Registered`: recorded checkpoints can be restored, have
distinct numbers and older parents; `Fresh`: what was loaded is still what is on
disk. With these every step of `RunStore` maps to a step of `RunLog` or to a stutter
(`StoreImplementsRunLog`): the append of the line is the abstract append, the return
the acknowledgement, and a step on the index moves what readers see.

**EngineProofs** (`TreeInvariant`, `TreeExists`, `ComposeInvariant`, `CallsCompose`,
`ContinueInvariant`, `ParentsContinue`). A restore's event
is appended last in its plan (`PlanSteps`), so its call has checked its commit
out, and `TreeInv` adds that such a call leaves a worktree behind. No step
removes it: a checkpoint makes the worktree continue a commit that exists
(`DescendStep`).

`ComposeInvariant` and `CallsCompose` need what a view folds to. `IsView` says it of
any ledger without a fold: a view of its first events is at the commit of the latest
event that moves the run (`IsCurrent`), and in the execution worktree once an event was
a restore or a fork (`WorksIn`). `FoldSteps` and `FoldNext` show that the fold of
`#view` computes that, for ledgers of any length, and `ViewInv` that every view is of
the ledger's beginning, whatever fails, dies or races. The rest holds while no
call overlapped another and none was cut short (`QuietInv`): the index has all of
the ledger; so has the view of a call past its `#view` (`CallsKnowAll`); the
workspace that the ledger names continues the commit that the ledger is at
(`HeadIsHeld`), except between a call's checkout and its event, when it holds what was
checked out (`CheckoutsHold`); and a snapshot continues the commit that becomes the
parent (`SnapshotsHold`). So appends follow the view, and a checkpoint descends from
its parent.

`ParentsContinue` is of calls that do overlap and fail, and so of stale views: a
checkpoint may record a parent that is long behind what its files continue. That files
go back to a commit is a statement about all closed sets of commits, which an append
can only make smaller (`BackStays`), so it needs no induction over paths. `UncrossedInv`
holds while no restore crossed another call: the workspace goes back to *every* commit
that the run has been at since its latest restore (`HeadsAreHeld`, except while a call
has checked out another), so also to the one that any view which has seen that restore
is at; a checkpoint under way has seen it (`RestoresSeen`), because a restore beside it
would cross, and because an index that lags behind never lacks one: a restore that is
cut short crosses. Hence a snapshot goes back to the parent that it will record
(`SnapshotsContinue`), and nothing that it copied was replaced since.

**SnapshotProofs** (`SnapshotInvariant`, `CheckpointRecent`, `DeltasFit`,
`RestoredIsUnchanged`, `DetectionRecent`; of `Lineage`, `ForestInvariant`,
`DiffsAreExact`, `LineagesConcur`). The heart is `Apt`, what an entry of a stat
cache is worth: if the file still has the entry's mtime and inode, and the entry was
hashed later than the racy window after that mtime, the file has one of the contents
that the entry may stand for. It is inductive because a write cannot give a file a
timestamp that lies before the present tick (`StaysApt`). `Caching` says it of both
caches, `Taking` of the files a pass has taken, `Passing` that a path the walk is past
is taken or left out for a reason that was true meanwhile, `Seeing` that `had` holds
the present, and `Restoring` that commits are flat and that each file of a restored
workspace is still what the checkout made of its content, with the mode of the commit.
That a checkpoint of it has the same content again is shown of contents that last
(`Lasting`): which the checkout and redaction leave alone and which are not over the
limit. Of the rest it is shown that no file is added, and none skipped but of these.

The second part is about forests of runs. Its invariant, `ForestInv`, is small: every run
but the first was forked from a checkpoint of an earlier one (`Rooted`), and an event
names an earlier checkpoint of its run, or what its run was forked from (`Names`). The
reads are functions that call themselves on what a position, a checkpoint or a run comes
from. That there are such functions follows from there being, before each, a smaller
number of the same kind (`ByDescent`, with the number of positions before one,
`BeforeGrows`), and what they come to from the least for which it would not
(`LineageSteps`, `WalkSteps`, `SegmentSteps`, `DescentSteps`). Listings put a finite set
in order (`ListingIs`, `NumbersInOrder`). The walk for claims then climbs through what
the lineage query lists, in its order (`WalkIs`, `SegmentsClimb`, `ListedIs`), to the
place where a run did not announce its fork. For diff, what led to a position is among
what its lineage covers (`DescentIsCovered`), and that is, of each run, the events up to
the place at which the lineage leaves it (`SeqInIs`, `RangeIs`): so a range which begins
there shows nothing that led to the other side, and what it leaves out is covered by the
other side's lineage and did not lead there (`RangesExact`).

**RunHistoryProofs** (`DerivesCorrectly`, `ResumesReport`, `WarningsAgree`,
`ScanFindsAll`, `ContextsFit`, `ContextsHonest`). The
derivations fold over a ledger of any length. The first part of the module says what
each fold computes: that a fold of the community modules has steps at all (`FoldExists`,
for a function on the subsets of its indices), from left to right (`FoldUp`) or from
right to left (`FoldDown`), and then, by the least number of events for which it would
be wrong (`UpTo`), what it has come to. `DerivationMeans`: a derivation over any part of
the events is the set of the requests among them, each with the first acknowledgement
or else the last failure that belongs to it. `WindowsHistory`: the events outside the
windows that a walk back over the restores collects are the history of the position it
started from; on its way the walk knows that its position's history and what lies
behind it outside the windows make up the history (`WalksTo`), and that every restore it
has passed is later than its position. `GroupingMeans`: on a paired ledger the groups of
`deriveSideEffects` are the requests with what resolved them, and the current group of
an id that of its latest request. So a report is known for every ledger (`ReportsOn`).
What remains is a small invariant, `HistInv`: restores go back, and what each
checkpoint recorded of the tool requests of its history is what the ledger says of them
now. It is inductive because an event that the history does not contain adds nothing
to what is reported of that history (`ToolsOnStays`).

The third part is the walk of the context builder (`ResumeContext`). Between two events
it `Knows`: its marks are the restores that it has met on the way back, its windows
those of the marks, so that an event is skipped exactly if it lies outside the history
(`OnLineage`); and it `Finds` in what it has passed the cited events, the newest
failure, and, while there is room, all since the parent. That the room is never used up
too soon or too late is about sums of widths, which grow with their sets (`Widths`,
`RoomLeft`, `MetUpTo`). A page is a fold over its events (`PageSteps`), after which the walk
jumps below every window so far, over events that are abandoned (`PageKeeps`); the walk
is a fold over pages, each of which takes it further back (`ScanFinds`). It starts at a
checkpoint of a run whose restores go back: `ContextInv` is `HistInv`, and that every
event has a width.

The fourth part is what the builder makes of it. A width is a sum over a finite set,
which is the same in any order (`Sums`, `SumAdds`), and counts have digits: the nines
that the builder reserves for its line of counts are as wide as any count up to the
cursor (`DigitsMeans`, `CountsFit`). When a section shows one line more, its line of
what is left out may become narrower or go, and it grows by what the builder adds
(`OneMoreShown`). So the selection of tier 1 keeps `Selects`: its count is the width of
the preamble and the state with what it has selected, claim by claim (`ClaimsTaken`) and
intent by intent (`GroupTaken`, `Tier1Selects`). The candidates of tier 3 keep `Follows`:
each was shown, with its width counted, or is counted as left out, or an earlier cause
had considered it, and none is shown twice (`ConsiderKeeps`, `AllConsidered`,
`Tier3Selects`). That the cited events exist, and lie in the history, is about the run:
`ClaimsInv` adds to `ContextInv` that a claim cites events up to its checkpoint, where a
checkpoint's claims come from, and that restores go to checkpoints (`SelectionIs`,
`SelectedClaims`). `ReportsAre` has from `HistInv` that every effect whose outcome is
unknown is among what is shown in any case. `BuildKeeps` puts the tiers together.

**HookAdapterProofs** (`HookInvariant`, `HooksResolve`, `QuietSessionsRecorded`,
`TruthInvariant`, `ObservationsTrue`). `HookInv`: `Ordered`, the order in which a
session fires hooks; `Primary`, a hook knows its primary event exactly if `record()`
returned one, and goes on to a further event only then; `Resolved`, what it returned;
`Quiet`, in a session without disturbance one hook runs at a time, its view is the
whole ledger, and the lock is free or its own when it comes to append; `Matching`, a
change that is recorded or about to be is against the status of a request of that tool.

`TruthInv` is about what the ledger tells. `Told`: an event of a tool is of a hook that
fired and has the type of what the tool did; a call is requested at most once, before
its outcome. `Spanned`: of a call that still is alone, the statuses that its hooks have
read, are about to append or have recorded are those that its tool started and ended
with. This holds because a call that is asked for, or whose `PostToolUse` has not ended,
is busy, so that no other tool changes the workspace beside it. `Reported`: a hook that
returned without an error or a notice has recorded the change. It is inductive together
with `HookInv`, one lemma per action.

The part on pending intents is about a fold. `DerivationSteps` unfolds it from left to
right (that there is such a fold is shown by the least number of events for which there
would be none), and `CorrelateTrue` shows that one more event of a ledger that is `Told`
leaves every intent with a status that the ledger bears out: since a call has one
request, an outcome finds its intent.

**ProjectionsProofs** (`ProjectionsInvariant`, `AckedStayListed`,
`EvidenceStaysInRange`, `SavesUndisturbed`). That what is acknowledged is listed,
raced or lost, is not inductive: a put that finds its blob in place skips the sync, and a
rebuild replaces the rows. `ProjInv` adds: `Rooted`, the directories of old are on
disk, and nothing in them was lost; `Owned` and `Numbered`, no two puts store the
same projection, since the Writer's is of a new checkpoint and a distiller's has its
own number, so that no put skips the sync (`Stepwise`); and `Listed`, what a reindex
has listed holds all that is acknowledged and neither raced nor lost. It rests on checkpoints
being numbered without gaps (`NextNumber`). Evidence stays in the range that its
cursors span because an appended event moves neither a cursor nor a parent of what
was there (`Traced`, `InRange`). That the saves of one Ckpt do not disturb each other
rests on `Told`, each save has one declared event; `Turns`, the save whose event is
recorded is the first of the line and the only one; `Alone`, between its event and its
checkpoint only other callers append; and `Excused`, one of these made the event of a
rejected save stale.

**BundleProofs** (`ImportInvariant`, `AckedImports`, `VisibleRunsOnlyGrow`,
`BundlesSafe`, `ImportsUndone`, `VisibleRunsWhole`, `RoundTrips`). That a
visible run is not disturbed rests on who holds its lock, and on the rollback.
`ImportInv`: `Importing`, an import is at one of the runs it is to write, each of which
has a ledger in the bundle; `Holding`, it holds the locks of the runs it has come to,
of all of them from the second look at the store on, and of all that its rollback
would touch; `Landed`, what it has written so far is there as the bundle has it. A
step of another import, a reindex or an engine needs a free lock, and so leaves these
alone (`OtherStepKeeps`). `Lasting`: what an import wrote, once it returns, is visible
and begins as written; `SparedBy`: no import has yet to undo a ledger or a record of
it. The latter is why the exclusive creation of `events.jsonl` and `run.json` matters:
a step to undo is noted only by whoever created the file. `SafeInv` is of exports:
`PlanFits`, a plan knows every secret among what it will write, which stays true when
the ledger grows, since only lines up to the planned head are written; that the head
which is read again has the planned seq (`LedgerMatches`) is what bounds the lines.

That a failed import leaves nothing of a run that was not there needs `UndoInv` beside
`ImportInv`. Its parts: `Stacked`, the steps to undo are of the runs to write, and a
rollback comes to the parts of a run (directory, ledger, refs, record) latest first;
`Reached`, which parts an import has noted at each of its steps; `Faultless`, before
the first fault an import never skips a run that is absent, and whatever there is of a
run that it writes is its own; `Undoable`, after one fault it either found the run
visible, and has at most its directory to undo, which is not empty and stays, or has
all that is there of it to undo; `DirFirst`, a directory is made before and removed after its ledger and
record; and `Covered`, which gives the property: what there is of a run that is not
visible is being written or undone by the holder of its lock. `Undoable` and `Covered`
are of one fault at most and leave out the runs of dead processes: a second failed
write, during the rollback, and a death do leave a ledger or refs behind.

That a visible run is whole needs two more invariants. `DataInv` is of what never goes:
every ledger in the store, visible or not, is chained and has its payloads, states and
commits (`Filled`); what an object of the repository refers to is there too and of the
type required, unless a cut import left it out (`Closed`); and `Brings`, an import has
verified each run that it writes (`Vetted`), and has its objects and blobs there from
the step after each. `Closed` makes the walk from a commit stay among what is there
(`WalkReaches`): the set `Walk` is the least that is closed, so that it can be reasoned
about without induction. `OrderInv` is of what comes and goes: `Ordered`, refs and a
record have a ledger below them, and a record has the refs of all its checkpoints;
`Refers`, an import that writes records has the refs of its bundle there; and
`Withdraws`, which a rollback needs: of the ledger, refs and record of a run it removes
none, or all that there are, so that what goes, latest first, leaves nothing above it.
`Ordered` and `Withdraws` are of one fault at most, as the property. By
`AppendAssumption` an engine's events need nothing: how an engine makes a payload or a
checkpoint durable before its event is `RunStore`'s.

That a written bundle verifies, or why not, needs `TripInv`: a plan is `Exportable` until
it is written. `Exportable` is about the events up to the planned head, which no append
changes, and not about the ledger: they are chained, what they need is planned, the
planned checkpoints are among those that they declare, with states of their ids
(`PrefixDeclares`), and the walk from the planned refs stays among the planned objects
and meets the types required (`ClosureTyped`). When the ledger is read again,
`LedgerMatches` makes its planned part the planned events (`PlannedOf`). From there the
verdict is the first check of `verifyBundle` that fails, in the code's order (`Verdict`,
`VerdictOfOne`): a bundle in which redaction changed a hashed text fails a hash before
anything is missed; of the checkpoints the first one that has no ref, or a bundled state
of another commit or seq, decides (`CheckpointsVerdict`); and a bundle with its ledger,
and a ref and a state of its own for each declared checkpoint, passes all checks, since
ids are declared once (`DeclaredOnce`).

The types (`TypeOK` of `RunLock` and `RunStore`) and the two facts about the lock
before any death are proved and not checked by a run of their own.

Only model-checked:

- liveness (`CallsTerminate`, `StaleLockRecovered`, `CallsEnd`, `HooksEnd`), which
  rests on ENABLED and is out of the prover's reach;
- properties over texts, whose computations would each have to be described first, as
  the proof modules do it for theirs: all of `Redact`; and `TimelineParentsFirst`, where
  the same would have to be done for the breadth-first order of runs.

## 5. What is not modelled

- file formats, the bytes of an archive, canonical JSON, SHA-256, schema validation,
  JSON patches, rendering and HTTP: pure functions of one process without state;
- the command line, and the triggers of distillation, which decide only when another
  part is called;
- several runs in one store at once, except in `Bundle` and `Lineage`: runs share no
  file but `checkpoint.db`, whose transactions SQLite serialises, and `reindex`;
- `replay`, which only reads; migrations of `checkpoint.db`;
- an fsync that fails after `link()` (lock.ts:99), which would need an outcome of
  its own in `RunLock`;
- bit rot, and file systems on which fsync or rename is not what POSIX says;
- `bench/`, which drives the program from outside.

## 6. Plan

In this order:

1. An abstract specification of imports (a run appears whole or not at all) which
   `Bundle` implements.
2. The fsync that fails after the link, as an outcome of `acquire` in `RunLock`.
3. The distiller's triggers, `replay`, and JSON patches against a reference.
