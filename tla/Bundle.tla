------------------------------- MODULE Bundle -------------------------------
(***************************************************************************)
(* Bundle services (src/bundle/service.ts): exports out of one store, and   *)
(* imports into another that engines and reindexes of other processes use   *)
(* at the same time.                                                         *)
(*                                                                           *)
(* One step per durable write, lock operation or index transaction.  A write *)
(* may fail, and a process may die, anywhere, MaxFaults times.  The lock of a *)
(* run is the ideal one of RunStore, of which a dead process lets go.  An    *)
(* import removes what it created when a later write fails; what it may     *)
(* leave behind if it dies is part of the model.                             *)
(***************************************************************************)
EXTENDS BundleFormat

CONSTANTS Services,     \* bundle services, each in a process of its own
          NoService,
          NoFile,       \* nothing at a path
          Stores,       \* stores to export from
          Targets,      \* what is exported
          Options,      \* options of an export: [workspace, ledger, artifacts, unsafe]
          Received,     \* [paths -> bundles from elsewhere]
          OutPath,      \* the path that exports write to
          NewEvent,     \* the body that an engine appends
          UnsafeEvent,  \* the body that records an unsafe export
          MaxCalls,     \* bound: calls of export, import and reindex
          MaxAppends,   \* bound: events that engines append
          MaxFaults     \* bound: failed writes and deaths

ASSUME ServiceAssumption ==
  /\ NoService \notin Services
  /\ OutPath \notin DOMAIN Received
  /\ MaxCalls \in Nat /\ MaxAppends \in Nat /\ MaxFaults \in Nat

\* What a store and a bundle are, as far as the calls depend on it.
IsEvent(event) ==
  event = [run |-> event.run, seq |-> event.seq, body |-> event.body, text |-> event.text,
           prev |-> event.prev, hash |-> event.hash]
IsLedger(events) == events \in Seq(ToSet(events))
HoldsEvents(st) ==
  \A r \in DOMAIN st.ledgers : \A i \in DOMAIN st.ledgers[r] : IsEvent(st.ledgers[r][i])
IsStore(st) ==
  /\ DOMAIN st = DOMAIN EmptyStore
  /\ DOMAIN st.records \subseteq Runs /\ DOMAIN st.ledgers \subseteq Runs
  /\ \A r \in DOMAIN st.ledgers : IsLedger(st.ledgers[r])
IsBundle(bundle) ==
  /\ bundle.manifest.runs \in Seq(Runs)
  /\ \A r \in DOMAIN bundle.ledgers : IsLedger(bundle.ledgers[r])

ASSUME FilesAssumption ==
  /\ \A st \in Stores : IsStore(st) /\ HoldsEvents(st)
  /\ \A path \in DOMAIN Received : IsBundle(Received[path])

\* What an engine appends beside an import needs no blob and no ref (an event that
\* does is RunStore's).
ASSUME AppendAssumption ==
  /\ BodyContent[NewEvent].payload = NoBlob
  /\ BodyContent[NewEvent].checkpoint = NoCheckpoint

\* What a store to export from holds: nothing with a marker yet, and git objects
\* of the types that their referrers require.
Genuine(st) ==
  /\ \A r \in DOMAIN st.ledgers : \A i \in DOMAIN st.ledgers[r] : st.ledgers[r][i].text # "marker"
  /\ \A b \in st.blobs : BlobContent[b].text # "marker"
  /\ \A o \in st.objects : o \in Objects /\ ObjectContent[o].text # "marker"
  /\ \A ref \in st.refs : ref.sha \in st.objects => ObjectContent[ref.sha].type = "commit"
  /\ \A o \in st.objects : \A ref \in ObjectContent[o].refs :
       ref.sha \in st.objects => ObjectContent[ref.sha].type = ref.type

ASSUME SourceAssumption ==
  /\ \A st \in Stores : Genuine(st)
  /\ BodyContent[NewEvent].text # "marker" /\ BodyContent[UnsafeEvent].text # "marker"

VARIABLES source,    \* the store that is exported from
          store,     \* the store that is imported into
          index,     \* its checkpoint.db: [run -> events indexed], for the runs listed
          file,      \* the bundle at OutPath
          lock,      \* [Runs -> the service that holds the lock in `store`]
          pc,        \* [Services -> the step its call is at]
          job,       \* [Services -> the locals of its call]
          calls, appends, faults,
          died,      \* runs that an import was writing when its process died
          cut        \* an import wrote only some of the git objects it needed

vars == <<source, store, index, file, lock, pc, job, calls, appends, faults, died, cut>>
counters == <<calls, appends, faults, died, cut>>

\* Of an export: its plan, whether its partial file exists and what is in it; of
\* an import: the runs of its bundle, the positions of those to write, the one it is
\* at, what to undo, and what it wrote; of a reindex: the runs listed that it has
\* not come to, and what it loaded.
NoJob == [kind |-> "none", result |-> "none", plan |-> NoFile, partial |-> FALSE, draft |-> NoFile,
          path |-> OutPath, runs |-> {}, todo |-> {}, at |-> 0, undo |-> <<>>,
          wrote |-> {}, listed |-> <<>>, loaded |-> <<>>]

Init ==
  /\ source \in Stores
  /\ store = EmptyStore
  /\ index = <<>>
  /\ file = NoFile
  /\ lock = [r \in Runs |-> NoService]
  /\ pc = [s \in Services |-> "idle"]
  /\ job = [s \in Services |-> NoJob]
  /\ calls = 0 /\ appends = 0 /\ faults = 0
  /\ died = {}
  /\ cut = FALSE

-----------------------------------------------------------------------------
(* Steps of a call.                                                          *)

Go(s, step) == pc' = [pc EXCEPT ![s] = step]
Goto(s, step, j) == Go(s, step) /\ job' = [job EXCEPT ![s] = j]

\* What is left of a call that ended.
Ended(j, result) ==
  [NoJob EXCEPT !.kind = j.kind, !.result = result, !.runs = j.runs, !.wrote = j.wrote]
End(s, result) == Goto(s, "idle", Ended(job[s], result))

\* A write fails.
Fault == faults < MaxFaults /\ faults' = faults + 1

\* A call begins, and goes to a step or ends at once.
MayCall(s) == pc[s] = "idle" /\ calls < MaxCalls
Begin(s, kind, j, step) ==
  /\ calls' = calls + 1
  /\ Goto(s, step, [j EXCEPT !.kind = kind])

-----------------------------------------------------------------------------
(* Export.                                                                   *)

\* exportBundle: planExport, then the prompt.
Plan(s) ==
  /\ MayCall(s)
  /\ \E target \in Targets, include \in Options :
       LET error == ExportError(source, target, include)
       IN  IF error = "ok"
           THEN Begin(s, "export", [NoJob EXCEPT !.plan = ExportPlan(source, target, include)],
                      "confirm")
           ELSE Begin(s, "export", [NoJob EXCEPT !.result = error], "idle")
  /\ UNCHANGED <<source, store, index, file, lock, appends, faults, died, cut>>

\* Mutant: the unsafe export is recorded after the file is written, if at all.
AnswerUndeclared(s) ==
  /\ pc[s] = "confirm"
  /\ \/ Go(s, "create") /\ UNCHANGED job
     \/ End(s, "aborted")
  /\ UNCHANGED <<source, store, index, file, lock, counters>>

\* The user's answer.  writeBundle without the right confirmation throws and
\* changes nothing; the plan is used up by the first right one.
Answer(s) ==
  /\ pc[s] = "confirm"
  /\ \/ Go(s, IF job[s].plan.unsafe THEN "declare" ELSE "create") /\ UNCHANGED job
     \/ End(s, "aborted")
  /\ UNCHANGED <<source, store, index, file, lock, counters>>

\* #recordUnsafeExport: an event in the source's ledger; appendEvent may fail,
\* also after its line is durable.
Declare(s) ==
  LET sealed == Seal(job[s].plan.run, EventLog(source, job[s].plan.run), UnsafeEvent)
  IN  /\ pc[s] = "declare"
      /\ \/ Go(s, "create") /\ UNCHANGED <<job, faults>>
         \/ End(s, "ERR_IO") /\ Fault
      /\ source' = [source EXCEPT !.ledgers = With(@, job[s].plan.run, sealed)]
      /\ UNCHANGED <<store, index, file, lock, calls, appends, died, cut>>
DeclareFails(s) ==
  /\ pc[s] = "declare"
  /\ End(s, "ERR_IO") /\ Fault
  /\ UNCHANGED <<source, store, index, file, lock, calls, appends, died, cut>>

\* writePlannedBundle: the partial file is created, filled and synced, linked
\* to the output path, and removed.
Create(s) ==
  /\ pc[s] = "create"
  /\ Goto(s, "fill", [job[s] EXCEPT !.partial = TRUE])
  /\ UNCHANGED <<source, store, index, file, lock, counters>>
CreateFails(s) ==
  /\ pc[s] = "create"
  /\ End(s, "ERR_IO") /\ Fault
  /\ UNCHANGED <<source, store, index, file, lock, calls, appends, died, cut>>

Fill(s) ==
  LET plan == job[s].plan
  IN  /\ pc[s] = "fill"
      /\ IF plan.ledger /\ ~LedgerMatches(source, plan)
         THEN End(s, "ERR_CORRUPT_STORE")
         ELSE Goto(s, "link", [job[s] EXCEPT !.draft = WrittenBundle(source, plan)])
      /\ UNCHANGED <<source, store, index, file, lock, counters>>
FillFails(s) ==
  /\ pc[s] = "fill"
  /\ End(s, "ERR_IO") /\ Fault
  /\ UNCHANGED <<source, store, index, file, lock, calls, appends, died, cut>>

Link(s) ==
  /\ pc[s] = "link"
  /\ IF file # NoFile
     THEN End(s, "ERR_OUTPUT_EXISTS") /\ UNCHANGED file
     ELSE file' = job[s].draft /\ Goto(s, "finish", [job[s] EXCEPT !.draft = NoFile])
  /\ UNCHANGED <<source, store, index, lock, counters>>
LinkFails(s) ==
  /\ pc[s] = "link"
  /\ End(s, "ERR_IO") /\ Fault
  /\ UNCHANGED <<source, store, index, file, lock, calls, appends, died, cut>>

\* The partial file is unlinked and the directory synced; either may throw.
Finish(s) ==
  /\ pc[s] = "finish"
  /\ End(s, "written")
  /\ UNCHANGED <<source, store, index, file, lock, counters>>
FinishFails(s) ==
  /\ pc[s] = "finish"
  /\ End(s, "ERR_IO") /\ Fault
  /\ UNCHANGED <<source, store, index, file, lock, calls, appends, died, cut>>

Export(s) ==
  \/ Plan(s) \/ Answer(s) \/ Declare(s) \/ DeclareFails(s) \/ Create(s) \/ CreateFails(s)
  \/ Fill(s) \/ FillFails(s) \/ Link(s) \/ LinkFails(s) \/ Finish(s) \/ FinishFails(s)

-----------------------------------------------------------------------------
(* Import: verify, then write under the locks, in the order of visibility.   *)

\* Mutant: the rollback runs in the order of the writes.
DoneInOrder(j, step) == [j EXCEPT !.undo = Append(@, step)]

\* The rollback runs latest first.
Done(j, step) == [j EXCEPT !.undo = <<step>> \o @]
\* What is at a path: a file that an export wrote never changes again.
At(path) == IF path = OutPath THEN file ELSE Received[path]
BundleOf(s) == At(job[s].path)

\* The run that an import is at, and all that it writes.
Run(s) == BundleOf(s).manifest.runs[job[s].at]
ToWrite(s) == {BundleOf(s).manifest.runs[i] : i \in job[s].todo}

\* The next run of a loop over the runs to write, or the loop after it.
NextRun(s, j, loop, then) ==
  LET later == {i \in job[s].todo : i > job[s].at}
  IN  IF later # {} THEN Goto(s, loop, [j EXCEPT !.at = Min(later)])
      ELSE Goto(s, then, [j EXCEPT !.at = Min(job[s].todo)])

\* A write throws: everything done is undone, the latest first.
Throw(s, result) == Goto(s, "undo", [job[s] EXCEPT !.result = result])

\* A write of s at `step` fails and leaves nothing.
WriteFails(s, step) ==
  /\ pc[s] = step
  /\ Throw(s, "ERR_IO") /\ Fault
  /\ UNCHANGED <<source, store, index, file, lock, calls, appends, died, cut>>

\* importBundle: verifyBundle and the first runsToWrite.
Import(s) ==
  /\ MayCall(s)
  /\ \E path \in DOMAIN Received \cup (IF file = NoFile THEN {} ELSE {OutPath}) :
       LET bundle == At(path)
           verdict == Verify(bundle, store)
           failed == [NoJob EXCEPT !.runs = ToSet(bundle.manifest.runs)]
           todo == RunsToWrite(bundle, store)
       IN  IF verdict # "ok"
           THEN Begin(s, "import", [failed EXCEPT !.result = verdict], "idle")
           ELSE IF Refused(bundle, store)
           THEN Begin(s, "import", [failed EXCEPT !.result = "ERR_RUN_EXISTS"], "idle")
           ELSE IF todo = {}
           THEN Begin(s, "import", [failed EXCEPT !.result = "ok"], "idle")
           ELSE Begin(s, "import", [failed EXCEPT !.path = path, !.todo = todo, !.at = Min(todo)],
                      "lock")
  /\ UNCHANGED <<source, store, index, file, lock, appends, faults, died, cut>>

Lock(s) ==
  /\ pc[s] = "lock"
  /\ IF lock[Run(s)] = NoService
     THEN /\ lock' = [lock EXCEPT ![Run(s)] = s]
          /\ NextRun(s, job[s], "lock", "recheck")
     ELSE Throw(s, "ERR_RUN_LOCKED") /\ UNCHANGED lock
  /\ UNCHANGED <<source, store, index, file, counters>>

\* runsToWrite again, under the locks.
Recheck(s) ==
  /\ pc[s] = "recheck"
  /\ IF Refused(BundleOf(s), store)
        \/ Cardinality(RunsToWrite(BundleOf(s), store)) # Cardinality(job[s].todo)
     THEN Throw(s, "ERR_RUN_EXISTS")
     ELSE Go(s, "objects") /\ UNCHANGED job
  /\ UNCHANGED <<source, store, index, file, lock, counters>>

NeededObjects(s) == UNION {RunObjects(BundleOf(s), r) : r \in ToWrite(s)}
NeededBlobs(s) == UNION {RunBlobs(BundleOf(s), r) : r \in ToWrite(s)}

\* Git objects and CAS blobs that are missing; a failure leaves some of them.
WriteObjects(s) ==
  /\ pc[s] = "objects"
  /\ store' = [store EXCEPT !.objects = @ \cup NeededObjects(s)]
  /\ Go(s, "blobs")
  /\ UNCHANGED <<source, index, file, lock, job, counters>>
WriteObjectsFails(s) ==
  /\ pc[s] = "objects"
  /\ \E some \in SUBSET (NeededObjects(s) \ store.objects) :
       store' = [store EXCEPT !.objects = @ \cup some]
  /\ cut' = TRUE
  /\ Throw(s, "ERR_GIT") /\ Fault
  /\ UNCHANGED <<source, index, file, lock, calls, appends, died>>

WriteBlobs(s) ==
  /\ pc[s] = "blobs"
  /\ store' = [store EXCEPT !.blobs = @ \cup NeededBlobs(s)]
  /\ Go(s, "dir")
  /\ UNCHANGED <<source, index, file, lock, job, counters>>
WriteBlobsFails(s) ==
  /\ pc[s] = "blobs"
  /\ \E some \in SUBSET (NeededBlobs(s) \ store.blobs) :
       store' = [store EXCEPT !.blobs = @ \cup some]
  /\ Throw(s, "ERR_IO") /\ Fault
  /\ UNCHANGED <<source, index, file, lock, calls, appends, died, cut>>

\* Ledgers, run by run: the directory, then events.jsonl.
MakeDir(s) ==
  /\ pc[s] = "dir"
  /\ store' = [store EXCEPT !.dirs = @ \cup {Run(s)}]
  /\ Goto(s, "events", Done(job[s], [what |-> "dir", runs |-> {Run(s)}]))
  /\ UNCHANGED <<source, index, file, lock, counters>>
WriteEvents(s) ==
  /\ pc[s] = "events"
  /\ IF Run(s) \in DOMAIN store.ledgers THEN Throw(s, "EEXIST") /\ UNCHANGED store
     ELSE /\ store' = [store EXCEPT !.ledgers = With(@, Run(s), BundleOf(s).ledgers[Run(s)])]
          /\ NextRun(s, Done(job[s], [what |-> "events", runs |-> {Run(s)}]), "dir", "refs")
  /\ UNCHANGED <<source, index, file, lock, counters>>

\* createRefs: all refs in one transaction, never over an existing one.
CreateRefs(s) ==
  LET runs == ToWrite(s)
  IN  /\ pc[s] = "refs"
      /\ IF \E r \in runs : RefsOfRun(store.refs, r) # {}
         THEN Throw(s, "ERR_GIT") /\ UNCHANGED store
         ELSE /\ store' = [store EXCEPT !.refs = @ \cup {r \in BundleOf(s).refs : r.run \in runs}]
              /\ Goto(s, "record", Done(job[s], [what |-> "refs", runs |-> runs]))
      /\ UNCHANGED <<source, index, file, lock, counters>>

\* Run records last: the run is visible.  Then the directories are synced.
WriteRecord(s) ==
  /\ pc[s] = "record"
  /\ IF Run(s) \in DOMAIN store.records THEN Throw(s, "EEXIST") /\ UNCHANGED store
     ELSE /\ store' = [store EXCEPT !.records = With(@, Run(s), BundleOf(s).records[Run(s)])]
          /\ Goto(s, "sync", Done(job[s], [what |-> "record", runs |-> {Run(s)}]))
  /\ UNCHANGED <<source, index, file, lock, counters>>
Sync(s) ==
  /\ pc[s] = "sync"
  /\ NextRun(s, job[s], "record", "release")
  /\ UNCHANGED <<source, store, index, file, lock, counters>>

\* Mutant: the rollback deletes every checkpoint ref.
RemovedAllRefs(st, step) ==
  LET run == CHOOSE r \in step.runs : TRUE
  IN  CASE step.what = "record" -> [st EXCEPT !.records = Without(@, run)]
        [] step.what = "refs" -> [st EXCEPT !.refs = {}]
        [] step.what = "events" -> [st EXCEPT !.ledgers = Without(@, run)]
        [] OTHER -> st

\* A step of the rollback: rmdir leaves a directory that is not empty.
Removed(st, step) ==
  LET run == CHOOSE r \in step.runs : TRUE
  IN  CASE step.what = "record" -> [st EXCEPT !.records = Without(@, run)]
        [] step.what = "refs" -> [st EXCEPT !.refs = {r \in @ : r.run \notin step.runs}]
        [] step.what = "events" -> [st EXCEPT !.ledgers = Without(@, run)]
        [] step.what = "dir" -> IF run \in DOMAIN st.ledgers \cup DOMAIN st.records THEN st
                                ELSE [st EXCEPT !.dirs = @ \ {run}]

\* A step of the rollback; if it fails it is skipped.
Undo(s) ==
  /\ pc[s] = "undo"
  /\ IF job[s].undo = <<>>
     THEN Go(s, "release") /\ UNCHANGED <<store, job, faults>>
     ELSE /\ \/ store' = Removed(store, Head(job[s].undo)) /\ UNCHANGED faults
             \/ Fault /\ UNCHANGED store
          /\ job' = [job EXCEPT ![s].undo = Tail(@)]
          /\ UNCHANGED pc
  /\ UNCHANGED <<source, index, file, lock, calls, appends, died, cut>>

Unlock(s) == [r \in Runs |-> IF lock[r] = s THEN NoService ELSE lock[r]]

Release(s) ==
  /\ pc[s] = "release"
  /\ lock' = Unlock(s)
  /\ IF job[s].result = "none"
     THEN Goto(s, "list", [job[s] EXCEPT !.wrote =
            {[run |-> r, head |-> HeadOf(BundleOf(s).ledgers[r])] : r \in ToWrite(s)}])
     ELSE End(s, job[s].result)
  /\ UNCHANGED <<source, store, index, file, counters>>

ImportRuns(s) ==
  \/ Import(s) \/ Lock(s) \/ Recheck(s)
  \/ WriteObjects(s) \/ WriteObjectsFails(s) \/ WriteBlobs(s) \/ WriteBlobsFails(s)
  \/ MakeDir(s) \/ WriteEvents(s) \/ CreateRefs(s) \/ WriteRecord(s) \/ Sync(s)
  \/ \E step \in {"lock", "recheck", "dir", "events", "refs", "record", "sync"} : WriteFails(s, step)
  \/ Undo(s) \/ Release(s)

-----------------------------------------------------------------------------
(* reindex, by an import or by itself: lists runs/, and for each run reads   *)
(* run.json, takes the lock and loads; then rebuilds in one transaction.     *)

Reindex(s) ==
  /\ MayCall(s)
  /\ Begin(s, "reindex", NoJob, "list")
  /\ UNCHANGED <<source, store, index, file, lock, appends, faults, died, cut>>

List(s) ==
  /\ pc[s] = "list"
  /\ Goto(s, "readrun", [job[s] EXCEPT !.listed = SetToSeq(store.dirs)])
  /\ UNCHANGED <<source, store, index, file, lock, counters>>

ReadRun(s) ==
  /\ pc[s] = "readrun"
  /\ IF job[s].listed = <<>> THEN Go(s, "rebuild") /\ UNCHANGED job
     ELSE IF Head(job[s].listed) \in DOMAIN store.records THEN Go(s, "load") /\ UNCHANGED job
     ELSE Goto(s, "readrun", [job[s] EXCEPT !.listed = Tail(@)])
  /\ UNCHANGED <<source, store, index, file, lock, counters>>

\* What a reindex ends with: an import turns its failure into ERR_REINDEX.
ReindexEnds(s, result) ==
  /\ lock' = Unlock(s)
  /\ End(s, IF result # "ok" /\ job[s].kind = "import" THEN "ERR_REINDEX" ELSE result)

\* Taking the lock, and #loadDurableRun with the run record read before.
Load(s) ==
  LET run == Head(job[s].listed)
  IN  /\ pc[s] = "load"
      /\ IF lock[run] # NoService THEN ReindexEnds(s, "ERR_RUN_LOCKED")
         ELSE IF ~ChainHolds(run, EventLog(store, run)) THEN ReindexEnds(s, "ERR_CORRUPT")
         ELSE /\ lock' = [lock EXCEPT ![run] = s]
              /\ Goto(s, "readrun", [job[s] EXCEPT
                   !.loaded = With(@, run, Len(EventLog(store, run))), !.listed = Tail(@)])
      /\ UNCHANGED <<source, store, index, file, counters>>

Rebuild(s) ==
  /\ pc[s] = "rebuild"
  /\ index' = job[s].loaded
  /\ ReindexEnds(s, "ok")
  /\ UNCHANGED <<source, store, file, counters>>
ReindexFails(s) ==
  /\ pc[s] \in {"list", "readrun", "load", "rebuild"}
  /\ ReindexEnds(s, "ERR_IO") /\ Fault
  /\ UNCHANGED <<source, store, index, file, calls, appends, died, cut>>

-----------------------------------------------------------------------------
(* The other processes, and the specification.                              *)

\* An engine appends to a run of the source, or to a visible run of `store`
\* whose lock is free (RunStore's promise).
SourceAppend ==
  \E r \in DOMAIN source.records :
    source' = [source EXCEPT !.ledgers = With(@, r, Seal(r, EventLog(source, r), NewEvent))]
StoreAppend ==
  \E r \in DOMAIN store.records :
    /\ lock[r] = NoService
    /\ store' = [store EXCEPT !.ledgers = With(@, r, Seal(r, EventLog(store, r), NewEvent))]
    /\ index' = With(index, r, Len(EventLog(store, r)) + 1)
EngineAppends ==
  /\ appends < MaxAppends
  /\ appends' = appends + 1
  /\ \/ SourceAppend /\ UNCHANGED <<store, index>>
     \/ StoreAppend /\ UNCHANGED source
  /\ UNCHANGED <<file, lock, pc, job, calls, faults, died, cut>>

Writing == {"dir", "events", "refs", "record", "sync", "undo"}

\* The process of s dies; its locks can be taken.
Crash(s) ==
  /\ pc[s] \notin {"idle", "dead"}
  /\ Fault
  /\ Go(s, "dead")
  /\ lock' = Unlock(s)
  /\ died' = IF pc[s] \in Writing THEN died \cup ToWrite(s) ELSE died
  /\ UNCHANGED <<source, store, index, file, job, calls, appends, cut>>

Progress(s) ==
  \/ Export(s) \/ ImportRuns(s)
  \/ List(s) \/ ReadRun(s) \/ Load(s) \/ Rebuild(s) \/ ReindexFails(s)

Next ==
  \/ \E s \in Services : Progress(s) \/ Reindex(s) \/ Crash(s)
  \/ EngineAppends

Spec == Init /\ [][Next]_vars

-----------------------------------------------------------------------------
(* Properties.                                                               *)

\* Every git object that a run's checkpoints need is in the repository, and of
\* the type its referrer requires.
Restorable(r) ==
  LET commits == {c.commit : c \in CheckpointsFromLedger(EventLog(store, r))}
  IN  \A ref \in Walk(Objects, CommitRefs(commits)) :
        ref.sha \in store.objects /\ ObjectContent[ref.sha].type = ref.type

\* A bundle whose ledger declares c, and which leaves its state blob to the store.
LeavesState(bundle, c) ==
  /\ c.run \in DOMAIN bundle.ledgers /\ c \in CheckpointsFromLedger(bundle.ledgers[c.run])
  /\ c.state \notin DOMAIN bundle.blobs
Bundles == {Received[path] : path \in DOMAIN Received} \cup ({file} \ {NoFile})

\* A run is visible (run.json) only whole: its ledger is chained from genesis,
\* and every blob, ref and git object that it needs is there, and the state of
\* each checkpoint is that checkpoint's, unless its bundle left the blob out, when
\* the store's is taken unread.  (An object that
\* the repository has is trusted to have what it refers to, so not if an
\* import that was cut left one without.  Nor if a second write fails: a rollback
\* goes on where it cannot remove run.json.)
VisibleRunWhole ==
  faults <= 1 =>
    \A r \in DOMAIN store.records :
      LET events == EventLog(store, r)
      IN  /\ r \in store.dirs
          /\ ChainHolds(r, events)
          /\ PayloadsOf(events) \subseteq store.blobs
          /\ \A c \in CheckpointsFromLedger(events) :
               /\ RefOf(c) \in store.refs /\ c.state \in store.blobs
               /\ MatchesState(c) \/ \E bundle \in Bundles : LeavesState(bundle, c)
          /\ cut \/ Restorable(r)

\* An import that failed leaves nothing of its runs in the store but blobs and
\* objects, unless its process died or a step of the rollback failed too.
FailedImportUndone ==
  faults <= 1 =>
    \A r \in Runs \ died :
      /\ \A s \in Services : pc[s] \in Writing => r \notin ToWrite(s)
      /\ ~Absent(store, r) \/ r \in DOMAIN store.ledgers
      => r \in DOMAIN store.records

\* What an import wrote and returned stays visible, with the ledger of the
\* bundle at its start, whatever other imports, reindexes and engines do.
AckedImportStays ==
  \A s \in Services :
    \A w \in IF pc[s] = "idle" THEN job[s].wrote ELSE {} :
      /\ w.run \in DOMAIN store.records
      /\ HeadOf(SubSeq(EventLog(store, w.run), 1, w.head.seq)) = w.head

\* An import is all or nothing, whatever runs beside it.
ImportsAllOrNothing == FailedImportUndone /\ AckedImportStays

\* A visible run whose lock is free changes only by appends: an import never
\* overwrites a run or takes a ref of it away.
RunsOnlyGrow ==
  [][\A r \in DOMAIN store.records :
       lock[r] = NoService =>
         /\ r \in DOMAIN store'.records /\ store'.records[r] = store.records[r]
         /\ IsPrefix(EventLog(store, r), EventLog(store', r))
         /\ RefsOfRun(store.refs, r) \subseteq RefsOfRun(store'.refs, r)]_vars

\* Texts of a bundle that hashes do not cover in the run record, and do cover.
Texts(bundle) ==
  {e.text : e \in UNION {ToSet(bundle.ledgers[r]) : r \in DOMAIN bundle.ledgers}}
    \cup {bundle.blobs[b].text : b \in DOMAIN bundle.blobs}
    \cup {bundle.objects[o].text : o \in DOMAIN bundle.objects}

\* A bundle without the ledger of its run, or the ref of a checkpoint in it; and one
\* that bundles the state of a checkpoint which the ledger gives another commit or
\* seq (planExport compares the two ids only).
Incomplete(bundle) ==
  \E r \in DOMAIN bundle.records :
    \/ r \notin DOMAIN bundle.ledgers
    \/ \E c \in CheckpointsFromLedger(bundle.ledgers[r]) : RefOf(c) \notin bundle.refs
Stale(bundle) ==
  \E r \in DOMAIN bundle.ledgers : \E c \in CheckpointsFromLedger(bundle.ledgers[r]) :
    RefOf(c) \in bundle.refs /\ ~MatchesState(c)

\* Export and import fit together: a written bundle verifies in a store that
\* has nothing, unless a redaction changed hashed bytes, or it is incomplete or
\* stale; then it is refused for a reason that holds.
RoundTrip ==
  file # NoFile =>
    LET verdict == Verify(file, EmptyStore)
        redacted == "marker" \in Texts(file)
    IN  /\ verdict \in {"ok", "ERR_INCOMPLETE", "ERR_TAMPERED"}
        /\ redacted => verdict = "ERR_TAMPERED"
        /\ verdict = "ERR_TAMPERED" => redacted \/ Stale(file)
        /\ verdict = "ERR_INCOMPLETE" => Incomplete(file)
        /\ verdict = "ok" => ~Incomplete(file) /\ ~Stale(file)

\* A bundle that was not confirmed as unsafe holds nothing that Redaction
\* detects, though the ledger may grow between the scan and the write; and an
\* unsafe bundle is on record in the run's ledger before it exists.
BundlesAreSafeOrRecorded ==
  file # NoFile =>
    LET run == file.manifest.runs[1]
    IN  IF file.manifest.unsafe
        THEN \E e \in ToSet(EventLog(source, run)) : e.body = UnsafeEvent
        ELSE "secret" \notin Texts(file) \cup {file.records[run]}
=============================================================================
