---------------------------- MODULE BundleProofs ----------------------------
(***************************************************************************)
(* Theorems about Bundle: an import never touches a run that was visible and *)
(* unlocked before, and what it wrote and returned stays, whatever fails and *)
(* dies.  Both rest on who holds which run's lock, and on what a rollback has *)
(* yet to undo being of runs that its import holds and created.              *)
(* And an export writes no secret that it did not find and replace, or record. *)
(* Last, a failed import leaves nothing: what there is of a run that is not  *)
(* visible is being written or undone by the holder of its lock, latest part *)
(* first; and a run that is visible is whole: every ledger in the store is    *)
(* chained and has what it needs, and a record has its ledger and its refs.  *)
(* And what an export wrote verifies, or is refused for what it says it lacks. *)
(***************************************************************************)
EXTENDS Bundle, FiniteSetTheorems, WellFoundedInduction, TLAPS

ExportSteps == {"confirm", "declare", "create", "fill", "link", "finish"}
\* An import holds the locks of all that it writes.
LockedSteps == {"recheck", "objects", "blobs", "dir", "events", "refs", "record", "sync"}
ImportSteps == {"lock", "undo", "release"} \cup LockedSteps
ReindexSteps == {"list", "readrun", "load", "rebuild"}

JobFields == {"kind", "result", "plan", "partial", "draft", "path", "runs", "todo", "at", "undo",
              "wrote", "listed", "loaded"}
UndoSteps == [what : {"dir", "events", "refs", "record"}, runs : SUBSET Runs]

-----------------------------------------------------------------------------
(* The inductive invariant.                                                  *)

\* Where the services are, and what a store, a bundle and a call's locals are.
Typed ==
  /\ pc \in [Services -> {"idle", "dead"} \cup ExportSteps \cup ImportSteps \cup ReindexSteps]
  /\ DOMAIN job = Services /\ \A s \in Services : DOMAIN job[s] = JobFields
  /\ lock \in [Runs -> Services \cup {NoService}]
  /\ IsStore(source) /\ IsStore(store)
  /\ file = NoFile \/ IsBundle(file)

\* What an export plans is of a run, and what it is about to link is a bundle.
Exporting(s) ==
  /\ pc[s] \in {"confirm", "declare", "create", "fill"} => job[s].plan.run \in Runs
  /\ pc[s] = "link" => IsBundle(job[s].draft)

\* The run at a position of the bundle of s.
RunAt(s, i) == BundleOf(s).manifest.runs[i]

\* An import is at one of the runs it is to write, each of which has a ledger in
\* the bundle, and has steps to undo.
Importing(s) ==
  pc[s] \in ImportSteps =>
    /\ job[s].path \in DOMAIN Received \/ (job[s].path = OutPath /\ file # NoFile)
    /\ job[s].todo \subseteq DOMAIN BundleOf(s).manifest.runs
    /\ job[s].at \in job[s].todo
    /\ pc[s] \in {"recheck", "objects", "blobs", "refs"} => \A i \in job[s].todo : job[s].at <= i
    /\ \A i \in job[s].todo : RunAt(s, i) \in DOMAIN BundleOf(s).ledgers
    /\ job[s].undo \in Seq(UndoSteps)
    /\ pc[s] = "undo" => job[s].result # "none"

\* An import is done with all that it is to write.
AllDone(s) == pc[s] = "release" /\ job[s].result = "none"

\* An import holds the locks of the runs that it has come to, and of all whose
\* creation it may undo.
Holding(s) ==
  /\ pc[s] = "lock" => \A i \in job[s].todo : i < job[s].at => lock[RunAt(s, i)] = s
  /\ pc[s] \in LockedSteps \/ AllDone(s) => \A i \in job[s].todo : lock[RunAt(s, i)] = s
  /\ pc[s] \in ImportSteps =>
       \A k \in DOMAIN job[s].undo :
         job[s].undo[k].runs # {} /\ \A r \in job[s].undo[k].runs : lock[r] = s

\* The ledgers and records that an import has written are those of its bundle.
Landed(s) ==
  /\ \A i \in job[s].todo :
       \/ pc[s] \in {"dir", "events"} /\ i < job[s].at
       \/ pc[s] \in {"refs", "record", "sync"}
       \/ AllDone(s)
       => /\ RunAt(s, i) \in DOMAIN store.ledgers
          /\ store.ledgers[RunAt(s, i)] = BundleOf(s).ledgers[RunAt(s, i)]
  /\ \A i \in job[s].todo :
       \/ pc[s] = "record" /\ i < job[s].at
       \/ pc[s] = "sync" /\ i <= job[s].at
       \/ AllDone(s)
       => RunAt(s, i) \in DOMAIN store.records

\* What an import wrote is visible, and begins as it was written; whoever else may
\* undo something of the run has not created its ledger or record.
Lasting(w) ==
  /\ w.run \in DOMAIN store.records /\ w.run \in DOMAIN store.ledgers
  /\ w.head.seq \in 0..Len(store.ledgers[w.run])
  /\ HeadOf(SubSeq(store.ledgers[w.run], 1, w.head.seq)) = w.head
SparedBy(s, w) ==
  pc[s] \in ImportSteps =>
    \A k \in DOMAIN job[s].undo :
      job[s].undo[k].what \in {"events", "record"} => w.run \notin job[s].undo[k].runs

\* All that imports wrote, and the invariant.
Wrote == UNION {job[s].wrote : s \in Services}

Sound(s) == Exporting(s) /\ Importing(s) /\ Holding(s) /\ Landed(s)

ImportInv ==
  /\ Typed
  /\ \A s \in Services : Sound(s)
  /\ \A w \in Wrote : Lasting(w) /\ \A s \in Services : SparedBy(s, w)

-----------------------------------------------------------------------------
(* Ledgers and bundles.                                                      *)

\* A function on 1..n is a sequence.
LEMMA IsLedgerIf ==
  ASSUME NEW n \in Nat, NEW f, f = [i \in 1..n |-> f[i]]
  PROVE  IsLedger(f) /\ Len(f) = n
BY DEF IsLedger, ToSet

\* A longer ledger begins with what it was.
LEMMA LedgerGrows ==
  ASSUME NEW L, IsLedger(L), NEW e
  PROVE  /\ IsLedger(Append(L, e)) /\ Len(L) \in Nat /\ Len(Append(L, e)) = Len(L) + 1
         /\ \A n \in 0..Len(L) : SubSeq(Append(L, e), 1, n) = SubSeq(L, 1, n)
         /\ IsPrefix(L, Append(L, e)) /\ IsPrefix(L, L)
<1> DEFINE S == ToSet(L) \cup {e}
           M == Append(L, e)
<1>1. L \in Seq(S) /\ e \in S
  BY DEF IsLedger
<1> HIDE DEF S
<1>2. /\ M \in Seq(S) /\ Len(L) \in Nat /\ Len(M) = Len(L) + 1
      /\ \A i \in 1..Len(L) : M[i] = L[i]
  BY <1>1
<1>3. IsLedger(M)
  <2> HIDE DEF M
  <2>1. M = [i \in 1..Len(M) |-> M[i]] /\ Len(M) \in Nat
    BY <1>2
  <2> QED
    BY <2>1, IsLedgerIf
<1>4. \A n \in 0..Len(L) : SubSeq(M, 1, n) = SubSeq(L, 1, n)
  <2> HIDE DEF M
  <2> TAKE n \in 0..Len(L)
  <2>1. SubSeq(M, 1, n) = [i \in 1..n |-> M[i]] /\ SubSeq(L, 1, n) = [i \in 1..n |-> L[i]]
    BY <1>1, <1>2
  <2> QED
    BY <1>2, <2>1
<1>5. Len(L) \in 0..Len(L) /\ Len(L) <= Len(M) /\ Len(L) <= Len(L)
  BY <1>2
<1> QED
  BY <1>2, <1>3, <1>4, <1>5 DEF IsPrefix

\* A ledger that is not there is empty.
LEMMA LogIsLedger ==
  ASSUME NEW st, IsStore(st), NEW r
  PROVE  IsLedger(EventLog(st, r))
<1>1. IsLedger(<<>>)
  BY DEF IsLedger
<1> QED
  BY <1>1 DEF EventLog, IsStore

\* What is sealed goes on the ledger's end.
LEMMA SealedStore ==
  ASSUME NEW st, IsStore(st), NEW r \in Runs, NEW body
  PROVE  IsStore([st EXCEPT !.ledgers = With(@, r, Seal(r, EventLog(st, r), body))])
<1> DEFINE L == Seal(r, EventLog(st, r), body)
<1>1. IsLedger(L)
  BY LogIsLedger, LedgerGrows DEF Seal
<1> HIDE DEF L
<1>2. /\ DOMAIN With(st.ledgers, r, L) = DOMAIN st.ledgers \cup {r}
      /\ \A q \in DOMAIN st.ledgers \cup {r} : With(st.ledgers, r, L)[q] = IF q = r THEN L ELSE st.ledgers[q]
  BY DEF With
<1>3. DOMAIN EmptyStore = {"dirs", "records", "ledgers", "refs", "blobs", "objects"}
  BY DEF EmptyStore
<1> DEFINE M == With(st.ledgers, r, L)
           new == [st EXCEPT !.ledgers = M]
<1>4. new.ledgers = M /\ new.records = st.records /\ DOMAIN new = DOMAIN st
  BY <1>3 DEF IsStore
<1>5. DOMAIN M \subseteq Runs /\ \A q \in DOMAIN M : IsLedger(M[q])
  BY <1>1, <1>2 DEF IsStore
<1> HIDE DEF new, M
<1>6. IsStore(new)
  BY <1>4, <1>5 DEF IsStore
<1> QED
  BY <1>6 DEF new, M, L

\* An export writes a bundle.
LEMMA WrittenIsBundle ==
  ASSUME NEW st, IsStore(st), NEW plan, plan.run \in Runs
  PROVE  IsBundle(WrittenBundle(st, plan))
<1> DEFINE all == EventLog(st, plan.run)
           some == {i \in DOMAIN all : all[i].seq <= plan.head.seq}
           log == PlannedLedger(st, plan)
           Line(i) == [log[i] EXCEPT !.text = Content(plan, i \in plan.hits.lines, @)]
           bundle == WrittenBundle(st, plan)
<1>1. IsLedger(all)
  BY LogIsLedger
<1>2. Cardinality(some) \in Nat
  <2>1. DOMAIN all = 1..Len(all) /\ Len(all) \in Nat
    BY <1>1 DEF IsLedger
  <2>2. IsFiniteSet(DOMAIN all)
    BY <2>1, FS_Interval
  <2>3. IsFiniteSet(some)
    BY <2>2, FS_Subset
  <2> QED
    BY <2>3, FS_CardinalityType
<1>3. \E n \in Nat : DOMAIN log = 1..n
  <2>1. log = SubSeq(all, 1, Cardinality(some))
    BY DEF PlannedLedger
  <2> HIDE DEF all, some, log
  <2>2. \A n \in Nat : DOMAIN SubSeq(all, 1, n) = 1..n
    BY <1>1 DEF IsLedger
  <2> QED
    BY <1>2, <2>1, <2>2
<1>4. IsLedger([i \in DOMAIN log |-> Line(i)])
  <2> DEFINE lines == [i \in DOMAIN log |-> Line(i)]
  <2>1. PICK n \in Nat : DOMAIN log = 1..n
    BY <1>3
  <2>2. lines = [i \in 1..n |-> lines[i]]
    BY <2>1
  <2> HIDE DEF lines
  <2>3. IsLedger(lines)
    BY <2>2, IsLedgerIf
  <2> QED
    BY <2>3 DEF lines
<1>5. /\ bundle.manifest.runs = <<plan.run>>
      /\ \A r \in DOMAIN bundle.ledgers : bundle.ledgers[r] = [i \in DOMAIN log |-> Line(i)]
  BY DEF WrittenBundle
<1> HIDE DEF log, Line, bundle
<1> QED
  BY <1>4, <1>5 DEF IsBundle, bundle

-----------------------------------------------------------------------------
(* Steps of one service, and what they leave to the others.                  *)

\* All steps of a call.
PcSteps == {"idle", "dead"} \cup ExportSteps \cup ImportSteps \cup ReindexSteps

\* Only s goes on.
Moved(s) ==
  /\ pc' \in [Services -> PcSteps]
  /\ DOMAIN job' = Services /\ \A t \in Services : DOMAIN job'[t] = JobFields
  /\ \A t \in Services \ {s} : pc'[t] = pc[t] /\ job'[t] = job[t]

\* What t holds stays its own, and as it is.
Steady(t) ==
  \A r \in Runs : lock[r] = t =>
    /\ lock'[r] = t
    /\ r \in DOMAIN store.ledgers => r \in DOMAIN store'.ledgers /\ store'.ledgers[r] = store.ledgers[r]
    /\ r \in DOMAIN store.records => r \in DOMAIN store'.records

\* A bundle does not change.
FileStays == file' = file \/ file = NoFile

\* After a step of s, only s is elsewhere.
LEMMA GoesTo ==
  ASSUME Typed, NEW s \in Services, NEW step \in PcSteps, NEW j, DOMAIN j = JobFields, Goto(s, step, j)
  PROVE  Moved(s) /\ pc'[s] = step /\ job'[s] = j
BY DEF Typed, Goto, Go, Moved, PcSteps

\* The same, when its locals stay.
LEMMA Goes ==
  ASSUME Typed, NEW s \in Services, NEW step \in PcSteps, Go(s, step), UNCHANGED job
  PROVE  Moved(s) /\ pc'[s] = step /\ job'[s] = job[s]
BY DEF Typed, Go, Moved, PcSteps

\* The locals of a call that ended or has not begun.
LEMMA EndFields ==
  ASSUME NEW j, NEW result
  PROVE  /\ DOMAIN Ended(j, result) = JobFields
         /\ Ended(j, result).wrote = j.wrote /\ Ended(j, result).result = result
         /\ DOMAIN NoJob = JobFields /\ NoJob.wrote = {}
BY DEF Ended, NoJob, JobFields

\* An import keeps its bundle: a file that was written never changes.
LEMMA BundleStays ==
  ASSUME Typed, NEW s \in Services, pc[s] \in ImportSteps, Importing(s), FileStays,
         job'[s].path = job[s].path
  PROVE  BundleOf(s)' = BundleOf(s)
<1>1. CASE job[s].path = OutPath /\ file # NoFile
  BY <1>1 DEF FileStays, BundleOf, At
<1>2. CASE job[s].path # OutPath
  BY <1>2 DEF BundleOf, At
<1>3. OutPath \notin DOMAIN Received
  BY ServiceAssumption
<1> QED
  BY <1>1, <1>2, <1>3 DEF Importing

\* What is imported is a bundle, of runs.
LEMMA ImportsBundle ==
  ASSUME Typed, NEW s \in Services, pc[s] \in ImportSteps, Importing(s)
  PROVE  /\ IsBundle(BundleOf(s))
         /\ \A i \in job[s].todo : RunAt(s, i) \in Runs
         /\ Run(s) = RunAt(s, job[s].at) /\ Run(s) \in Runs
         /\ ToWrite(s) = {RunAt(s, i) : i \in job[s].todo}
<1>1. job[s].path = OutPath /\ file # NoFile => IsBundle(BundleOf(s))
  BY DEF BundleOf, At, Typed
<1>2. job[s].path \in DOMAIN Received => IsBundle(BundleOf(s))
  BY ServiceAssumption, FilesAssumption DEF BundleOf, At
<1>3. IsBundle(BundleOf(s))
  BY <1>1, <1>2 DEF Importing
<1>4. \A i \in DOMAIN BundleOf(s).manifest.runs : BundleOf(s).manifest.runs[i] \in Runs
  BY <1>3 DEF IsBundle
<1>5. job[s].todo \subseteq DOMAIN BundleOf(s).manifest.runs /\ job[s].at \in job[s].todo
  BY DEF Importing
<1> QED
  BY <1>3, <1>4, <1>5 DEF RunAt, Run, ToWrite

\* What it may undo is of runs.
LEMMA UndoIsOfRuns ==
  ASSUME NEW s \in Services, pc[s] \in ImportSteps, Importing(s)
  PROVE  /\ \A k \in DOMAIN job[s].undo : job[s].undo[k] \in UndoSteps
         /\ \A k \in DOMAIN job[s].undo : job[s].undo[k].runs \subseteq Runs
<1> DEFINE undo == job[s].undo
<1>1. undo \in Seq(UndoSteps)
  BY DEF Importing
<1> HIDE DEF undo
<1>2. \A k \in DOMAIN undo : undo[k] \in UndoSteps
  BY <1>1
<1>3. \A step \in UndoSteps : step.runs \subseteq Runs
  BY DEF UndoSteps
<1> QED
  BY <1>2, <1>3 DEF undo

\* A service that does not move keeps what holds of it.
LEMMA OthersKeep ==
  ASSUME Typed, NEW t \in Services, Sound(t), pc'[t] = pc[t], job'[t] = job[t], Steady(t), FileStays
  PROVE  Sound(t)'
<1>1. Exporting(t)'
  BY DEF Sound, Exporting, IsBundle, IsLedger
<1>2. CASE pc[t] \notin ImportSteps
  BY <1>1, <1>2 DEF Sound, Importing, Holding, Landed, AllDone, ImportSteps, LockedSteps
<1>3. CASE pc[t] \in ImportSteps
  <2>1. BundleOf(t)' = BundleOf(t)
    BY <1>3, BundleStays DEF Sound
  <2>2. \A i : RunAt(t, i)' = RunAt(t, i)
    BY <2>1 DEF RunAt
  <2>3. \A i \in job[t].todo : RunAt(t, i) \in Runs
    BY <1>3, ImportsBundle DEF Sound
  <2>4. Importing(t)'
    BY <1>3, <2>1, <2>2 DEF Sound, Importing, FileStays
  <2>5. Holding(t)'
    <3>1. \A k \in DOMAIN job[t].undo : job[t].undo[k].runs \subseteq Runs
      BY <1>3, UndoIsOfRuns DEF Sound
    <3>2. \A r \in Runs : lock[r] = t => lock'[r] = t
      BY DEF Steady
    <3> QED
      BY <1>3, <2>2, <2>3, <3>1, <3>2 DEF Sound, Holding, AllDone
  <2>6. Landed(t)'
    <3>1. \A i \in job[t].todo :
            \/ pc[t] \in {"dir", "events", "refs", "record", "sync"}
            \/ AllDone(t)
            => lock[RunAt(t, i)] = t
      BY DEF Sound, Holding, LockedSteps
    <3>2. \A i \in job[t].todo : lock[RunAt(t, i)] = t =>
            /\ RunAt(t, i) \in DOMAIN store.ledgers =>
                 RunAt(t, i) \in DOMAIN store'.ledgers /\ store'.ledgers[RunAt(t, i)] = store.ledgers[RunAt(t, i)]
            /\ RunAt(t, i) \in DOMAIN store.records => RunAt(t, i) \in DOMAIN store'.records
      BY <2>3 DEF Steady
    <3> QED
      BY <2>1, <2>2, <3>1, <3>2 DEF Sound, Landed, AllDone
  <2> QED
    BY <1>1, <2>4, <2>5, <2>6 DEF Sound
<1> QED
  BY <1>2, <1>3

\* A step of one service keeps the invariant, if it does so for that service and
\* what was written lasts.
LEMMA StepKeeps ==
  ASSUME ImportInv, NEW s \in Services, Moved(s), Typed', FileStays,
         \A t \in Services \ {s} : Steady(t),
         Sound(s)',
         \A w \in Wrote : Lasting(w)' /\ SparedBy(s, w)',
         \A w \in job'[s].wrote \ job[s].wrote : Lasting(w)' /\ \A t \in Services : SparedBy(t, w)'
  PROVE  ImportInv'
<1>1. \A t \in Services : Sound(t)'
  BY OthersKeep DEF ImportInv, Moved
<1>2. \A t \in Services \ {s}, w \in Wrote : SparedBy(t, w)'
  BY DEF ImportInv, Moved, SparedBy
<1>3. \A w \in Wrote' : w \in Wrote \/ w \in job'[s].wrote \ job[s].wrote
  BY DEF Wrote, Moved
<1> QED
  BY <1>1, <1>2, <1>3 DEF ImportInv

\* A step outside of an import, which leaves the store alone.
LEMMA OtherStepKeeps ==
  ASSUME ImportInv, NEW s \in Services, Moved(s), Typed', FileStays, store' = store,
         \A r \in Runs, t \in Services \ {s} : lock[r] = t => lock'[r] = t,
         pc'[s] \notin ImportSteps, Exporting(s)', job'[s].wrote \subseteq job[s].wrote
  PROVE  ImportInv'
<1>1. \A t \in Services \ {s} : Steady(t)
  BY DEF Steady
<1>2. Sound(s)'
  BY DEF Sound, Importing, Holding, Landed, AllDone, ImportSteps, LockedSteps
<1>3. \A w : SparedBy(s, w)'
  BY DEF SparedBy, ImportSteps, LockedSteps
<1>4. \A w \in Wrote : Lasting(w)'
  BY DEF ImportInv, Lasting
<1> QED
  BY <1>1, <1>2, <1>3, <1>4, StepKeeps

\* The locks of the others stay theirs.
LocksStay(s) ==
  /\ lock' \in [Runs -> Services \cup {NoService}]
  /\ \A r \in Runs, t \in Services \ {s} : lock[r] = t => lock'[r] = t

\* An export or a reindex goes to a step, or a call ends.
LEMMA Leaves ==
  ASSUME ImportInv, NEW s \in Services, NEW step \in PcSteps \ ImportSteps, NEW j, DOMAIN j = JobFields,
         Goto(s, step, j) \/ (Go(s, step) /\ job' = job /\ j = job[s]),
         j.wrote \subseteq job[s].wrote,
         step \in {"confirm", "declare", "create", "fill"} => j.plan.run \in Runs,
         step = "link" => IsBundle(j.draft),
         store' = store, IsStore(source'), LocksStay(s), FileStays, file' = NoFile \/ IsBundle(file')
  PROVE  ImportInv'
<1>1. Moved(s) /\ pc'[s] = step /\ job'[s] = j
  BY GoesTo, Goes DEF ImportInv
<1>2. Exporting(s)'
  BY <1>1 DEF Exporting, IsBundle, IsLedger
<1>3. Typed'
  <2>1. IsStore(source)' /\ IsStore(store)'
    BY DEF ImportInv, Typed, IsStore, IsLedger
  <2>2. (file = NoFile \/ IsBundle(file))'
    BY DEF IsBundle, IsLedger
  <2> QED
    BY <1>1, <2>1, <2>2 DEF Typed, Moved, PcSteps, LocksStay
<1> QED
  BY <1>1, <1>2, <1>3, OtherStepKeeps DEF LocksStay

\* A service lets go of its own locks only.
LEMMA FreedLocks ==
  ASSUME Typed, NEW s \in Services, lock' \in {lock, Unlock(s)}
  PROVE  LocksStay(s)
BY DEF Typed, LocksStay, Unlock

\* The steps of an export.
LEMMA ExportStep ==
  ASSUME ImportInv, NEW s \in Services, Export(s)
  PROVE  ImportInv'
<1>1. /\ Typed /\ Exporting(s) /\ DOMAIN job[s] = JobFields /\ IsStore(source)
      /\ file = NoFile \/ IsBundle(file)
  BY DEF ImportInv, Sound, Typed
<1>2. store' = store /\ lock' = lock
  BY DEF Export, Plan, Answer, Declare, DeclareFails, Create, CreateFails, Fill, FillFails, Link, LinkFails,
         Finish, FinishFails
<1>3. LocksStay(s)
  BY <1>1, <1>2, FreedLocks
<1>4. ASSUME NEW result, End(s, result), IsStore(source'), file' = file PROVE ImportInv'
  <2> DEFINE j == Ended(job[s], result)
  <2>1. DOMAIN j = JobFields /\ j.wrote = job[s].wrote
    BY EndFields
  <2>2. Goto(s, "idle", j)
    BY <1>4 DEF End
  <2> HIDE DEF j
  <2>3. "idle" \in PcSteps \ ImportSteps
    BY DEF PcSteps, ImportSteps, LockedSteps
  <2> QED
    BY <1>1, <1>2, <1>3, <1>4, <2>1, <2>2, <2>3, Leaves DEF FileStays
<1>5. ExportSteps \subseteq PcSteps \ ImportSteps
  BY DEF PcSteps, ExportSteps, ImportSteps, LockedSteps
<1>6. CASE Plan(s)
  <2>1. PICK target \in Targets, include \in Options :
          LET error == ExportError(source, target, include)
          IN  IF error = "ok"
              THEN Begin(s, "export", [NoJob EXCEPT !.plan = ExportPlan(source, target, include)], "confirm")
              ELSE Begin(s, "export", [NoJob EXCEPT !.result = error], "idle")
    BY <1>6 DEF Plan
  <2>2. source' = source /\ file' = file
    BY <1>6 DEF Plan
  <2> DEFINE plan == ExportPlan(source, target, include)
             j == [[NoJob EXCEPT !.plan = plan] EXCEPT !.kind = "export"]
             e == [[NoJob EXCEPT !.result = ExportError(source, target, include)] EXCEPT !.kind = "export"]
  <2>3. DOMAIN j = JobFields /\ j.wrote = {} /\ j.plan = plan /\ DOMAIN e = JobFields /\ e.wrote = {}
    BY DEF NoJob, JobFields
  <2>4. plan.run = target.run
    BY DEF ExportPlan
  <2>5. \/ Goto(s, "confirm", j) /\ ExportError(source, target, include) = "ok"
        \/ Goto(s, "idle", e)
    BY <2>1 DEF Begin
  <2>6. ExportError(source, target, include) = "ok" => target.run \in Runs
    BY <1>1 DEF ExportError, IsStore
  <2> HIDE DEF plan, j, e
  <2>7. "idle" \in PcSteps \ ImportSteps /\ "confirm" \in PcSteps \ ImportSteps
    BY <1>5 DEF ExportSteps, PcSteps, ImportSteps, LockedSteps
  <2>8. CASE Goto(s, "confirm", j) /\ ExportError(source, target, include) = "ok"
    BY <1>1, <1>2, <1>3, <2>2, <2>3, <2>4, <2>6, <2>7, <2>8, Leaves DEF FileStays
  <2>9. CASE Goto(s, "idle", e)
    BY <1>1, <1>2, <1>3, <2>2, <2>3, <2>7, <2>9, Leaves DEF FileStays
  <2> QED
    BY <2>5, <2>8, <2>9
<1>7. CASE Answer(s)
  <2>1. source' = source /\ file' = file /\ job[s].plan.run \in Runs
    BY <1>1, <1>7 DEF Answer, Exporting
  <2>2. CASE \E step \in {"declare", "create"} : Go(s, step) /\ job' = job
    BY <1>1, <1>2, <1>3, <1>5, <2>1, <2>2, Leaves DEF FileStays, ExportSteps
  <2>3. \/ \E step \in {"declare", "create"} : Go(s, step) /\ job' = job
        \/ End(s, "aborted")
    BY <1>7 DEF Answer
  <2> QED
    BY <1>1, <1>4, <2>1, <2>2, <2>3
<1>8. CASE Declare(s)
  <2>1. /\ file' = file /\ job[s].plan.run \in Runs
        /\ (Go(s, "create") /\ job' = job) \/ End(s, "ERR_IO")
        /\ source' = [source EXCEPT !.ledgers = With(@, job[s].plan.run,
                        Seal(job[s].plan.run, EventLog(source, job[s].plan.run), UnsafeEvent))]
    BY <1>1, <1>8 DEF Declare, Exporting
  <2>2. IsStore(source')
    BY <1>1, <2>1, SealedStore
  <2>3. CASE Go(s, "create") /\ job' = job
    BY <1>1, <1>2, <1>3, <1>5, <2>1, <2>2, <2>3, Leaves DEF FileStays, ExportSteps
  <2> QED
    BY <1>4, <2>1, <2>2, <2>3
<1>9. CASE Create(s)
  <2> DEFINE j == [job[s] EXCEPT !.partial = TRUE]
  <2>1. source' = source /\ file' = file /\ Goto(s, "fill", j) /\ job[s].plan.run \in Runs
    BY <1>1, <1>9 DEF Create, Exporting
  <2>2. DOMAIN j = JobFields /\ j.wrote = job[s].wrote /\ j.plan = job[s].plan
    BY <1>1 DEF JobFields
  <2> HIDE DEF j
  <2> QED
    BY <1>1, <1>2, <1>3, <1>5, <2>1, <2>2, Leaves DEF FileStays, ExportSteps
<1>10. CASE Fill(s)
  <2> DEFINE j == [job[s] EXCEPT !.draft = WrittenBundle(source, job[s].plan)]
  <2>1. source' = source /\ file' = file /\ job[s].plan.run \in Runs
    BY <1>1, <1>10 DEF Fill, Exporting
  <2>2. Goto(s, "link", j) \/ End(s, "ERR_CORRUPT_STORE")
    BY <1>10 DEF Fill
  <2>3. DOMAIN j = JobFields /\ j.wrote = job[s].wrote /\ j.draft = WrittenBundle(source, job[s].plan)
    BY <1>1 DEF JobFields
  <2>4. IsBundle(j.draft)
    BY <1>1, <2>1, <2>3, WrittenIsBundle
  <2> HIDE DEF j
  <2>5. CASE Goto(s, "link", j)
    BY <1>1, <1>2, <1>3, <1>5, <2>1, <2>3, <2>4, <2>5, Leaves DEF FileStays, ExportSteps
  <2> QED
    BY <1>1, <1>4, <2>1, <2>2, <2>5
<1>11. CASE Link(s)
  <2> DEFINE j == [job[s] EXCEPT !.draft = NoFile]
  <2>1. source' = source /\ IsBundle(job[s].draft)
    BY <1>1, <1>11 DEF Link, Exporting
  <2>2. \/ End(s, "ERR_OUTPUT_EXISTS") /\ file' = file
        \/ file = NoFile /\ file' = job[s].draft /\ Goto(s, "finish", j)
    BY <1>11 DEF Link
  <2>3. DOMAIN j = JobFields /\ j.wrote = job[s].wrote
    BY <1>1 DEF JobFields
  <2> HIDE DEF j
  <2>4. CASE file = NoFile /\ file' = job[s].draft /\ Goto(s, "finish", j)
    BY <1>1, <1>2, <1>3, <1>5, <2>1, <2>3, <2>4, Leaves DEF FileStays, ExportSteps
  <2> QED
    BY <1>1, <1>4, <2>1, <2>2, <2>4
<1>12. CASE DeclareFails(s) \/ CreateFails(s) \/ FillFails(s) \/ LinkFails(s) \/ Finish(s) \/ FinishFails(s)
  <2>1. source' = source /\ file' = file /\ \E result : End(s, result)
    BY <1>12, Zenon DEF DeclareFails, CreateFails, FillFails, LinkFails, Finish, FinishFails
  <2> QED
    BY <1>1, <1>4, <2>1
<1> QED
  BY <1>6, <1>7, <1>8, <1>9, <1>10, <1>11, <1>12 DEF Export

-----------------------------------------------------------------------------
(* The steps of an import.                                                   *)

\* The least of a set of naturals.
LEMMA LeastOf ==
  ASSUME NEW S \in SUBSET Nat, S # {}
  PROVE  Min(S) \in S /\ \A i \in S : Min(S) <= i
<1>1. PICK m \in S : \A i \in S : <<i, m>> \notin OpToRel(<, Nat)
  <2>1. IsWellFoundedOn(OpToRel(<, Nat), Nat)
    BY NatLessThanWellFounded
  <2> QED
    BY <2>1, WFMin
<1>2. \A i \in S : ~(i < m)
  BY <1>1, Zenon DEF OpToRel
<1>3. \A i \in S : m <= i
  BY <1>2
<1> QED
  BY <1>3 DEF Min

\* What an import is to write is at positions of the manifest.
LEMMA Positions ==
  ASSUME Typed, NEW s \in Services, pc[s] \in ImportSteps, Importing(s)
  PROVE  job[s].todo \subseteq Nat /\ job[s].at \in Nat
<1>1. IsBundle(BundleOf(s))
  BY ImportsBundle
<1>2. DOMAIN BundleOf(s).manifest.runs \subseteq Nat
  BY <1>1 DEF IsBundle
<1> QED
  BY <1>2 DEF Importing

\* A loop goes on to the next run, or begins again at the first.
LEMMA NextRunGoes ==
  ASSUME Typed, NEW s \in Services, pc[s] \in ImportSteps, Importing(s),
         NEW j, NEW loop, NEW then, NextRun(s, j, loop, then)
  PROVE  \E n \in job[s].todo :
           \/ /\ Goto(s, loop, [j EXCEPT !.at = n])
              /\ job[s].at < n /\ \A i \in job[s].todo : i < n => i <= job[s].at
           \/ /\ Goto(s, then, [j EXCEPT !.at = n])
              /\ \A i \in job[s].todo : n <= i /\ i <= job[s].at
<1> DEFINE later == {i \in job[s].todo : i > job[s].at}
<1>1. job[s].todo \subseteq Nat /\ job[s].at \in Nat /\ job[s].at \in job[s].todo
  BY Positions DEF Importing
<1>2. CASE later # {}
  <2>1. Min(later) \in later /\ \A i \in later : Min(later) <= i
    BY <1>1, <1>2, LeastOf
  <2>2. Goto(s, loop, [j EXCEPT !.at = Min(later)])
    BY <1>2 DEF NextRun
  <2>3. \A i \in job[s].todo : i < Min(later) => i <= job[s].at
    BY <1>1, <2>1
  <2> QED
    BY <1>1, <2>1, <2>2, <2>3
<1>3. CASE later = {}
  <2>1. Min(job[s].todo) \in job[s].todo /\ \A i \in job[s].todo : Min(job[s].todo) <= i
    BY <1>1, LeastOf
  <2>2. Goto(s, then, [j EXCEPT !.at = Min(job[s].todo)])
    BY <1>3 DEF NextRun
  <2>3. \A i \in job[s].todo : i <= job[s].at
    BY <1>1, <1>3
  <2> QED
    BY <2>1, <2>2, <2>3
<1> QED
  BY <1>2, <1>3

\* A step of s leaves to the others what they hold, and to all what was written.
Undisturbed(s) ==
  /\ LocksStay(s) /\ \A r \in Runs : lock[r] = s => lock'[r] = s
  /\ \A t \in Services \ {s} : Steady(t)
  /\ \A w \in Wrote : Lasting(w)'

\* What is to undo is as before, or of runs that s holds and has now created.
MayUndo(s, undo) ==
  /\ undo \in Seq(UndoSteps)
  /\ \A k \in DOMAIN undo :
       \/ \E m \in DOMAIN job[s].undo : undo[k] = job[s].undo[m]
       \/ /\ undo[k].runs # {} /\ \A r \in undo[k].runs : lock'[r] = s
          /\ \A w \in Wrote : undo[k].what \in {"events", "record"} => w.run \notin undo[k].runs

\* What a step of an import has to satisfy, to go to `step` with the locals j.
LEMMA ImportGoes ==
  ASSUME ImportInv, NEW s \in Services, pc[s] \in ImportSteps,
         NEW step \in ImportSteps, NEW j, Moved(s), pc'[s] = step, job'[s] = j,
         j.path = job[s].path, j.todo = job[s].todo, j.at \in j.todo, j.wrote = job[s].wrote,
         step \in {"recheck", "objects", "blobs", "refs"} => \A i \in j.todo : j.at <= i,
         step = "undo" => j.result # "none",
         MayUndo(s, j.undo),
         step \in LockedSteps \/ (step = "release" /\ j.result = "none") =>
           pc[s] \in LockedSteps \/ \A i \in j.todo : lock'[RunAt(s, i)] = s,
         step = "lock" => \A i \in j.todo : i < j.at => lock'[RunAt(s, i)] = s,
         Landed(s)',
         source' = source, file' = file, IsStore(store'), Undisturbed(s)
  PROVE  ImportInv'
<1>1. /\ Typed /\ Sound(s) /\ FileStays
      /\ Importing(s) /\ Holding(s)
  BY DEF ImportInv, Sound, FileStays
<1>2. BundleOf(s)' = BundleOf(s)
  BY <1>1, BundleStays
<1>3. \A i : RunAt(s, i)' = RunAt(s, i)
  BY <1>2 DEF RunAt
<1>4. Typed'
  <2>1. IsStore(source)' /\ IsStore(store)'
    BY <1>1 DEF Typed, IsStore, IsLedger
  <2>2. (file = NoFile \/ IsBundle(file))'
    BY <1>1 DEF Typed, IsBundle, IsLedger
  <2> QED
    BY <2>1, <2>2 DEF Typed, Moved, PcSteps, LocksStay, Undisturbed
<1>5. Exporting(s)'
  BY DEF Exporting, ImportSteps, LockedSteps
<1>6. Importing(s)'
  BY <1>1, <1>2, <1>3 DEF Importing, MayUndo
<1>7. \A i \in job[s].todo : RunAt(s, i) \in Runs
  BY <1>1, ImportsBundle
<1>8. \A k \in DOMAIN job[s].undo :
        /\ job[s].undo[k].runs # {}
        /\ \A r \in job[s].undo[k].runs : r \in Runs /\ lock[r] = s
  BY <1>1, UndoIsOfRuns DEF Holding
<1>9. Holding(s)'
  <2>1. \A k \in DOMAIN j.undo : j.undo[k].runs # {} /\ \A r \in j.undo[k].runs : lock'[r] = s
    BY <1>8 DEF MayUndo, Undisturbed
  <2>2. step \in LockedSteps \/ (step = "release" /\ j.result = "none") =>
          \A i \in j.todo : lock'[RunAt(s, i)] = s
    <3>1. pc[s] \in LockedSteps => \A i \in job[s].todo : lock[RunAt(s, i)] = s
      BY <1>1 DEF Holding
    <3> QED
      BY <1>7, <3>1 DEF Undisturbed
  <2> QED
    BY <1>3, <2>1, <2>2 DEF Holding, AllDone
<1>10. \A w \in Wrote : SparedBy(s, w)'
  <2> TAKE w \in Wrote
  <2>1. \A k \in DOMAIN job[s].undo :
          job[s].undo[k].what \in {"events", "record"} => w.run \notin job[s].undo[k].runs
    BY DEF ImportInv, SparedBy
  <2> QED
    BY <2>1 DEF SparedBy, MayUndo
<1>11. Sound(s)'
  BY <1>5, <1>6, <1>9 DEF Sound
<1>12. job'[s].wrote \ job[s].wrote = {}
  OBVIOUS
<1>13. /\ \A t \in Services \ {s} : Steady(t)
       /\ \A w \in Wrote : Lasting(w)'
  BY DEF Undisturbed
<1> QED
  BY <1>1, <1>4, <1>10, <1>11, <1>12, <1>13, StepKeeps

\* Directories, refs, blobs and objects do not matter here.
LEMMA StoreWith ==
  ASSUME NEW st, IsStore(st), NEW x, NEW new,
         \/ new = [st EXCEPT !.dirs = x] \/ new = [st EXCEPT !.refs = x]
         \/ new = [st EXCEPT !.blobs = x] \/ new = [st EXCEPT !.objects = x]
  PROVE  IsStore(new) /\ new.ledgers = st.ledgers /\ new.records = st.records
<1>1. DOMAIN EmptyStore = {"dirs", "records", "ledgers", "refs", "blobs", "objects"}
  BY DEF EmptyStore
<1>2. new.ledgers = st.ledgers /\ new.records = st.records /\ DOMAIN new = DOMAIN st
  BY <1>1 DEF IsStore
<1> QED
  BY <1>2 DEF IsStore

\* A step that leaves the locks, the ledgers and the records alone.
Quiet ==
  /\ lock' = lock /\ source' = source /\ file' = file
  /\ IsStore(store') /\ store'.ledgers = store.ledgers /\ store'.records = store.records

\* It leaves to the others what they hold.
LEMMA QuietStep ==
  ASSUME ImportInv, NEW s \in Services, Quiet
  PROVE  Undisturbed(s)
<1>1. LocksStay(s) /\ \A r \in Runs : lock[r] = s => lock'[r] = s
  BY DEF Quiet, LocksStay, ImportInv, Typed
<1>2. \A t \in Services : Steady(t)
  BY DEF Quiet, Steady
<1>3. \A w \in Wrote : Lasting(w)'
  BY DEF ImportInv, Lasting, Quiet
<1> QED
  BY <1>1, <1>2, <1>3 DEF Undisturbed

\* An import throws, and turns to what it has to undo.
LEMMA Throws ==
  ASSUME ImportInv, NEW s \in Services, pc[s] \in ImportSteps, NEW result, result # "none",
         Throw(s, result), Quiet
  PROVE  ImportInv'
<1> DEFINE j == [job[s] EXCEPT !.result = result]
<1>1. Typed /\ Importing(s) /\ DOMAIN job[s] = JobFields
  BY DEF ImportInv, Sound, Typed
<1>2. /\ DOMAIN j = JobFields /\ j.result = result
      /\ j.path = job[s].path /\ j.todo = job[s].todo /\ j.at = job[s].at
      /\ j.wrote = job[s].wrote /\ j.undo = job[s].undo
  BY <1>1 DEF JobFields
<1>3. Goto(s, "undo", j)
  BY DEF Throw
<1> HIDE DEF j
<1>4. Moved(s) /\ pc'[s] = "undo" /\ job'[s] = j
  BY <1>1, <1>2, <1>3, GoesTo DEF PcSteps, ImportSteps
<1>5. Landed(s)'
  BY <1>4 DEF Landed, AllDone
<1>6. job[s].at \in job[s].todo /\ MayUndo(s, job[s].undo)
  BY <1>1 DEF Importing, MayUndo
<1>7. "undo" \in ImportSteps /\ "undo" \notin LockedSteps
  BY DEF ImportSteps, LockedSteps
<1>8. source' = source /\ file' = file /\ IsStore(store')
  BY DEF Quiet
<1> QED
  BY <1>2, <1>4, <1>5, <1>6, <1>7, <1>8, QuietStep, ImportGoes

\* An import goes on with its locals as they are.
LEMMA GoesOn ==
  ASSUME ImportInv, NEW s \in Services, pc[s] \in LockedSteps,
         NEW step \in {"objects", "blobs", "dir"}, Go(s, step), UNCHANGED job, Quiet,
         \A i \in job[s].todo : job[s].at <= i
  PROVE  ImportInv'
<1>1. /\ Typed /\ Importing(s) /\ DOMAIN job[s] = JobFields /\ pc[s] \in ImportSteps
  BY DEF ImportInv, Sound, Typed, ImportSteps
<1>2. Moved(s) /\ pc'[s] = step /\ job'[s] = job[s]
  BY <1>1, Goes DEF PcSteps, ImportSteps, LockedSteps
<1>3. \A i \in job[s].todo : ~(i < job[s].at)
  BY <1>1, Positions
<1>4. Landed(s)'
  BY <1>2, <1>3 DEF Landed, AllDone
<1>5. job[s].at \in job[s].todo /\ MayUndo(s, job[s].undo)
  BY <1>1 DEF Importing, MayUndo
<1>6. step \in ImportSteps /\ step \notin {"undo", "lock", "release"}
  BY DEF ImportSteps, LockedSteps
<1>7. source' = source /\ file' = file /\ IsStore(store')
  BY DEF Quiet
<1> QED
  BY <1>1, <1>2, <1>4, <1>5, <1>6, <1>7, QuietStep, ImportGoes

\* The lock of the next run, or none.
LEMMA LockStep ==
  ASSUME ImportInv, NEW s \in Services, Lock(s)
  PROVE  ImportInv'
<1>1. /\ Typed /\ Importing(s) /\ Holding(s) /\ DOMAIN job[s] = JobFields
      /\ pc[s] = "lock" /\ pc[s] \in ImportSteps /\ IsStore(store)
  BY DEF ImportInv, Sound, Typed, ImportSteps, Lock
<1>2. source' = source /\ file' = file /\ store' = store
  BY DEF Lock
<1>3. CASE lock[Run(s)] # NoService
  <2>1. Throw(s, "ERR_RUN_LOCKED") /\ Quiet
    BY <1>1, <1>2, <1>3 DEF Lock, Quiet
  <2> QED
    BY <1>1, <2>1, Throws
<1>4. CASE lock[Run(s)] = NoService
  <2>1. lock' = [lock EXCEPT ![Run(s)] = s] /\ NextRun(s, job[s], "lock", "recheck")
    BY <1>4 DEF Lock
  <2>2. Run(s) \in Runs /\ Run(s) = RunAt(s, job[s].at)
    BY <1>1, ImportsBundle
  <2>3. /\ LocksStay(s) /\ \A r \in Runs : lock[r] = s => lock'[r] = s
        /\ lock'[Run(s)] = s
    BY <1>1, <1>4, <2>1, <2>2, ServiceAssumption DEF Typed, LocksStay
  <2>4. \A t \in Services \ {s} : Steady(t)
    BY <1>2, <2>3 DEF Steady, LocksStay
  <2>5. \A w \in Wrote : Lasting(w)'
    BY <1>2 DEF ImportInv, Lasting
  <2>6. PICK n \in job[s].todo :
           \/ /\ Goto(s, "lock", [job[s] EXCEPT !.at = n])
              /\ job[s].at < n /\ \A i \in job[s].todo : i < n => i <= job[s].at
           \/ /\ Goto(s, "recheck", [job[s] EXCEPT !.at = n])
              /\ \A i \in job[s].todo : n <= i /\ i <= job[s].at
    BY <1>1, <2>1, NextRunGoes
  <2>7. \A i \in job[s].todo : i <= job[s].at => lock'[RunAt(s, i)] = s
    <3>1. \A i \in job[s].todo : RunAt(s, i) \in Runs /\ i \in Nat /\ job[s].at \in Nat
      BY <1>1, ImportsBundle, Positions
    <3>2. \A i \in job[s].todo : i < job[s].at => lock'[RunAt(s, i)] = s
      BY <1>1, <2>3, <3>1 DEF Holding
    <3> QED
      BY <2>2, <2>3, <3>1, <3>2
  <2> DEFINE j == [job[s] EXCEPT !.at = n]
  <2>8. /\ DOMAIN j = JobFields /\ j.at = n
        /\ j.path = job[s].path /\ j.todo = job[s].todo /\ j.result = job[s].result
        /\ j.wrote = job[s].wrote /\ j.undo = job[s].undo
    BY <1>1 DEF JobFields
  <2>9. MayUndo(s, j.undo) /\ Undisturbed(s)
    BY <1>1, <2>3, <2>4, <2>5, <2>8 DEF Importing, MayUndo, Undisturbed
  <2> HIDE DEF j
  <2>10. ASSUME NEW step \in {"lock", "recheck"}, Goto(s, step, j),
                step = "recheck" => \A i \in j.todo : j.at <= i,
                \A i \in j.todo : step = "recheck" \/ i < j.at => lock'[RunAt(s, i)] = s
         PROVE  ImportInv'
    <3>1. step \in ImportSteps /\ step \in PcSteps
      BY DEF ImportSteps, LockedSteps, PcSteps
    <3>2. Moved(s) /\ pc'[s] = step /\ job'[s] = j
      BY <1>1, <2>8, <2>10, <3>1, GoesTo
    <3>3. Landed(s)'
      BY <3>2 DEF Landed, AllDone
    <3>4. IsStore(store')
      BY <1>1, <1>2
    <3> QED
      BY <1>1, <1>2, <2>8, <2>9, <2>10, <3>1, <3>2, <3>3, <3>4, ImportGoes
  <2>11. CASE /\ Goto(s, "lock", j)
              /\ job[s].at < n /\ \A i \in job[s].todo : i < n => i <= job[s].at
    BY <2>7, <2>8, <2>10, <2>11
  <2>12. CASE /\ Goto(s, "recheck", j)
              /\ \A i \in job[s].todo : n <= i /\ i <= job[s].at
    BY <2>7, <2>8, <2>10, <2>12
  <2> QED
    BY <2>6, <2>11, <2>12 DEF j
<1> QED
  BY <1>3, <1>4

\* The checks, objects and blobs, and every write that fails.
LEMMA QuietSteps ==
  ASSUME ImportInv, NEW s \in Services,
         \/ Recheck(s) \/ WriteObjects(s) \/ WriteObjectsFails(s) \/ WriteBlobs(s) \/ WriteBlobsFails(s)
         \/ \E step \in {"lock", "recheck", "dir", "events", "refs", "record", "sync"} : WriteFails(s, step)
  PROVE  ImportInv'
<1>1. /\ Typed /\ Importing(s) /\ DOMAIN job[s] = JobFields
      /\ IsStore(store)
  BY DEF ImportInv, Sound, Typed
<1>2. source' = source /\ file' = file /\ lock' = lock
  BY DEF Recheck, WriteObjects, WriteObjectsFails, WriteBlobs, WriteBlobsFails, WriteFails
<1>3. Quiet
  <2>1. \/ store' = store
        \/ \E x : store' = [store EXCEPT !.objects = x]
        \/ \E x : store' = [store EXCEPT !.blobs = x]
    BY DEF Recheck, WriteObjects, WriteObjectsFails, WriteBlobs, WriteBlobsFails, WriteFails
  <2>2. IsStore(store') /\ store'.ledgers = store.ledgers /\ store'.records = store.records
    <3>1. CASE store' = store
      BY <1>1, <3>1
    <3>2. ASSUME NEW x, store' = [store EXCEPT !.objects = x]
           PROVE  IsStore(store') /\ store'.ledgers = store.ledgers /\ store'.records = store.records
      BY <1>1, <3>2, StoreWith
    <3>3. ASSUME NEW x, store' = [store EXCEPT !.blobs = x]
           PROVE  IsStore(store') /\ store'.ledgers = store.ledgers /\ store'.records = store.records
      BY <1>1, <3>3, StoreWith
    <3> QED
      BY <2>1, <3>1, <3>2, <3>3
  <2> QED
    BY <1>2, <2>2 DEF Quiet
<1>4. CASE /\ pc[s] \in {"recheck", "objects", "blobs"}
           /\ \E step \in {"objects", "blobs", "dir"} : Go(s, step) /\ job' = job
  <2>1. pc[s] \in LockedSteps /\ pc[s] \in ImportSteps
    BY <1>4 DEF LockedSteps, ImportSteps
  <2>2. \A i \in job[s].todo : job[s].at <= i
    BY <1>1, <1>4, <2>1 DEF Importing
  <2> QED
    BY <1>3, <1>4, <2>1, <2>2, GoesOn
<1>5. CASE /\ pc[s] \in ImportSteps
           /\ \E result \in {"ERR_RUN_EXISTS", "ERR_GIT", "ERR_IO"} : Throw(s, result)
  BY <1>3, <1>5, Throws
<1>6. Recheck(s) => \/ /\ pc[s] \in {"recheck", "objects", "blobs"}
                       /\ \E step \in {"objects", "blobs", "dir"} : Go(s, step) /\ job' = job
                    \/ /\ pc[s] \in ImportSteps
                       /\ \E result \in {"ERR_RUN_EXISTS", "ERR_GIT", "ERR_IO"} : Throw(s, result)
  BY DEF Recheck, ImportSteps, LockedSteps
<1>7. WriteObjects(s) \/ WriteBlobs(s) =>
        /\ pc[s] \in {"recheck", "objects", "blobs"}
        /\ \E step \in {"objects", "blobs", "dir"} : Go(s, step) /\ job' = job
  BY DEF WriteObjects, WriteBlobs
<1>8. \/ WriteObjectsFails(s) \/ WriteBlobsFails(s)
      \/ \E step \in {"lock", "recheck", "dir", "events", "refs", "record", "sync"} : WriteFails(s, step)
      => /\ pc[s] \in ImportSteps
         /\ \E result \in {"ERR_RUN_EXISTS", "ERR_GIT", "ERR_IO"} : Throw(s, result)
  BY DEF WriteObjectsFails, WriteBlobsFails, WriteFails, ImportSteps, LockedSteps
<1> QED
  BY <1>4, <1>5, <1>6, <1>7, <1>8

\* What was done is the first to undo.
LEMMA DoneFields ==
  ASSUME NEW j, DOMAIN j = JobFields, j.undo \in Seq(UndoSteps), NEW step \in UndoSteps, NEW d, d = Done(j, step)
  PROVE  /\ DOMAIN d = JobFields
         /\ d.path = j.path /\ d.todo = j.todo /\ d.at = j.at /\ d.result = j.result /\ d.wrote = j.wrote
         /\ d.undo \in Seq(UndoSteps)
         /\ \A k \in DOMAIN d.undo : d.undo[k] = step \/ \E m \in DOMAIN j.undo : d.undo[k] = j.undo[m]
<1> DEFINE undo == <<step>> \o j.undo
<1>1. undo \in Seq(UndoSteps) /\ Len(undo) = Len(j.undo) + 1 /\ Len(j.undo) \in Nat
  OBVIOUS
<1>2. undo[1] = step /\ \A k \in 2..Len(undo) : undo[k] = j.undo[k - 1]
  OBVIOUS
<1>3. \A k \in DOMAIN undo : undo[k] = step \/ \E m \in DOMAIN j.undo : undo[k] = j.undo[m]
  <2> HIDE DEF undo
  <2>1. DOMAIN undo = 1..Len(undo) /\ DOMAIN j.undo = 1..Len(j.undo)
    BY <1>1
  <2> TAKE k \in DOMAIN undo
  <2>2. CASE k = 1
    BY <1>2, <2>2
  <2>3. CASE k # 1
    <3>1. k \in 2..Len(undo) /\ k - 1 \in DOMAIN j.undo
      BY <1>1, <2>1, <2>3
    <3> QED
      BY <1>2, <3>1
  <2> QED
    BY <2>2, <2>3
<1>4. /\ DOMAIN d = JobFields /\ d.undo = undo
      /\ d.path = j.path /\ d.todo = j.todo /\ d.at = j.at /\ d.result = j.result /\ d.wrote = j.wrote
  BY DEF Done, JobFields
<1> HIDE DEF undo
<1> QED
  BY <1>1, <1>3, <1>4

\* A run's directory is made, or all refs, or nothing but a sync is done.
LEMMA QuietDoes ==
  ASSUME ImportInv, NEW s \in Services, pc[s] \in LockedSteps, NEW step \in LockedSteps \cup {"release"},
         NEW j, DOMAIN j = JobFields, Goto(s, step, j), Quiet,
         j.path = job[s].path, j.todo = job[s].todo, j.at \in j.todo, j.wrote = job[s].wrote,
         step \in {"recheck", "objects", "blobs", "refs"} => \A i \in j.todo : j.at <= i,
         j.undo \in Seq(UndoSteps),
         \A k \in DOMAIN j.undo :
           \/ \E m \in DOMAIN job[s].undo : j.undo[k] = job[s].undo[m]
           \/ /\ j.undo[k].what \in {"dir", "refs"} /\ j.undo[k].runs # {}
              /\ j.undo[k].runs \subseteq ToWrite(s),
         Landed(s)'
  PROVE  ImportInv'
<1>1. /\ Typed /\ Importing(s) /\ Holding(s) /\ pc[s] \in ImportSteps
  BY DEF ImportInv, Sound, ImportSteps
<1>2. step \in ImportSteps /\ step \in PcSteps /\ step \notin {"undo", "lock"}
  BY DEF ImportSteps, LockedSteps, PcSteps
<1>3. Moved(s) /\ pc'[s] = step /\ job'[s] = j
  BY <1>1, <1>2, GoesTo
<1>4. \A r \in ToWrite(s) : lock'[r] = s
  <2>1. \A i \in job[s].todo : lock'[RunAt(s, i)] = s
    BY <1>1 DEF Holding, Quiet
  <2> QED
    BY <1>1, <2>1, ImportsBundle
<1>5. MayUndo(s, j.undo)
  BY <1>4 DEF MayUndo
<1>6. source' = source /\ file' = file /\ IsStore(store')
  BY DEF Quiet
<1>7. Undisturbed(s)
  BY QuietStep
<1>8. step = "undo" => j.result # "none"
  BY <1>2
<1>9. step = "lock" => \A i \in j.todo : i < j.at => lock'[RunAt(s, i)] = s
  BY <1>2
<1>10. step \in LockedSteps \/ (step = "release" /\ j.result = "none") =>
           pc[s] \in LockedSteps \/ \A i \in j.todo : lock'[RunAt(s, i)] = s
  OBVIOUS
<1>11. step \in ImportSteps
  BY <1>2
<1> QED
  BY <1>1, <1>3, <1>5, <1>6, <1>7, <1>8, <1>9, <1>10, <1>11, ImportGoes

\* The steps of that kind.
LEMMA DirRefsSync ==
  ASSUME ImportInv, NEW s \in Services, MakeDir(s) \/ CreateRefs(s) \/ Sync(s)
  PROVE  ImportInv'
<1>1. /\ Typed /\ Importing(s) /\ Landed(s) /\ DOMAIN job[s] = JobFields
      /\ IsStore(store) /\ pc[s] \in LockedSteps /\ pc[s] \in ImportSteps
  BY DEF ImportInv, Sound, Typed, MakeDir, CreateRefs, Sync, LockedSteps, ImportSteps
<1>2. source' = source /\ file' = file /\ lock' = lock
  BY DEF MakeDir, CreateRefs, Sync
<1>3. /\ job[s].at \in job[s].todo /\ job[s].undo \in Seq(UndoSteps)
      /\ Run(s) \in Runs /\ Run(s) \in ToWrite(s) /\ ToWrite(s) \subseteq Runs
      /\ \A i \in job[s].todo : i \in Nat
  BY <1>1, ImportsBundle, Positions DEF Importing
<1>4. file' = file => BundleOf(s)' = BundleOf(s) \/ job'[s].path # job[s].path
  BY <1>1, BundleStays DEF FileStays
<1>5. CASE MakeDir(s)
  <2> DEFINE step == [what |-> "dir", runs |-> {Run(s)}]
             j == Done(job[s], step)
  <2>1. pc[s] = "dir" /\ Goto(s, "events", j) /\ store' = [store EXCEPT !.dirs = @ \cup {Run(s)}]
    BY <1>5 DEF MakeDir
  <2>2. Quiet
    BY <1>1, <1>2, <2>1, StoreWith DEF Quiet
  <2>3. step \in UndoSteps /\ step.what = "dir" /\ step.runs = {Run(s)}
    BY <1>3 DEF UndoSteps
  <2> HIDE DEF step
  <2>4. /\ DOMAIN j = JobFields
        /\ j.path = job[s].path /\ j.todo = job[s].todo /\ j.at = job[s].at /\ j.wrote = job[s].wrote
        /\ j.undo \in Seq(UndoSteps)
        /\ \A k \in DOMAIN j.undo : j.undo[k] = step \/ \E m \in DOMAIN job[s].undo : j.undo[k] = job[s].undo[m]
    BY <1>1, <1>3, <2>3, DoneFields
  <2> HIDE DEF j
  <2>5. pc'[s] = "events" /\ job'[s] = j
    BY <1>1, <2>1, <2>4, GoesTo DEF PcSteps, ImportSteps, LockedSteps
  <2>6. Landed(s)'
    <3>1. BundleOf(s)' = BundleOf(s)
      BY <1>2, <1>4, <2>4, <2>5
    <3> QED
      BY <1>1, <2>1, <2>2, <2>4, <2>5, <3>1 DEF Landed, AllDone, RunAt, Quiet
  <2>7. \A k \in DOMAIN j.undo :
           \/ \E m \in DOMAIN job[s].undo : j.undo[k] = job[s].undo[m]
           \/ /\ j.undo[k].what \in {"dir", "refs"} /\ j.undo[k].runs # {}
              /\ j.undo[k].runs \subseteq ToWrite(s)
    BY <1>3, <2>3, <2>4
  <2>8. /\ "events" \in LockedSteps \cup {"release"} /\ "events" \notin {"recheck", "objects", "blobs", "refs"}
        /\ j.at \in j.todo
    BY <1>3, <2>4 DEF LockedSteps
  <2> QED
    BY <1>1, <2>1, <2>2, <2>4, <2>6, <2>7, <2>8, QuietDoes
<1>6. CASE CreateRefs(s)
  <2> DEFINE step == [what |-> "refs", runs |-> ToWrite(s)]
             j == Done(job[s], step)
  <2>1. /\ pc[s] = "refs"
        /\ \/ Throw(s, "ERR_GIT") /\ store' = store
           \/ Goto(s, "record", j) /\ \E x : store' = [store EXCEPT !.refs = x]
    BY <1>6 DEF CreateRefs
  <2>2. Quiet
    <3>1. CASE store' = store
      BY <1>1, <1>2, <3>1 DEF Quiet
    <3>2. ASSUME NEW x, store' = [store EXCEPT !.refs = x] PROVE Quiet
      BY <1>1, <1>2, <3>2, StoreWith DEF Quiet
    <3> QED
      BY <2>1, <3>1, <3>2
  <2>3. step \in UndoSteps /\ step.what = "refs" /\ step.runs = ToWrite(s)
    BY <1>3 DEF UndoSteps
  <2> HIDE DEF step
  <2>4. /\ DOMAIN j = JobFields
        /\ j.path = job[s].path /\ j.todo = job[s].todo /\ j.at = job[s].at /\ j.wrote = job[s].wrote
        /\ j.undo \in Seq(UndoSteps)
        /\ \A k \in DOMAIN j.undo : j.undo[k] = step \/ \E m \in DOMAIN job[s].undo : j.undo[k] = job[s].undo[m]
    BY <1>1, <1>3, <2>3, DoneFields
  <2> HIDE DEF j
  <2>5. CASE Throw(s, "ERR_GIT")
    BY <1>1, <2>2, <2>5, Throws
  <2>6. CASE Goto(s, "record", j)
    <3>1. pc'[s] = "record" /\ job'[s] = j
      BY <1>1, <2>4, <2>6, GoesTo DEF PcSteps, ImportSteps, LockedSteps
    <3>2. \A i \in job[s].todo : ~(i < job[s].at)
      <4>1. \A i \in job[s].todo : job[s].at <= i
        BY <1>1, <2>1 DEF Importing
      <4> QED
        BY <1>3, <4>1
    <3>3. Landed(s)'
      <4>1. BundleOf(s)' = BundleOf(s)
        BY <1>2, <1>4, <2>4, <3>1
      <4> QED
        BY <1>1, <2>1, <2>2, <2>4, <3>1, <3>2, <4>1 DEF Landed, AllDone, RunAt, Quiet
    <3>4. \A k \in DOMAIN j.undo :
             \/ \E m \in DOMAIN job[s].undo : j.undo[k] = job[s].undo[m]
             \/ /\ j.undo[k].what \in {"dir", "refs"} /\ j.undo[k].runs # {}
                /\ j.undo[k].runs \subseteq ToWrite(s)
      BY <1>3, <2>3, <2>4
    <3>5. /\ "record" \in LockedSteps \cup {"release"} /\ "record" \notin {"recheck", "objects", "blobs", "refs"}
          /\ j.at \in j.todo
      BY <1>3, <2>4 DEF LockedSteps
    <3> QED
      BY <1>1, <2>2, <2>4, <2>6, <3>3, <3>4, <3>5, QuietDoes
  <2> QED
    BY <2>1, <2>5, <2>6
<1>7. CASE Sync(s)
  <2>1. pc[s] = "sync" /\ NextRun(s, job[s], "record", "release") /\ store' = store
    BY <1>7 DEF Sync
  <2>2. Quiet
    BY <1>1, <1>2, <2>1 DEF Quiet
  <2>3. PICK n \in job[s].todo :
           \/ /\ Goto(s, "record", [job[s] EXCEPT !.at = n])
              /\ job[s].at < n /\ \A i \in job[s].todo : i < n => i <= job[s].at
           \/ /\ Goto(s, "release", [job[s] EXCEPT !.at = n])
              /\ \A i \in job[s].todo : n <= i /\ i <= job[s].at
    BY <1>1, <2>1, NextRunGoes
  <2> DEFINE j == [job[s] EXCEPT !.at = n]
  <2>4. /\ DOMAIN j = JobFields /\ j.at = n
        /\ j.path = job[s].path /\ j.todo = job[s].todo /\ j.result = job[s].result
        /\ j.wrote = job[s].wrote /\ j.undo = job[s].undo
    BY <1>1 DEF JobFields
  <2> HIDE DEF j
  <2>5. ASSUME NEW step \in {"record", "release"}, Goto(s, step, j),
               \A i \in job[s].todo : step = "release" \/ i < n => i <= job[s].at
        PROVE  ImportInv'
    <3>1. pc'[s] = step /\ job'[s] = j
      BY <1>1, <2>4, <2>5, GoesTo DEF PcSteps, ImportSteps, LockedSteps
    <3>2. Landed(s)'
      <4>1. BundleOf(s)' = BundleOf(s)
        BY <1>2, <1>4, <2>4, <3>1
      <4> QED
        BY <1>1, <2>1, <2>2, <2>4, <2>5, <3>1, <4>1 DEF Landed, AllDone, RunAt, Quiet
    <3>3. step \in LockedSteps \cup {"release"} /\ step \notin {"recheck", "objects", "blobs", "refs"}
      BY DEF LockedSteps
    <3> QED
      BY <1>1, <1>3, <2>2, <2>4, <2>5, <3>2, <3>3, QuietDoes
  <2> QED
    BY <2>3, <2>5 DEF j
<1> QED
  BY <1>5, <1>6, <1>7

\* A step that changes ledgers and records of some runs only, which s holds and
\* which nothing that was written is of.
LEMMA ChangesOnly ==
  ASSUME ImportInv, NEW s \in Services, lock' = lock, NEW R,
         \A r \in R : lock[r] = s,
         \A r \in DOMAIN store.ledgers \ R :
           r \in DOMAIN store'.ledgers /\ store'.ledgers[r] = store.ledgers[r],
         \A r \in DOMAIN store.records \ R : r \in DOMAIN store'.records,
         \A w \in Wrote : w.run \notin R
  PROVE  Undisturbed(s)
<1>1. LocksStay(s) /\ \A r \in Runs : lock[r] = s => lock'[r] = s
  BY DEF LocksStay, ImportInv, Typed
<1>2. \A t \in Services \ {s} : Steady(t)
  BY DEF Steady
<1>3. \A w \in Wrote : Lasting(w)'
  <2> TAKE w \in Wrote
  <2>1. Lasting(w) /\ w.run \notin R
    BY DEF ImportInv
  <2>2. /\ w.run \in DOMAIN store'.ledgers /\ store'.ledgers[w.run] = store.ledgers[w.run]
        /\ w.run \in DOMAIN store'.records
    BY <2>1 DEF Lasting
  <2> QED
    BY <2>1, <2>2 DEF Lasting
<1> QED
  BY <1>1, <1>2, <1>3 DEF Undisturbed

\* A store with other ledgers or records.
LEMMA StoreLedgers ==
  ASSUME NEW st, IsStore(st), NEW f, DOMAIN f \subseteq Runs, \A r \in DOMAIN f : IsLedger(f[r]),
         NEW new, new = [st EXCEPT !.ledgers = f]
  PROVE  IsStore(new) /\ new.ledgers = f /\ new.records = st.records
<1>1. DOMAIN EmptyStore = {"dirs", "records", "ledgers", "refs", "blobs", "objects"}
  BY DEF EmptyStore
<1>2. new.ledgers = f /\ new.records = st.records /\ DOMAIN new = DOMAIN st
  BY <1>1 DEF IsStore
<1> QED
  BY <1>2 DEF IsStore

\* The same, of records.
LEMMA StoreRecords ==
  ASSUME NEW st, IsStore(st), NEW f, DOMAIN f \subseteq Runs,
         NEW new, new = [st EXCEPT !.records = f]
  PROVE  IsStore(new) /\ new.records = f /\ new.ledgers = st.ledgers
<1>1. DOMAIN EmptyStore = {"dirs", "records", "ledgers", "refs", "blobs", "objects"}
  BY DEF EmptyStore
<1>2. new.ledgers = st.ledgers /\ new.records = f /\ DOMAIN new = DOMAIN st
  BY <1>1 DEF IsStore
<1> QED
  BY <1>2 DEF IsStore

\* The ledgers of the bundle are written, each where there is none.
LEMMA EventsStep ==
  ASSUME ImportInv, NEW s \in Services, WriteEvents(s)
  PROVE  ImportInv'
<1>1. /\ Typed /\ Importing(s) /\ Holding(s) /\ Landed(s) /\ DOMAIN job[s] = JobFields
      /\ IsStore(store) /\ pc[s] = "events" /\ pc[s] \in LockedSteps /\ pc[s] \in ImportSteps
  BY DEF ImportInv, Sound, Typed, WriteEvents, LockedSteps, ImportSteps
<1>2. source' = source /\ file' = file /\ lock' = lock
  BY DEF WriteEvents
<1>3. CASE Throw(s, "EEXIST") /\ store' = store
  <2>1. Quiet
    BY <1>1, <1>2, <1>3 DEF Quiet
  <2> QED
    BY <1>1, <1>3, <2>1, Throws
<1> DEFINE step == [what |-> "events", runs |-> {Run(s)}]
           d == Done(job[s], step)
           L == BundleOf(s).ledgers[Run(s)]
           f == With(store.ledgers, Run(s), L)
<1>4. CASE /\ Run(s) \notin DOMAIN store.ledgers
           /\ store' = [store EXCEPT !.ledgers = f]
           /\ NextRun(s, d, "dir", "refs")
  <2>1. /\ job[s].at \in job[s].todo /\ job[s].undo \in Seq(UndoSteps)
        /\ Run(s) \in Runs /\ Run(s) = RunAt(s, job[s].at)
        /\ Run(s) \in DOMAIN BundleOf(s).ledgers /\ IsLedger(L) /\ lock[Run(s)] = s
        /\ \A i \in job[s].todo : i \in Nat
    BY <1>1, ImportsBundle, Positions DEF Importing, IsBundle, Holding
  <2>2. step \in UndoSteps /\ step.runs = {Run(s)}
    BY <2>1 DEF UndoSteps
  <2> HIDE DEF L, step
  <2>3. /\ DOMAIN f = DOMAIN store.ledgers \cup {Run(s)} /\ f[Run(s)] = L
        /\ \A q \in DOMAIN store.ledgers \ {Run(s)} : f[q] = store.ledgers[q]
    BY DEF With
  <2> HIDE DEF f
  <2>4. DOMAIN f \subseteq Runs /\ \A r \in DOMAIN f : IsLedger(f[r])
    BY <1>1, <2>1, <2>3 DEF IsStore
  <2>5. IsStore(store') /\ store'.ledgers = f /\ store'.records = store.records
    BY <1>1, <1>4, <2>4, StoreLedgers
  <2>6. Undisturbed(s)
    <3> DEFINE R == {}
    <3>1. /\ \A r \in DOMAIN store.ledgers \ R :
               r \in DOMAIN store'.ledgers /\ store'.ledgers[r] = store.ledgers[r]
          /\ \A r \in DOMAIN store.records \ R : r \in DOMAIN store'.records
          /\ \A r \in R : lock[r] = s
          /\ \A w \in Wrote : w.run \notin R
      BY <1>4, <2>3, <2>5
    <3> HIDE DEF R
    <3> QED
      BY <1>2, <3>1, ChangesOnly
  <2>7. /\ DOMAIN d = JobFields
        /\ d.path = job[s].path /\ d.todo = job[s].todo /\ d.wrote = job[s].wrote
        /\ d.undo \in Seq(UndoSteps)
        /\ \A k \in DOMAIN d.undo : d.undo[k] = step \/ \E m \in DOMAIN job[s].undo : d.undo[k] = job[s].undo[m]
    BY <1>1, <2>1, <2>2, DoneFields
  <2> HIDE DEF d
  <2>8. PICK n \in job[s].todo :
           \/ /\ Goto(s, "dir", [d EXCEPT !.at = n])
              /\ job[s].at < n /\ \A i \in job[s].todo : i < n => i <= job[s].at
           \/ /\ Goto(s, "refs", [d EXCEPT !.at = n])
              /\ \A i \in job[s].todo : n <= i /\ i <= job[s].at
    BY <1>1, <1>4, NextRunGoes
  <2> DEFINE j == [d EXCEPT !.at = n]
  <2>9. /\ DOMAIN j = JobFields /\ j.at = n
        /\ j.path = job[s].path /\ j.todo = job[s].todo /\ j.wrote = job[s].wrote /\ j.undo = d.undo
    BY <2>7 DEF JobFields
  <2> HIDE DEF j
  <2>10. MayUndo(s, j.undo)
    <3>1. \A w \in Wrote : w.run \notin step.runs
      BY <1>4, <2>2 DEF ImportInv, Lasting
    <3>2. step.runs # {} /\ \A r \in step.runs : lock'[r] = s
      BY <1>2, <2>1, <2>2
    <3> QED
      BY <2>7, <2>9, <3>1, <3>2 DEF MayUndo
  <2>11. \A i \in job[s].todo : i <= job[s].at =>
           RunAt(s, i) \in DOMAIN store'.ledgers /\ store'.ledgers[RunAt(s, i)] = BundleOf(s).ledgers[RunAt(s, i)]
    <3>1. \A i \in job[s].todo : i < job[s].at =>
           RunAt(s, i) \in DOMAIN store.ledgers /\ store.ledgers[RunAt(s, i)] = BundleOf(s).ledgers[RunAt(s, i)]
      BY <1>1 DEF Landed
    <3>2. \A i \in job[s].todo : i <= job[s].at => i < job[s].at \/ i = job[s].at
      BY <2>1
    <3> QED
      BY <1>4, <2>1, <2>3, <2>5, <3>1, <3>2 DEF L
  <2>12. ASSUME NEW next \in {"dir", "refs"}, Goto(s, next, j),
                next = "refs" => \A i \in job[s].todo : n <= i,
                \A i \in job[s].todo : next = "refs" \/ i < n => i <= job[s].at
         PROVE  ImportInv'
    <3>1. Moved(s) /\ pc'[s] = next /\ job'[s] = j
      BY <1>1, <2>9, <2>12, GoesTo DEF PcSteps, ImportSteps, LockedSteps
    <3>2. BundleOf(s)' = BundleOf(s)
      BY <1>1, <1>2, <2>9, <3>1, BundleStays DEF FileStays
    <3>3. \A i : RunAt(s, i)' = RunAt(s, i)
      BY <3>2 DEF RunAt
    <3>4. Landed(s)'
      BY <2>9, <2>11, <2>12, <3>1, <3>2, <3>3 DEF Landed, AllDone
    <3>5. next \in ImportSteps /\ next \notin {"lock", "undo", "release", "recheck", "objects", "blobs"}
      BY DEF ImportSteps, LockedSteps
    <3>6. /\ next \in {"recheck", "objects", "blobs", "refs"} => \A i \in j.todo : j.at <= i
          /\ next = "undo" => j.result # "none"
          /\ next = "lock" => \A i \in j.todo : i < j.at => lock'[RunAt(s, i)] = s
      BY <2>9, <2>12, <3>5
    <3>7. next \in LockedSteps \/ (next = "release" /\ j.result = "none") =>
             pc[s] \in LockedSteps \/ \A i \in j.todo : lock'[RunAt(s, i)] = s
      BY <1>1
    <3>8. j.at \in j.todo
      BY <2>9
    <3>9. /\ source' = source /\ file' = file /\ IsStore(store')
          /\ j.path = job[s].path /\ j.todo = job[s].todo /\ j.wrote = job[s].wrote /\ DOMAIN j = JobFields
      BY <1>2, <2>5, <2>9
    <3> QED
      BY <1>1, <2>6, <2>10, <3>1, <3>4, <3>5, <3>6, <3>7, <3>8, <3>9, ImportGoes
  <2> QED
    BY <2>8, <2>12 DEF j
<1> QED
  BY <1>3, <1>4 DEF WriteEvents

\* The record of a run, where there is none.
LEMMA RecordStep ==
  ASSUME ImportInv, NEW s \in Services, WriteRecord(s)
  PROVE  ImportInv'
<1>1. /\ Typed /\ Importing(s) /\ Holding(s) /\ Landed(s) /\ DOMAIN job[s] = JobFields
      /\ IsStore(store) /\ pc[s] = "record" /\ pc[s] \in LockedSteps /\ pc[s] \in ImportSteps
  BY DEF ImportInv, Sound, Typed, WriteRecord, LockedSteps, ImportSteps
<1>2. source' = source /\ file' = file /\ lock' = lock
  BY DEF WriteRecord
<1>3. CASE Throw(s, "EEXIST") /\ store' = store
  <2>1. Quiet
    BY <1>1, <1>2, <1>3 DEF Quiet
  <2> QED
    BY <1>1, <1>3, <2>1, Throws
<1> DEFINE step == [what |-> "record", runs |-> {Run(s)}]
           j == Done(job[s], step)
           x == BundleOf(s).records[Run(s)]
           f == With(store.records, Run(s), x)
<1>4. CASE /\ Run(s) \notin DOMAIN store.records
           /\ store' = [store EXCEPT !.records = f]
           /\ Goto(s, "sync", j)
  <2>1. /\ job[s].at \in job[s].todo /\ job[s].undo \in Seq(UndoSteps)
        /\ Run(s) \in Runs /\ Run(s) = RunAt(s, job[s].at) /\ lock[Run(s)] = s
        /\ \A i \in job[s].todo : i \in Nat
    BY <1>1, ImportsBundle, Positions DEF Importing, Holding
  <2>2. step \in UndoSteps /\ step.runs = {Run(s)}
    BY <2>1 DEF UndoSteps
  <2> HIDE DEF x, step
  <2>3. DOMAIN f = DOMAIN store.records \cup {Run(s)}
    BY DEF With
  <2> HIDE DEF f
  <2>4. IsStore(store') /\ store'.records = f /\ store'.ledgers = store.ledgers
    <3>1. DOMAIN f \subseteq Runs
      BY <1>1, <2>1, <2>3 DEF IsStore
    <3> QED
      BY <1>1, <1>4, <3>1, StoreRecords
  <2>5. Undisturbed(s)
    <3> DEFINE R == {}
    <3>1. /\ \A r \in DOMAIN store.ledgers \ R :
               r \in DOMAIN store'.ledgers /\ store'.ledgers[r] = store.ledgers[r]
          /\ \A r \in DOMAIN store.records \ R : r \in DOMAIN store'.records
          /\ \A r \in R : lock[r] = s
          /\ \A w \in Wrote : w.run \notin R
      BY <2>3, <2>4
    <3> HIDE DEF R
    <3> QED
      BY <1>2, <3>1, ChangesOnly
  <2>6. /\ DOMAIN j = JobFields
        /\ j.path = job[s].path /\ j.todo = job[s].todo /\ j.at = job[s].at /\ j.wrote = job[s].wrote
        /\ j.undo \in Seq(UndoSteps)
        /\ \A k \in DOMAIN j.undo : j.undo[k] = step \/ \E m \in DOMAIN job[s].undo : j.undo[k] = job[s].undo[m]
    BY <1>1, <2>1, <2>2, DoneFields
  <2> HIDE DEF j
  <2>7. MayUndo(s, j.undo)
    <3>1. \A w \in Wrote : w.run \notin step.runs
      BY <1>4, <2>2 DEF ImportInv, Lasting
    <3>2. step.runs # {} /\ \A r \in step.runs : lock'[r] = s
      BY <1>2, <2>1, <2>2
    <3> QED
      BY <2>6, <3>1, <3>2 DEF MayUndo
  <2>8. Moved(s) /\ pc'[s] = "sync" /\ job'[s] = j
    BY <1>1, <1>4, <2>6, GoesTo DEF PcSteps, ImportSteps, LockedSteps
  <2>9. Landed(s)'
    <3>1. BundleOf(s)' = BundleOf(s)
      BY <1>1, <1>2, <2>6, <2>8, BundleStays DEF FileStays
    <3>2. \A i : RunAt(s, i)' = RunAt(s, i)
      BY <3>1 DEF RunAt
    <3>3. \A i \in job[s].todo : i <= job[s].at => RunAt(s, i) \in DOMAIN store'.records
      <4>1. \A i \in job[s].todo : i < job[s].at => RunAt(s, i) \in DOMAIN store.records
        BY <1>1 DEF Landed
      <4>2. \A i \in job[s].todo : i <= job[s].at => i < job[s].at \/ i = job[s].at
        BY <2>1
      <4> QED
        BY <2>1, <2>3, <2>4, <4>1, <4>2
    <3>4. \A i \in job[s].todo :
            RunAt(s, i) \in DOMAIN store'.ledgers /\ store'.ledgers[RunAt(s, i)] = BundleOf(s).ledgers[RunAt(s, i)]
      BY <1>1, <2>4 DEF Landed
    <3> QED
      BY <2>6, <2>8, <3>1, <3>2, <3>3, <3>4 DEF Landed, AllDone
  <2>10. "sync" \in ImportSteps /\ "sync" \notin {"lock", "undo", "release", "recheck", "objects", "blobs", "refs"}
    BY DEF ImportSteps, LockedSteps
  <2>11. /\ j.at \in j.todo
         /\ source' = source /\ file' = file /\ IsStore(store')
    BY <1>2, <2>1, <2>4, <2>6
  <2> QED
    BY <1>1, <2>5, <2>6, <2>7, <2>8, <2>9, <2>10, <2>11, ImportGoes
<1> QED
  BY <1>3, <1>4 DEF WriteRecord

\* What a step of the rollback removes is of one run, which it created.
LEMMA RemovedFacts ==
  ASSUME NEW st, IsStore(st), NEW step \in UndoSteps, step.runs # {}, NEW new, new = Removed(st, step)
  PROVE  \E run \in step.runs :
           LET R == IF step.what \in {"events", "record"} THEN {run} ELSE {}
           IN  /\ IsStore(new)
               /\ \A r \in DOMAIN st.ledgers \ R : r \in DOMAIN new.ledgers /\ new.ledgers[r] = st.ledgers[r]
               /\ \A r \in DOMAIN st.records \ R : r \in DOMAIN new.records
<1> DEFINE run == CHOOSE r \in step.runs : TRUE
           R == IF step.what \in {"events", "record"} THEN {run} ELSE {}
<1>1. run \in step.runs
  OBVIOUS
<1>2. step.what \in {"dir", "events", "refs", "record"}
  BY DEF UndoSteps
<1>3. new = CASE step.what = "record" -> [st EXCEPT !.records = Without(@, run)]
              [] step.what = "refs" -> [st EXCEPT !.refs = {r \in @ : r.run \notin step.runs}]
              [] step.what = "events" -> [st EXCEPT !.ledgers = Without(@, run)]
              [] step.what = "dir" -> IF run \in DOMAIN st.ledgers \cup DOMAIN st.records THEN st
                                      ELSE [st EXCEPT !.dirs = @ \ {run}]
  BY DEF Removed
<1> HIDE DEF run
<1>4. /\ IsStore(new)
      /\ \A r \in DOMAIN st.ledgers \ R : r \in DOMAIN new.ledgers /\ new.ledgers[r] = st.ledgers[r]
      /\ \A r \in DOMAIN st.records \ R : r \in DOMAIN new.records
  <2>1. CASE step.what = "record"
    <3> DEFINE f == Without(st.records, run)
    <3>1. DOMAIN f = DOMAIN st.records \ {run}
      BY DEF Without
    <3> HIDE DEF f
    <3>2. DOMAIN f \subseteq Runs /\ new = [st EXCEPT !.records = f]
      BY <1>3, <2>1, <3>1 DEF IsStore, f
    <3>3. IsStore(new) /\ new.records = f /\ new.ledgers = st.ledgers
      BY <3>2, StoreRecords
    <3> QED
      BY <2>1, <3>1, <3>3
  <2>2. CASE step.what = "events"
    <3> DEFINE f == Without(st.ledgers, run)
    <3>1. DOMAIN f = DOMAIN st.ledgers \ {run} /\ \A r \in DOMAIN f : f[r] = st.ledgers[r]
      BY DEF Without
    <3>2. new = [st EXCEPT !.ledgers = f]
      BY <1>3, <2>2
    <3> HIDE DEF f
    <3>3. DOMAIN f \subseteq Runs /\ \A r \in DOMAIN f : IsLedger(f[r])
      BY <3>1 DEF IsStore
    <3>4. IsStore(new) /\ new.ledgers = f /\ new.records = st.records
      BY <3>2, <3>3, StoreLedgers
    <3> QED
      BY <2>2, <3>1, <3>4
  <2>3. CASE step.what = "refs"
    <3>1. \E x : new = [st EXCEPT !.refs = x]
      BY <1>3, <2>3
    <3>2. ASSUME NEW x, new = [st EXCEPT !.refs = x]
          PROVE  IsStore(new) /\ new.ledgers = st.ledgers /\ new.records = st.records
      BY <3>2, StoreWith
    <3> QED
      BY <3>1, <3>2
  <2>4. CASE step.what = "dir"
    <3>1. new = st \/ \E x : new = [st EXCEPT !.dirs = x]
      BY <1>3, <2>4
    <3>2. ASSUME NEW x, new = [st EXCEPT !.dirs = x]
          PROVE  IsStore(new) /\ new.ledgers = st.ledgers /\ new.records = st.records
      BY <3>2, StoreWith
    <3> QED
      BY <3>1, <3>2
  <2> QED
    BY <1>2, <2>1, <2>2, <2>3, <2>4
<1> HIDE DEF R
<1>5. R = IF step.what \in {"events", "record"} THEN {run} ELSE {}
  BY DEF R
<1> QED
  BY <1>1, <1>4, <1>5

\* The rollback goes back by a step, or has come to its end.
LEMMA UndoStep ==
  ASSUME ImportInv, NEW s \in Services, Undo(s)
  PROVE  ImportInv'
<1>1. /\ Typed /\ Importing(s) /\ Holding(s) /\ DOMAIN job[s] = JobFields
      /\ IsStore(store) /\ pc[s] = "undo" /\ pc[s] \in ImportSteps
  BY DEF ImportInv, Sound, Typed, Undo, ImportSteps
<1>2. source' = source /\ file' = file /\ lock' = lock
  BY DEF Undo
<1>3. job[s].at \in job[s].todo /\ job[s].undo \in Seq(UndoSteps) /\ job[s].result # "none"
  BY <1>1 DEF Importing
<1>4. CASE job[s].undo = <<>>
  <2>1. Go(s, "release") /\ store' = store /\ job' = job
    BY <1>4 DEF Undo
  <2>2. Quiet
    BY <1>1, <1>2, <2>1 DEF Quiet
  <2>3. Moved(s) /\ pc'[s] = "release" /\ job'[s] = job[s]
    BY <1>1, <2>1, Goes DEF PcSteps, ImportSteps
  <2>4. Landed(s)'
    BY <1>3, <2>3 DEF Landed, AllDone
  <2>5. "release" \in ImportSteps \ LockedSteps
    BY DEF ImportSteps, LockedSteps
  <2>6. IsStore(store')
    BY <1>1, <2>1
  <2>7. Undisturbed(s) /\ MayUndo(s, job[s].undo)
    BY <1>3, <2>2, QuietStep DEF MayUndo
  <2> QED
    BY <1>1, <1>2, <1>3, <2>3, <2>4, <2>5, <2>6, <2>7, ImportGoes
<1>5. CASE job[s].undo # <<>>
  <2> DEFINE u == job[s].undo
             j == [job[s] EXCEPT !.undo = Tail(u)]
  <2>1. /\ store' = Removed(store, Head(u)) \/ store' = store
        /\ job' = [job EXCEPT ![s] = j]
        /\ pc' = pc
    BY <1>5 DEF Undo
  <2>2. /\ DOMAIN j = JobFields /\ j.undo = Tail(u) /\ j.result = job[s].result
        /\ j.path = job[s].path /\ j.todo = job[s].todo /\ j.at = job[s].at /\ j.wrote = job[s].wrote
    BY <1>1 DEF JobFields
  <2>3. Head(u) = u[1] /\ 1 \in DOMAIN u /\ Tail(u) \in Seq(UndoSteps)
    BY <1>3, <1>5
  <2>4. \A k \in DOMAIN Tail(u) : \E m \in DOMAIN u : Tail(u)[k] = u[m]
    <3> TAKE k \in DOMAIN Tail(u)
    <3>1. k + 1 \in DOMAIN u /\ Tail(u)[k] = u[k + 1]
      BY <1>3, <1>5
    <3> QED
      BY <3>1
  <2> HIDE DEF j
  <2>5. Moved(s) /\ pc'[s] = "undo" /\ job'[s] = j
    BY <1>1, <2>1, <2>2 DEF Typed, Moved, PcSteps
  <2>6. MayUndo(s, j.undo)
    BY <2>2, <2>3, <2>4 DEF MayUndo
  <2>7. /\ u[1] \in UndoSteps /\ u[1].runs # {} /\ \A r \in u[1].runs : lock[r] = s
        /\ \A w \in Wrote : u[1].what \in {"events", "record"} => w.run \notin u[1].runs
    <3>1. u[1] \in UndoSteps
      BY <1>3, <2>3
    <3>2. u[1].runs # {} /\ \A r \in u[1].runs : lock[r] = s
      BY <1>1, <2>3 DEF Holding
    <3>3. \A w \in Wrote : u[1].what \in {"events", "record"} => w.run \notin u[1].runs
      BY <1>1, <2>3 DEF ImportInv, SparedBy
    <3> QED
      BY <3>1, <3>2, <3>3
  <2>8. IsStore(store') /\ Undisturbed(s)
    <3>1. CASE store' = store
      <4>1. Quiet
        BY <1>1, <1>2, <3>1 DEF Quiet
      <4> QED
        BY <1>1, <3>1, <4>1, QuietStep
    <3>2. CASE store' = Removed(store, u[1])
      <4>1. PICK run \in u[1].runs :
              LET R == IF u[1].what \in {"events", "record"} THEN {run} ELSE {}
              IN  /\ IsStore(store')
                  /\ \A r \in DOMAIN store.ledgers \ R : r \in DOMAIN store'.ledgers /\ store'.ledgers[r] = store.ledgers[r]
                  /\ \A r \in DOMAIN store.records \ R : r \in DOMAIN store'.records
        <5> DEFINE step == u[1]
                   new == Removed(store, step)
        <5>1. step \in UndoSteps /\ step.runs # {} /\ store' = new
          BY <2>7, <3>2
        <5> HIDE DEF step, u
        <5>2. \E run \in step.runs :
                LET R == IF step.what \in {"events", "record"} THEN {run} ELSE {}
                IN  /\ IsStore(store')
                    /\ \A r \in DOMAIN store.ledgers \ R : r \in DOMAIN store'.ledgers /\ store'.ledgers[r] = store.ledgers[r]
                    /\ \A r \in DOMAIN store.records \ R : r \in DOMAIN store'.records
          BY <1>1, <5>1, RemovedFacts
        <5> QED
          BY <5>2 DEF step
      <4> DEFINE R == IF u[1].what \in {"events", "record"} THEN {run} ELSE {}
      <4>2. \A r \in R : lock[r] = s
        BY <2>7
      <4>3. \A w \in Wrote : w.run \notin R
        BY <2>7
      <4>4. /\ IsStore(store')
            /\ \A r \in DOMAIN store.ledgers \ R : r \in DOMAIN store'.ledgers /\ store'.ledgers[r] = store.ledgers[r]
            /\ \A r \in DOMAIN store.records \ R : r \in DOMAIN store'.records
        BY <4>1
      <4> HIDE DEF R
      <4> QED
        BY <1>2, <4>2, <4>3, <4>4, ChangesOnly
    <3> QED
      BY <2>1, <2>3, <3>1, <3>2
  <2>9. Landed(s)'
    BY <2>2, <2>5 DEF Landed, AllDone
  <2>10. "undo" \in ImportSteps \ LockedSteps
    BY DEF ImportSteps, LockedSteps
  <2>11. j.at \in j.todo /\ j.result # "none"
    BY <1>3, <2>2
  <2>12. /\ "undo" \in LockedSteps \/ ("undo" = "release" /\ j.result = "none") =>
             pc[s] \in LockedSteps \/ \A i \in j.todo : lock'[RunAt(s, i)] = s
         /\ "undo" = "lock" => \A i \in j.todo : i < j.at => lock'[RunAt(s, i)] = s
         /\ "undo" \in {"recheck", "objects", "blobs", "refs"} => \A i \in j.todo : j.at <= i
    BY <2>10
  <2>13. /\ "undo" \in ImportSteps
         /\ DOMAIN j = JobFields /\ j.path = job[s].path /\ j.todo = job[s].todo /\ j.wrote = job[s].wrote
    BY <2>2, <2>10
  <2> QED
    BY <1>1, <1>2, <2>5, <2>6, <2>8, <2>9, <2>11, <2>12, <2>13, ImportGoes
<1> QED
  BY <1>4, <1>5

\* The types after a step of one service.
LEMMA StillTyped ==
  ASSUME Typed, NEW s \in Services, Moved(s), LocksStay(s),
         IsStore(source'), IsStore(store'), file' = NoFile \/ IsBundle(file')
  PROVE  Typed'
<1>1. IsStore(source)' /\ IsStore(store)'
  BY DEF IsStore, IsLedger
<1>2. (file = NoFile \/ IsBundle(file))'
  BY DEF IsBundle, IsLedger
<1> QED
  BY <1>1, <1>2 DEF Typed, Moved, PcSteps, LocksStay

\* What an import wrote is now on the books; the locks are free.
LEMMA ReleaseStep ==
  ASSUME ImportInv, NEW s \in Services, Release(s)
  PROVE  ImportInv'
<1>1. /\ Typed /\ Importing(s) /\ Holding(s) /\ Landed(s) /\ DOMAIN job[s] = JobFields
      /\ IsStore(store) /\ pc[s] = "release" /\ pc[s] \in ImportSteps
      /\ IsStore(source) /\ (file = NoFile \/ IsBundle(file))
  BY DEF ImportInv, Sound, Typed, Release, ImportSteps
<1>2. source' = source /\ file' = file /\ store' = store /\ lock' = Unlock(s)
  BY DEF Release
<1>3. LocksStay(s)
  BY <1>1, <1>2, FreedLocks
<1>4. "list" \in PcSteps \ ImportSteps /\ "idle" \in PcSteps \ ImportSteps
  BY DEF PcSteps, ReindexSteps, ImportSteps, LockedSteps
<1>5. CASE job[s].result # "none"
  <2> DEFINE j == Ended(job[s], job[s].result)
  <2>1. DOMAIN j = JobFields /\ j.wrote = job[s].wrote
    BY EndFields
  <2>2. Goto(s, "idle", j)
    BY <1>5 DEF Release, End
  <2>3. /\ store' = store /\ IsStore(source') /\ FileStays /\ (file' = NoFile \/ IsBundle(file'))
        /\ j.wrote \subseteq job[s].wrote
    BY <1>1, <1>2, <2>1 DEF FileStays
  <2> HIDE DEF j
  <2> QED
    BY <1>3, <1>4, <2>1, <2>2, <2>3, Leaves
<1>6. CASE job[s].result = "none"
  <2> DEFINE written == {[run |-> r, head |-> HeadOf(BundleOf(s).ledgers[r])] : r \in ToWrite(s)}
             j == [job[s] EXCEPT !.wrote = written]
  <2>1. Goto(s, "list", j)
    BY <1>6 DEF Release
  <2>2. DOMAIN j = JobFields /\ j.wrote = written
    BY <1>1 DEF JobFields
  <2> HIDE DEF j
  <2>3. Moved(s) /\ pc'[s] = "list" /\ job'[s] = j
    BY <1>1, <1>4, <2>1, <2>2, GoesTo
  <2>4. \A w \in written : w.run \in Runs /\ lock[w.run] = s /\ Lasting(w)
    <3> TAKE w \in written
    <3>1. PICK r \in ToWrite(s) : w = [run |-> r, head |-> HeadOf(BundleOf(s).ledgers[r])]
      OBVIOUS
    <3>2. AllDone(s)
      BY <1>1, <1>6 DEF AllDone
    <3>3. /\ r \in Runs /\ lock[r] = s
          /\ r \in DOMAIN store.ledgers /\ store.ledgers[r] = BundleOf(s).ledgers[r]
          /\ r \in DOMAIN store.records
      BY <1>1, <3>2, ImportsBundle DEF Holding, Landed
    <3> DEFINE L == store.ledgers[r]
    <3>4. IsLedger(L)
      BY <1>1, <3>3 DEF IsStore
    <3>5. w.run = r /\ w.head = HeadOf(L)
      BY <3>1, <3>3
    <3>6. L \in Seq(ToSet(L))
      BY <3>4 DEF IsLedger
    <3> HIDE DEF L
    <3>7. Len(L) \in Nat /\ SubSeq(L, 1, Len(L)) = L
      BY <3>6
    <3>8. HeadOf(L).seq = Len(L)
      BY <3>6 DEF HeadOf
    <3>9. HeadOf(SubSeq(L, 1, w.head.seq)) = w.head /\ w.head.seq \in 0..Len(L)
      <4>1. w.head.seq = Len(L)
        BY <3>5, <3>8
      <4>2. SubSeq(L, 1, w.head.seq) = L
        BY <3>7, <4>1
      <4>3. w.head.seq \in 0..Len(L)
        BY <3>7, <4>1
      <4> QED
        BY <3>5, <4>2, <4>3
    <3> QED
      BY <3>3, <3>5, <3>9 DEF Lasting, L
  <2> HIDE DEF written
  <2>5. \A w \in Wrote \cup written : Lasting(w)'
    BY <1>2, <2>4 DEF ImportInv, Lasting
  <2>6. \A w : SparedBy(s, w)'
    BY <2>3 DEF SparedBy, ImportSteps, LockedSteps
  <2>7. \A w \in written, t \in Services \ {s} : SparedBy(t, w)'
    <3> TAKE w \in written, t \in Services \ {s}
    <3>1. pc'[t] = pc[t] /\ job'[t] = job[t]
      BY <2>3 DEF Moved
    <3>2. pc[t] \in ImportSteps => \A k \in DOMAIN job[t].undo : w.run \notin job[t].undo[k].runs
      BY <2>4 DEF ImportInv, Sound, Holding
    <3> QED
      BY <3>1, <3>2 DEF SparedBy
  <2>8. Sound(s)'
    BY <2>3 DEF Sound, Exporting, Importing, Holding, Landed, AllDone, ImportSteps, LockedSteps
  <2>9. Typed'
    <3>1. IsStore(source') /\ IsStore(store') /\ (file' = NoFile \/ IsBundle(file'))
      BY <1>1, <1>2
    <3> QED
      BY <1>1, <1>3, <2>3, <3>1, StillTyped
  <2>10. \A t \in Services \ {s} : Steady(t)
    BY <1>2, <1>3 DEF Steady, LocksStay
  <2>11. FileStays
    BY <1>2 DEF FileStays
  <2>12. job'[s].wrote = written
    BY <2>2, <2>3
  <2>13. /\ \A w \in Wrote : Lasting(w)' /\ SparedBy(s, w)'
         /\ \A w \in job'[s].wrote \ job[s].wrote : Lasting(w)' /\ \A t \in Services : SparedBy(t, w)'
    BY <2>5, <2>6, <2>7, <2>12
  <2> QED
    BY <2>3, <2>8, <2>9, <2>10, <2>11, <2>13, StepKeeps
<1> QED
  BY <1>5, <1>6

\* A bundle that was verified has the ledger of every run.
LEMMA VerifiedHasLedgers ==
  ASSUME NEW bundle, IsBundle(bundle), NEW st, Verify(bundle, st) = "ok"
  PROVE  \A i \in DOMAIN bundle.manifest.runs : bundle.manifest.runs[i] \in DOMAIN bundle.ledgers
<1> DEFINE runs == bundle.manifest.runs
           bad == {i \in DOMAIN runs : RunError(bundle, st, runs[i]) # "ok"}
<1>1. bad = {} \/ RunError(bundle, st, runs[Min(bad)]) = "ok"
  BY DEF Verify
<1>2. DOMAIN runs \subseteq Nat
  BY DEF IsBundle
<1>3. bad \in SUBSET Nat
  BY <1>2
<1>4. bad # {} => Min(bad) \in bad
  <2> HIDE DEF bad
  <2> QED
    BY <1>3, LeastOf
<1>5. bad = {}
  BY <1>1, <1>4
<1>6. \A i \in DOMAIN runs : RunError(bundle, st, runs[i]) = "ok"
  BY <1>5
<1>7. \A r : RunError(bundle, st, r) = "ok" => r \in DOMAIN bundle.ledgers
  BY DEF RunError
<1> QED
  BY <1>6, <1>7

\* An import begins at the first of the runs to write, with nothing to undo; or
\* ends at once.
LEMMA ImportBegins ==
  ASSUME ImportInv, NEW s \in Services, Import(s)
  PROVE  ImportInv'
<1>1. /\ Typed /\ pc[s] = "idle" /\ IsStore(source) /\ IsStore(store)
      /\ (file = NoFile \/ IsBundle(file))
  BY DEF ImportInv, Typed, Import, MayCall
<1>2. source' = source /\ file' = file /\ store' = store /\ lock' = lock
  BY DEF Import
<1>3. LocksStay(s) /\ FileStays
  BY <1>1, <1>2, FreedLocks DEF FileStays
<1>4. PICK path \in DOMAIN Received \cup (IF file = NoFile THEN {} ELSE {OutPath}) :
        LET bundle == At(path)
            verdict == Verify(bundle, store)
            failed == [NoJob EXCEPT !.runs = ToSet(bundle.manifest.runs)]
            todo == RunsToWrite(bundle, store)
        IN  \/ \E result : Begin(s, "import", [failed EXCEPT !.result = result], "idle")
            \/ /\ verdict = "ok" /\ todo # {}
               /\ Begin(s, "import", [failed EXCEPT !.path = path, !.todo = todo, !.at = Min(todo)], "lock")
  BY DEF Import
<1> DEFINE bundle == At(path)
           todo == RunsToWrite(bundle, store)
           failed == [NoJob EXCEPT !.runs = ToSet(bundle.manifest.runs)]
           j == [[failed EXCEPT !.path = path, !.todo = todo, !.at = Min(todo)] EXCEPT !.kind = "import"]
<1>5. ASSUME NEW result, Goto(s, "idle", [[failed EXCEPT !.result = result] EXCEPT !.kind = "import"])
      PROVE  ImportInv'
  <2> DEFINE e == [[failed EXCEPT !.result = result] EXCEPT !.kind = "import"]
  <2>1. DOMAIN e = JobFields /\ e.wrote = {}
    BY DEF NoJob, JobFields
  <2>2. Goto(s, "idle", e)
    BY <1>5
  <2> HIDE DEF e
  <2>3. "idle" \in PcSteps \ ImportSteps
    BY DEF PcSteps, ImportSteps, LockedSteps
  <2>4. /\ store' = store /\ IsStore(source') /\ (file' = NoFile \/ IsBundle(file'))
        /\ e.wrote \subseteq job[s].wrote
    BY <1>1, <1>2, <2>1
  <2> QED
    BY <1>3, <2>1, <2>2, <2>3, <2>4, Leaves
<1>6. ASSUME Verify(bundle, store) = "ok", todo # {}, Goto(s, "lock", j)
      PROVE  ImportInv'
  <2>1. IsBundle(bundle) /\ (path \in DOMAIN Received \/ (path = OutPath /\ file # NoFile))
    BY <1>1, ServiceAssumption, FilesAssumption DEF At
  <2>2. \A i \in DOMAIN bundle.manifest.runs : bundle.manifest.runs[i] \in DOMAIN bundle.ledgers
    BY <1>6, <2>1, VerifiedHasLedgers
  <2>3. todo \subseteq DOMAIN bundle.manifest.runs
    BY DEF RunsToWrite
  <2>4. todo \in SUBSET Nat
    BY <2>1, <2>3 DEF IsBundle
  <2> HIDE DEF todo
  <2>5. Min(todo) \in todo /\ \A i \in todo : ~(i < Min(todo))
    <3>1. Min(todo) \in todo /\ \A i \in todo : Min(todo) <= i
      BY <1>6, <2>4, LeastOf
    <3>2. \A m \in todo : (\A i \in todo : m <= i) => \A i \in todo : ~(i < m)
      BY <2>4
    <3> QED
      BY <3>1, <3>2
  <2>6. /\ DOMAIN j = JobFields /\ j.path = path /\ j.todo = todo /\ j.at = Min(todo)
        /\ j.undo = <<>> /\ j.wrote = {}
    BY DEF NoJob, JobFields
  <2> HIDE DEF j
  <2>7. Moved(s) /\ pc'[s] = "lock" /\ job'[s] = j
    BY <1>1, <1>6, <2>6, GoesTo DEF PcSteps, ImportSteps
  <2>8. BundleOf(s)' = bundle
    BY <1>2, <2>6, <2>7 DEF BundleOf, At
  <2> HIDE DEF bundle
  <2>9. Importing(s)'
    <3>1. <<>> \in Seq(UndoSteps)
      OBVIOUS
    <3> QED
      BY <1>2, <2>1, <2>2, <2>3, <2>5, <2>6, <2>7, <2>8, <3>1 DEF Importing, RunAt
  <2>10. Holding(s)' /\ Landed(s)' /\ Exporting(s)'
    BY <2>5, <2>6, <2>7 DEF Holding, Landed, Exporting, AllDone, LockedSteps
  <2>11. Sound(s)'
    BY <2>9, <2>10 DEF Sound
  <2>12. Typed'
    <3>1. IsStore(source') /\ IsStore(store') /\ (file' = NoFile \/ IsBundle(file'))
      BY <1>1, <1>2
    <3> QED
      BY <1>1, <1>3, <2>7, <3>1, StillTyped
  <2>13. \A t \in Services \ {s} : Steady(t)
    BY <1>2 DEF Steady
  <2>14. \A w \in Wrote : Lasting(w)' /\ SparedBy(s, w)'
    <3>1. \A w \in Wrote : Lasting(w)'
      BY <1>2 DEF ImportInv, Lasting
    <3>2. \A w : SparedBy(s, w)'
      BY <2>6, <2>7 DEF SparedBy
    <3> QED
      BY <3>1, <3>2
  <2>15. job'[s].wrote \ job[s].wrote = {}
    BY <2>6, <2>7
  <2> QED
    BY <1>3, <2>7, <2>11, <2>12, <2>13, <2>14, <2>15, StepKeeps
<1> QED
  BY <1>4, <1>5, <1>6 DEF Begin

\* The steps of an import.
LEMMA ImportStep ==
  ASSUME ImportInv, NEW s \in Services, ImportRuns(s)
  PROVE  ImportInv'
BY ImportBegins, LockStep, QuietSteps, DirRefsSync, EventsStep, RecordStep, UndoStep, ReleaseStep DEF ImportRuns

-----------------------------------------------------------------------------
(* Reindexes, engines and deaths.                                            *)

\* The steps of a reindex.
LEMMA ReindexStep ==
  ASSUME ImportInv, NEW s \in Services,
         Reindex(s) \/ List(s) \/ ReadRun(s) \/ Load(s) \/ Rebuild(s) \/ ReindexFails(s)
  PROVE  ImportInv'
<1>1. /\ Typed /\ DOMAIN job[s] = JobFields /\ IsStore(source)
      /\ (file = NoFile \/ IsBundle(file))
  BY DEF ImportInv, Typed
<1>2. source' = source /\ file' = file /\ store' = store
  BY DEF Reindex, List, ReadRun, Load, Rebuild, ReindexFails
<1>3. /\ store' = store /\ IsStore(source') /\ FileStays /\ (file' = NoFile \/ IsBundle(file'))
  BY <1>1, <1>2 DEF FileStays
<1>4. ReindexSteps \cup {"idle"} \subseteq PcSteps \ ImportSteps
  BY DEF PcSteps, ReindexSteps, ImportSteps, LockedSteps
<1>5. ASSUME NEW step \in ReindexSteps \cup {"idle"}, NEW j, DOMAIN j = JobFields, LocksStay(s),
             Goto(s, step, j) \/ (Go(s, step) /\ job' = job /\ j = job[s]),
             j.wrote \subseteq job[s].wrote
      PROVE  ImportInv'
  <2>1. /\ step \in PcSteps \ ImportSteps /\ step \notin {"confirm", "declare", "create", "fill", "link"}
    BY <1>4 DEF ReindexSteps
  <2> QED
    BY <1>3, <1>5, <2>1, Leaves
<1>6. ASSUME NEW result, ReindexEnds(s, result) PROVE ImportInv'
  <2>1. lock' = Unlock(s) /\ \E res : Goto(s, "idle", Ended(job[s], res))
    BY <1>6 DEF ReindexEnds, End
  <2>2. LocksStay(s)
    BY <1>1, <2>1, FreedLocks
  <2>3. PICK res : Goto(s, "idle", Ended(job[s], res))
    BY <2>1
  <2> DEFINE j == Ended(job[s], res)
  <2>4. DOMAIN j = JobFields /\ j.wrote = job[s].wrote
    BY EndFields
  <2> HIDE DEF j
  <2> QED
    BY <1>5, <2>2, <2>3, <2>4 DEF j
<1>7. ASSUME lock' = lock PROVE LocksStay(s)
  BY <1>1, <1>7, FreedLocks
<1>8. CASE Reindex(s)
  <2> DEFINE j == [NoJob EXCEPT !.kind = "reindex"]
  <2>1. Goto(s, "list", j) /\ lock' = lock
    BY <1>8 DEF Reindex, Begin
  <2>2. DOMAIN j = JobFields /\ j.wrote = {}
    BY DEF NoJob, JobFields
  <2> HIDE DEF j
  <2> QED
    BY <1>5, <1>7, <2>1, <2>2 DEF ReindexSteps
<1>9. CASE List(s) \/ ReadRun(s)
  <2>1. /\ lock' = lock
        /\ \/ \E x : Goto(s, "readrun", [job[s] EXCEPT !.listed = x])
           \/ \E step \in {"rebuild", "load"} : Go(s, step) /\ job' = job
    BY <1>9 DEF List, ReadRun
  <2>2. ASSUME NEW x, Goto(s, "readrun", [job[s] EXCEPT !.listed = x]) PROVE ImportInv'
    <3> DEFINE j == [job[s] EXCEPT !.listed = x]
    <3>1. DOMAIN j = JobFields /\ j.wrote = job[s].wrote /\ Goto(s, "readrun", j)
      BY <1>1, <2>2 DEF JobFields
    <3> HIDE DEF j
    <3> QED
      BY <1>5, <1>7, <2>1, <3>1 DEF ReindexSteps
  <2>3. ASSUME NEW step \in {"rebuild", "load"}, Go(s, step), job' = job PROVE ImportInv'
    BY <1>1, <1>5, <1>7, <2>1, <2>3 DEF ReindexSteps
  <2> QED
    BY <2>1, <2>2, <2>3
<1>10. CASE Load(s)
  <2> DEFINE run == Head(job[s].listed)
             j == [job[s] EXCEPT !.loaded = With(@, run, Len(EventLog(store, run))), !.listed = Tail(@)]
  <2>1. \/ \E result : ReindexEnds(s, result)
        \/ lock[run] = NoService /\ lock' = [lock EXCEPT ![run] = s] /\ Goto(s, "readrun", j)
    BY <1>10 DEF Load
  <2>2. DOMAIN j = JobFields /\ j.wrote = job[s].wrote
    BY <1>1 DEF JobFields
  <2> HIDE DEF j, run
  <2>3. lock[run] = NoService /\ lock' = [lock EXCEPT ![run] = s] => LocksStay(s)
    BY <1>1, ServiceAssumption DEF Typed, LocksStay
  <2>4. CASE lock[run] = NoService /\ lock' = [lock EXCEPT ![run] = s] /\ Goto(s, "readrun", j)
    BY <1>5, <2>2, <2>3, <2>4 DEF ReindexSteps
  <2> QED
    BY <1>6, <2>1, <2>4
<1>11. CASE Rebuild(s) \/ ReindexFails(s)
  BY <1>6, <1>11 DEF Rebuild, ReindexFails
<1> QED
  BY <1>8, <1>9, <1>10, <1>11

\* What a dead process held is free, and it was at no step that others see.
LEMMA CrashStep ==
  ASSUME ImportInv, NEW s \in Services, Crash(s)
  PROVE  ImportInv'
<1>1. /\ Typed /\ DOMAIN job[s] = JobFields /\ IsStore(source)
      /\ (file = NoFile \/ IsBundle(file))
  BY DEF ImportInv, Typed
<1>2. /\ source' = source /\ file' = file /\ store' = store /\ job' = job
      /\ lock' = Unlock(s) /\ Go(s, "dead")
  BY DEF Crash
<1>3. LocksStay(s)
  BY <1>1, <1>2, FreedLocks
<1>4. /\ store' = store /\ IsStore(source') /\ FileStays /\ (file' = NoFile \/ IsBundle(file'))
  BY <1>1, <1>2 DEF FileStays
<1>5. "dead" \in PcSteps \ ImportSteps
  BY DEF PcSteps, ImportSteps, LockedSteps
<1> QED
  BY <1>1, <1>2, <1>3, <1>4, <1>5, Leaves

\* Engines append to ledgers of runs that no import holds.
LEMMA EngineStep ==
  ASSUME ImportInv, EngineAppends
  PROVE  ImportInv'
<1>1. Typed /\ IsStore(source) /\ IsStore(store)
  BY DEF ImportInv, Typed
<1>2. pc' = pc /\ job' = job /\ lock' = lock /\ file' = file
  BY DEF EngineAppends
<1>3. /\ IsStore(source') /\ IsStore(store')
      /\ \A r \in DOMAIN store.ledgers :
           /\ r \in DOMAIN store'.ledgers
           /\ \/ store'.ledgers[r] = store.ledgers[r]
              \/ lock[r] = NoService /\ \E e : store'.ledgers[r] = Append(store.ledgers[r], e)
      /\ store'.records = store.records
  <2>1. CASE SourceAppend /\ UNCHANGED store
    <3>1. PICK r \in DOMAIN source.records :
            source' = [source EXCEPT !.ledgers = With(@, r, Seal(r, EventLog(source, r), NewEvent))]
      BY <2>1 DEF SourceAppend
    <3>2. r \in Runs
      BY <1>1 DEF IsStore
    <3>3. IsStore(source')
      BY <1>1, <3>1, <3>2, SealedStore
    <3> QED
      BY <1>1, <2>1, <3>3
  <2>2. CASE StoreAppend /\ UNCHANGED source
    <3>1. PICK r \in DOMAIN store.records :
            /\ lock[r] = NoService
            /\ store' = [store EXCEPT !.ledgers = With(@, r, Seal(r, EventLog(store, r), NewEvent))]
      BY <2>2 DEF StoreAppend
    <3>2. r \in Runs
      BY <1>1 DEF IsStore
    <3>3. IsStore(store')
      BY <1>1, <3>1, <3>2, SealedStore
    <3> DEFINE L == Seal(r, EventLog(store, r), NewEvent)
               f == With(store.ledgers, r, L)
    <3>4. store'.ledgers = f /\ store'.records = store.records
      <4>1. DOMAIN EmptyStore = {"dirs", "records", "ledgers", "refs", "blobs", "objects"}
        BY DEF EmptyStore
      <4> QED
        BY <1>1, <3>1, <4>1 DEF IsStore
    <3>5. \E e : L = Append(EventLog(store, r), e)
      BY DEF Seal
    <3>6. r \in DOMAIN store.ledgers => EventLog(store, r) = store.ledgers[r]
      BY DEF EventLog
    <3> HIDE DEF L
    <3>7. \A q \in DOMAIN store.ledgers : q \in DOMAIN f /\ f[q] = IF q = r THEN L ELSE store.ledgers[q]
      BY DEF With
    <3> HIDE DEF f
    <3> QED
      BY <1>1, <2>2, <3>1, <3>3, <3>4, <3>5, <3>6, <3>7
  <2> QED
    BY <2>1, <2>2 DEF EngineAppends
<1>4. Typed'
  <2>1. IsStore(source)' /\ IsStore(store)'
    BY <1>3 DEF IsStore, IsLedger
  <2>2. (file = NoFile \/ IsBundle(file))'
    BY <1>1, <1>2 DEF Typed, IsBundle, IsLedger
  <2> QED
    BY <1>1, <1>2, <2>1, <2>2 DEF Typed
<1>5. \A t \in Services : Sound(t)'
  <2> TAKE t \in Services
  <2>1. Steady(t)
    BY <1>2, <1>3, ServiceAssumption DEF Steady
  <2> QED
    BY <1>1, <1>2, <2>1, OthersKeep DEF ImportInv, FileStays
<1>6. \A w \in Wrote : Lasting(w)'
  <2> TAKE w \in Wrote
  <2>1. Lasting(w)
    BY DEF ImportInv
  <2> DEFINE L == store.ledgers[w.run]
  <2>2. /\ w.run \in DOMAIN store.ledgers /\ IsLedger(L)
        /\ w.run \in DOMAIN store'.records /\ w.run \in DOMAIN store'.ledgers
        /\ store'.ledgers[w.run] = L \/ \E e : store'.ledgers[w.run] = Append(L, e)
    BY <1>1, <1>3, <2>1 DEF Lasting, IsStore
  <2>3. w.head.seq \in 0..Len(L) /\ HeadOf(SubSeq(L, 1, w.head.seq)) = w.head
    BY <2>1 DEF Lasting
  <2> HIDE DEF L
  <2>4. ASSUME NEW e, store'.ledgers[w.run] = Append(L, e) PROVE Lasting(w)'
    <3>1. /\ Len(Append(L, e)) = Len(L) + 1 /\ Len(L) \in Nat
          /\ SubSeq(Append(L, e), 1, w.head.seq) = SubSeq(L, 1, w.head.seq)
      BY <2>2, <2>3, LedgerGrows
    <3>2. w.head.seq \in 0..Len(Append(L, e))
      BY <2>3, <3>1
    <3> QED
      BY <2>2, <2>3, <2>4, <3>1, <3>2 DEF Lasting
  <2>5. store'.ledgers[w.run] = L => Lasting(w)'
    BY <2>2, <2>3 DEF Lasting
  <2> QED
    BY <2>2, <2>4, <2>5
<1>7. Wrote' = Wrote /\ \A w : \A t \in Services : SparedBy(t, w) => SparedBy(t, w)'
  BY <1>2 DEF Wrote, SparedBy
<1> QED
  BY <1>4, <1>5, <1>6, <1>7 DEF ImportInv

-----------------------------------------------------------------------------
(* Theorems.                                                                 *)

\* The invariant holds at first.
LEMMA InitInv == Init => ImportInv
<1> SUFFICES ASSUME Init PROVE ImportInv
  OBVIOUS
<1>1. DOMAIN NoJob = JobFields /\ NoJob.wrote = {}
  BY EndFields
<1>2. \A s \in Services : pc[s] = "idle" /\ job[s] = NoJob
  BY DEF Init
<1>3. IsStore(store)
  <2>1. /\ store = EmptyStore /\ EmptyStore.ledgers = <<>> /\ EmptyStore.records = <<>>
        /\ DOMAIN <<>> = {}
    BY DEF Init, EmptyStore
  <2> QED
    BY <2>1 DEF IsStore
<1>4. Typed
  <2>1. IsStore(source)
    BY FilesAssumption DEF Init
  <2>2. /\ pc \in [Services -> PcSteps] /\ lock \in [Runs -> Services \cup {NoService}]
        /\ DOMAIN job = Services /\ file = NoFile
    BY DEF Init, PcSteps
  <2> QED
    BY <1>1, <1>2, <1>3, <2>1, <2>2 DEF Typed, PcSteps
<1>5. \A s \in Services : Sound(s)
  BY <1>2 DEF Sound, Exporting, Importing, Holding, Landed, AllDone, ImportSteps, LockedSteps
<1>6. Wrote = {}
  BY <1>1, <1>2 DEF Wrote
<1> QED
  BY <1>4, <1>5, <1>6 DEF ImportInv

\* Every step keeps it.
LEMMA InvNext == ImportInv /\ [Next]_vars => ImportInv'
<1> SUFFICES ASSUME ImportInv, [Next]_vars PROVE ImportInv'
  OBVIOUS
<1>1. CASE UNCHANGED vars
  <2>1. Typed'
    BY <1>1 DEF ImportInv, Typed, vars, IsStore, IsBundle, IsLedger
  <2>2. \A t \in Services : Sound(t)'
    <3>1. \A t \in Services : Steady(t) /\ pc'[t] = pc[t] /\ job'[t] = job[t]
      BY <1>1 DEF vars, Steady
    <3>2. FileStays
      BY <1>1 DEF vars, FileStays
    <3> QED
      BY <3>1, <3>2, OthersKeep DEF ImportInv
  <2>3. \A w \in Wrote' : Lasting(w)' /\ \A s \in Services : SparedBy(s, w)'
    BY <1>1 DEF ImportInv, vars, Wrote, Lasting, SparedBy
  <2> QED
    BY <2>1, <2>2, <2>3 DEF ImportInv
<1>2. ASSUME NEW s \in Services, Progress(s) \/ Reindex(s) \/ Crash(s) PROVE ImportInv'
  BY <1>2, ExportStep, ImportStep, ReindexStep, CrashStep DEF Progress
<1>3. CASE EngineAppends
  BY <1>3, EngineStep
<1> QED
  BY <1>1, <1>2, <1>3 DEF Next

\* Whatever fails and dies: an import holds the locks of all runs that it writes
\* or may yet take back, and nothing that was written and returned is among
\* what any import takes back.
THEOREM ImportInvariant == Spec => []ImportInv
BY InitInv, InvNext, PTL DEF Spec

\* What an import wrote and returned stays visible, and begins as it was
\* written, whatever other imports, reindexes and engines do (importBundle).
THEOREM AckedImports == Spec => []AckedImportStays
<1>1. ImportInv => AckedImportStays
  <2> SUFFICES ASSUME ImportInv, NEW s \in Services, pc[s] = "idle", NEW w \in job[s].wrote
               PROVE  /\ w.run \in DOMAIN store.records
                      /\ HeadOf(SubSeq(EventLog(store, w.run), 1, w.head.seq)) = w.head
    BY DEF AckedImportStays
  <2>1. Lasting(w)
    BY DEF ImportInv, Wrote
  <2> QED
    BY <2>1 DEF Lasting, EventLog
<1> QED
  BY <1>1, ImportInvariant, PTL

\* A run stays as it is, or grows.
Grows(r) ==
  /\ r \in DOMAIN store'.records /\ store'.records[r] = store.records[r]
  /\ IsPrefix(EventLog(store, r), EventLog(store', r))
  /\ RefsOfRun(store.refs, r) \subseteq RefsOfRun(store'.refs, r)

\* A run of which no ledger or record changes, and no ref goes.
LEMMA GrowsIf ==
  ASSUME IsStore(store), NEW r \in DOMAIN store.records,
         r \in DOMAIN store'.records, store'.records[r] = store.records[r],
         EventLog(store', r) = EventLog(store, r),
         \A ref \in store.refs : ref.run = r => ref \in store'.refs
  PROVE  Grows(r)
<1>1. IsPrefix(EventLog(store, r), EventLog(store, r))
  BY LogIsLedger, LedgerGrows
<1> QED
  BY <1>1 DEF Grows, RefsOfRun

\* A step of an import leaves every run alone that it does not hold the lock of.
LEMMA ImportSpares ==
  ASSUME ImportInv, NEW s \in Services, ImportRuns(s),
         NEW r \in DOMAIN store.records, lock[r] = NoService
  PROVE  Grows(r)
<1>1. /\ Typed /\ IsStore(store) /\ r \in Runs /\ lock[r] # s
      /\ Importing(s) /\ Holding(s)
  BY ServiceAssumption DEF ImportInv, Sound, Typed, IsStore
<1>2. DOMAIN store = {"dirs", "records", "ledgers", "refs", "blobs", "objects"}
  BY <1>1 DEF IsStore, EmptyStore
<1>3. ASSUME NEW x, \/ store' = store \/ store' = [store EXCEPT !.dirs = x]
                    \/ store' = [store EXCEPT !.objects = x] \/ store' = [store EXCEPT !.blobs = x]
                    \/ store' = [store EXCEPT !.refs = x] /\ \A ref \in store.refs : ref.run = r => ref \in x
      PROVE  Grows(r)
  <2>1. /\ store'.records = store.records /\ store'.ledgers = store.ledgers
        /\ \A ref \in store.refs : ref.run = r => ref \in store'.refs
    BY <1>2, <1>3
  <2> QED
    BY <1>1, <2>1, GrowsIf DEF EventLog
<1>4. ASSUME NEW f, store' = [store EXCEPT !.ledgers = f],
             r \in DOMAIN f <=> r \in DOMAIN store.ledgers,
             r \in DOMAIN store.ledgers => f[r] = store.ledgers[r]
      PROVE  Grows(r)
  <2>1. store'.records = store.records /\ store'.ledgers = f /\ store'.refs = store.refs
    BY <1>2, <1>4
  <2> QED
    BY <1>1, <1>4, <2>1, GrowsIf DEF EventLog
<1>5. ASSUME NEW f, store' = [store EXCEPT !.records = f], r \in DOMAIN f, f[r] = store.records[r]
      PROVE  Grows(r)
  <2>1. store'.records = f /\ store'.ledgers = store.ledgers /\ store'.refs = store.refs
    BY <1>2, <1>5
  <2> QED
    BY <1>1, <1>5, <2>1, GrowsIf DEF EventLog
<1>6. CASE \/ Import(s) \/ Lock(s) \/ Recheck(s) \/ Sync(s) \/ Release(s)
           \/ \E step \in {"lock", "recheck", "dir", "events", "refs", "record", "sync"} : WriteFails(s, step)
  <2>1. store' = store
    BY <1>6 DEF Import, Lock, Recheck, Sync, Release, WriteFails
  <2> QED
    BY <1>3, <2>1
<1>7. CASE \/ WriteObjects(s) \/ WriteObjectsFails(s) \/ WriteBlobs(s) \/ WriteBlobsFails(s) \/ MakeDir(s)
  <2>1. \E x : \/ store' = [store EXCEPT !.dirs = x] \/ store' = [store EXCEPT !.objects = x]
               \/ store' = [store EXCEPT !.blobs = x]
    BY <1>7 DEF WriteObjects, WriteObjectsFails, WriteBlobs, WriteBlobsFails, MakeDir
  <2> QED
    BY <1>3, <2>1
<1>8. CASE CreateRefs(s)
  <2>1. \/ store' = store
        \/ store' = [store EXCEPT !.refs = @ \cup {q \in BundleOf(s).refs : q.run \in ToWrite(s)}]
    BY <1>8 DEF CreateRefs
  <2> DEFINE x == store.refs \cup {q \in BundleOf(s).refs : q.run \in ToWrite(s)}
  <2>2. store' = store \/ store' = [store EXCEPT !.refs = x]
    BY <2>1
  <2>3. \A ref \in store.refs : ref \in x
    OBVIOUS
  <2> HIDE DEF x
  <2> QED
    BY <1>3, <2>2, <2>3
<1>9. CASE WriteEvents(s)
  <2>1. Run(s) # r
    <3>1. pc[s] \in LockedSteps /\ pc[s] \in ImportSteps
      BY <1>9 DEF WriteEvents, LockedSteps, ImportSteps
    <3>2. lock[Run(s)] = s
      BY <1>1, <3>1, ImportsBundle DEF Holding, Importing
    <3> QED
      BY <1>1, <3>2
  <2> DEFINE L == BundleOf(s).ledgers[Run(s)]
             f == With(store.ledgers, Run(s), L)
  <2>2. store' = store \/ store' = [store EXCEPT !.ledgers = f]
    BY <1>9 DEF WriteEvents
  <2> HIDE DEF L
  <2>3. /\ r \in DOMAIN f <=> r \in DOMAIN store.ledgers
        /\ r \in DOMAIN store.ledgers => f[r] = store.ledgers[r]
    BY <2>1 DEF With
  <2> HIDE DEF f
  <2> QED
    BY <1>3, <1>4, <2>2, <2>3
<1>10. CASE WriteRecord(s)
  <2> DEFINE x == BundleOf(s).records[Run(s)]
             f == With(store.records, Run(s), x)
  <2>1. store' = store \/ (Run(s) \notin DOMAIN store.records /\ store' = [store EXCEPT !.records = f])
    BY <1>10 DEF WriteRecord
  <2> HIDE DEF x
  <2>2. Run(s) \notin DOMAIN store.records => r \in DOMAIN f /\ f[r] = store.records[r]
    BY DEF With
  <2> HIDE DEF f
  <2> QED
    BY <1>3, <1>5, <2>1, <2>2
<1>11. CASE Undo(s)
  <2>1. pc[s] = "undo" /\ pc[s] \in ImportSteps
    BY <1>11 DEF Undo, ImportSteps
  <2> DEFINE u == job[s].undo
             step == Head(u)
             run == CHOOSE q \in step.runs : TRUE
  <2>2. store' = store \/ (u # <<>> /\ store' = Removed(store, step))
    BY <1>11 DEF Undo
  <2>3. u \in Seq(UndoSteps)
    BY <1>1, <2>1 DEF Importing
  <2>4. u # <<>> => step \in UndoSteps /\ step.runs # {} /\ \A q \in step.runs : lock[q] = s
    <3>1. u # <<>> => step = u[1] /\ 1 \in DOMAIN u /\ u[1] \in UndoSteps
      BY <2>3
    <3> QED
      BY <1>1, <2>1, <3>1 DEF Holding
  <2> HIDE DEF u, step
  <2>5. CASE u # <<>> /\ store' = Removed(store, step)
    <3>1. run \in step.runs /\ run # r /\ r \notin step.runs
      BY <1>1, <2>4, <2>5
    <3>2. step.what \in {"dir", "events", "refs", "record"}
      BY <2>4, <2>5 DEF UndoSteps
    <3>3. store' = CASE step.what = "record" -> [store EXCEPT !.records = Without(@, run)]
                     [] step.what = "refs" -> [store EXCEPT !.refs = {q \in @ : q.run \notin step.runs}]
                     [] step.what = "events" -> [store EXCEPT !.ledgers = Without(@, run)]
                     [] step.what = "dir" -> IF run \in DOMAIN store.ledgers \cup DOMAIN store.records THEN store
                                             ELSE [store EXCEPT !.dirs = @ \ {run}]
      BY <2>5 DEF Removed
    <3> HIDE DEF run
    <3>4. CASE step.what = "record"
      <4> DEFINE f == Without(store.records, run)
      <4>1. store' = [store EXCEPT !.records = f]
        BY <3>3, <3>4
      <4>2. r \in DOMAIN f /\ f[r] = store.records[r]
        BY <3>1 DEF Without
      <4> HIDE DEF f
      <4> QED
        BY <1>5, <4>1, <4>2
    <3>5. CASE step.what = "events"
      <4> DEFINE f == Without(store.ledgers, run)
      <4>1. store' = [store EXCEPT !.ledgers = f]
        BY <3>3, <3>5
      <4>2. /\ r \in DOMAIN f <=> r \in DOMAIN store.ledgers
            /\ r \in DOMAIN store.ledgers => f[r] = store.ledgers[r]
        BY <3>1 DEF Without
      <4> HIDE DEF f
      <4> QED
        BY <1>4, <4>1, <4>2
    <3>6. CASE step.what = "refs"
      <4> DEFINE x == {q \in store.refs : q.run \notin step.runs}
      <4>1. store' = [store EXCEPT !.refs = x]
        BY <3>3, <3>6
      <4>2. \A ref \in store.refs : ref.run = r => ref \in x
        BY <3>1
      <4> HIDE DEF x
      <4> QED
        BY <1>3, <4>1, <4>2
    <3>7. CASE step.what = "dir"
      <4>1. store' = store \/ \E x : store' = [store EXCEPT !.dirs = x]
        BY <3>3, <3>7
      <4> QED
        BY <1>3, <4>1
    <3> QED
      BY <3>2, <3>4, <3>5, <3>6, <3>7
  <2> QED
    BY <1>3, <2>2, <2>5
<1> QED
  BY <1>6, <1>7, <1>8, <1>9, <1>10, <1>11 DEF ImportRuns

\* An engine's event goes on the end.
LEMMA EnginesGrow ==
  ASSUME ImportInv, EngineAppends, NEW r \in DOMAIN store.records
  PROVE  Grows(r)
<1>1. IsStore(store)
  BY DEF ImportInv, Typed
<1>2. CASE UNCHANGED store
  BY <1>1, <1>2, GrowsIf
<1>3. CASE StoreAppend
  <2>1. PICK q \in DOMAIN store.records :
          store' = [store EXCEPT !.ledgers = With(@, q, Seal(q, EventLog(store, q), NewEvent))]
    BY <1>3 DEF StoreAppend
  <2> DEFINE L == Seal(q, EventLog(store, q), NewEvent)
             f == With(store.ledgers, q, L)
  <2>2. store'.records = store.records /\ store'.ledgers = f /\ store'.refs = store.refs
    BY <1>1, <2>1 DEF IsStore, EmptyStore
  <2>3. IsPrefix(EventLog(store, q), L)
    BY <1>1, LogIsLedger, LedgerGrows DEF Seal
  <2> HIDE DEF L
  <2>4. /\ DOMAIN f = DOMAIN store.ledgers \cup {q} /\ f[q] = L
        /\ \A p \in DOMAIN store.ledgers \ {q} : f[p] = store.ledgers[p]
    BY DEF With
  <2> HIDE DEF f
  <2>5. CASE r = q
    <3>1. EventLog(store', r) = L
      BY <2>2, <2>4, <2>5 DEF EventLog
    <3> QED
      BY <2>2, <2>3, <2>5, <3>1 DEF Grows
  <2>6. CASE r # q
    <3>1. EventLog(store', r) = EventLog(store, r)
      BY <2>2, <2>4, <2>6 DEF EventLog
    <3> QED
      BY <1>1, <2>2, <3>1, GrowsIf
  <2> QED
    BY <2>5, <2>6
<1> QED
  BY <1>2, <1>3 DEF EngineAppends

\* A visible run whose lock is free only grows: no import overwrites it, takes a
\* ref of it away or rolls it back, whatever fails and dies.
THEOREM VisibleRunsOnlyGrow == Spec => RunsOnlyGrow
<1> DEFINE Grow == \A r \in DOMAIN store.records : lock[r] = NoService => Grows(r)
<1>1. ImportInv /\ [Next]_vars => [Grow]_vars
  <2> SUFFICES ASSUME ImportInv, Next, NEW r \in DOMAIN store.records, lock[r] = NoService
               PROVE  Grows(r)
    OBVIOUS
  <2>1. IsStore(store)
    BY DEF ImportInv, Typed
  <2>2. ASSUME NEW s \in Services, Progress(s) \/ Reindex(s) \/ Crash(s) PROVE Grows(r)
    <3>1. CASE ImportRuns(s)
      BY <3>1, ImportSpares
    <3>2. CASE Export(s)
      <4>1. store' = store
        BY <3>2 DEF Export, Plan, Answer, Declare, DeclareFails, Create, CreateFails, Fill, FillFails, Link,
                    LinkFails, Finish, FinishFails
      <4> QED
        BY <2>1, <4>1, GrowsIf
    <3>3. CASE List(s) \/ ReadRun(s) \/ Load(s) \/ Rebuild(s) \/ ReindexFails(s) \/ Reindex(s) \/ Crash(s)
      <4>1. store' = store
        BY <3>3 DEF List, ReadRun, Load, Rebuild, ReindexFails, Reindex, Crash
      <4> QED
        BY <2>1, <4>1, GrowsIf
    <3> QED
      BY <2>2, <3>1, <3>2, <3>3 DEF Progress
  <2>3. CASE EngineAppends
    BY <2>3, EnginesGrow
  <2> QED
    BY <2>2, <2>3 DEF Next
<1>2. [Grow]_vars => [\A r \in DOMAIN store.records :
         lock[r] = NoService =>
           /\ r \in DOMAIN store'.records /\ store'.records[r] = store.records[r]
           /\ IsPrefix(EventLog(store, r), EventLog(store', r))
           /\ RefsOfRun(store.refs, r) \subseteq RefsOfRun(store'.refs, r)]_vars
  BY DEF Grows
<1> QED
  BY <1>1, <1>2, ImportInvariant, PTL DEF Spec, RunsOnlyGrow

-----------------------------------------------------------------------------
(* What exports write holds no secret, or is on record.                      *)

\* The unsafe export of a run is on record, and a bundle is safe or so recorded.
Recorded(st, run) == \E e \in ToSet(EventLog(st, run)) : e.body = UnsafeEvent
SafeOrRecorded(st, bundle) ==
  LET run == bundle.manifest.runs[1]
  IN  IF bundle.manifest.unsafe THEN Recorded(st, run)
      ELSE "secret" \notin Texts(bundle) \cup {bundle.records[run]}

\* A plan knows every secret in what it will write, also after the ledger grew.
PlanFits(st, plan) ==
  LET log == EventLog(st, plan.run)
  IN  /\ plan.run \in Runs
      /\ st.records[plan.run] = "secret" => plan.hits.record
      /\ plan.head.seq \in 0..Len(log)
      /\ \A i \in 1..plan.head.seq : log[i].text = "secret" => i \in plan.hits.lines
      /\ \A b \in plan.blobs : BlobContent[b].text = "secret" => b \in plan.hits.shas
      /\ \A o \in plan.objects : ObjectContent[o].text = "secret" => o \in plan.hits.shas

\* The invariant.
SafeInv ==
  /\ HoldsEvents(source)
  /\ \A s \in Services :
       /\ pc[s] \in {"confirm", "declare", "create", "fill"} => PlanFits(source, job[s].plan)
       /\ pc[s] \in {"create", "fill"} /\ job[s].plan.unsafe => Recorded(source, job[s].plan.run)
       /\ pc[s] = "link" => SafeOrRecorded(source, job[s].draft)
  /\ file # NoFile => SafeOrRecorded(source, file)

\* The length of a ledger is the seq of its head.
LEMMA HeadSeq ==
  ASSUME NEW L, NEW S, L \in Seq(S)
  PROVE  HeadOf(L).seq = Len(L) /\ Len(L) \in Nat
<1>1. CASE L = <<>>
  BY <1>1 DEF HeadOf
<1>2. CASE L # <<>>
  BY <1>2 DEF HeadOf
<1> QED
  BY <1>1, <1>2

\* A planned checkpoint is recorded at a position of the ledger.
LEMMA ChosenInLog ==
  ASSUME NEW st, NEW target, Chosen(st, target) # {}, ChainHolds(target.run, EventLog(st, target.run))
  PROVE  (CHOOSE c \in Chosen(st, target) : TRUE).seq \in DOMAIN EventLog(st, target.run)
<1> DEFINE log == EventLog(st, target.run)
           c == CHOOSE c \in Chosen(st, target) : TRUE
<1>1. c \in Chosen(st, target)
  OBVIOUS
<1> HIDE DEF c
<1>2. c \in CheckpointsFromLedger(log)
  BY <1>1 DEF Chosen, Durable
<1>3. PICK i \in DOMAIN log : c = Declared(log[i]) /\ DeclaredAt(log, i)
  BY <1>2 DEF CheckpointsFromLedger
<1>4. c.seq = log[i].seq
  BY <1>3 DEF DeclaredAt
<1>5. log[i].seq = i
  BY DEF ChainHolds
<1> QED
  BY <1>4, <1>5 DEF c

\* The scan of an export finds every secret.
LEMMA PlanFinds ==
  ASSUME NEW st, IsStore(st), NEW target, NEW include, ExportError(st, target, include) = "ok"
  PROVE  PlanFits(st, ExportPlan(st, target, include))
<1> DEFINE log == EventLog(st, target.run)
           events == Planned(st, target).events
           plan == ExportPlan(st, target, include)
           cursor == (CHOOSE c \in Chosen(st, target) : TRUE).seq
<1>1. /\ target.run \in DOMAIN st.records /\ ChainHolds(target.run, log)
      /\ target.checkpoint # "all" => Chosen(st, target) # {}
  BY DEF ExportError
<1>2. target.run \in Runs
  BY <1>1 DEF IsStore
<1>3. log \in Seq(ToSet(log))
  BY LogIsLedger DEF IsLedger
<1>4. events \in Seq(ToSet(log)) /\ Len(events) <= Len(log) /\ \A i \in 1..Len(events) : events[i] = log[i]
  <2>1. CASE target.checkpoint = "all"
    BY <1>3, <2>1 DEF Planned
  <2>2. CASE target.checkpoint # "all"
    <3>1. cursor \in DOMAIN log
      BY <1>1, <2>2, ChosenInLog
    <3>2. events = SubSeq(log, 1, cursor)
      BY <2>2 DEF Planned
    <3> HIDE DEF log, cursor, events
    <3>3. cursor \in 1..Len(log)
      BY <1>3, <3>1
    <3> QED
      BY <1>3, <3>2, <3>3
  <2> QED
    BY <2>1, <2>2
<1>5. /\ plan.run = target.run /\ plan.head = HeadOf(events)
      /\ plan.hits.record = (st.records[target.run] = "secret")
      /\ plan.hits.lines = {i \in DOMAIN events : events[i].text = "secret"}
      /\ plan.hits.shas = {b \in plan.blobs : BlobContent[b].text = "secret"}
                          \cup {o \in plan.objects : ObjectContent[o].text = "secret"}
  BY DEF ExportPlan
<1> HIDE DEF log, events, plan
<1>6. plan.head.seq = Len(events) /\ Len(events) \in Nat /\ DOMAIN events = 1..Len(events) /\ Len(log) \in Nat
  BY <1>3, <1>4, <1>5, HeadSeq
<1>7. plan.head.seq \in 0..Len(log)
  BY <1>4, <1>6
<1>8. \A i \in 1..plan.head.seq : log[i].text = "secret" => i \in plan.hits.lines
  BY <1>4, <1>5, <1>6
<1>9. EventLog(st, plan.run) = log
  BY <1>5 DEF log
<1> QED
  BY <1>2, <1>5, <1>7, <1>8, <1>9 DEF PlanFits, plan

\* A ledger grows by events at its end.
Grew(st, new) ==
  /\ new.records = st.records
  /\ \A r : \/ EventLog(new, r) = EventLog(st, r)
            \/ \E e : EventLog(new, r) = Append(EventLog(st, r), e)

\* What is sealed goes to the end of one ledger.
SealedIn(st, run, body) ==
  [st EXCEPT !.ledgers = With(@, run, Seal(run, EventLog(st, run), body))]
LEMMA SealGrows ==
  ASSUME NEW st, IsStore(st), HoldsEvents(st), NEW run, NEW body, NEW new, new = SealedIn(st, run, body)
  PROVE  Grew(st, new) /\ HoldsEvents(new) /\ \E e \in ToSet(EventLog(new, run)) : e.body = body
<1> DEFINE log == EventLog(st, run)
           e == [run |-> run, seq |-> Len(log) + 1, body |-> body, text |-> BodyContent[body].text,
                 prev |-> HeadOf(log).hash, hash |-> Append(HeadOf(log).hash, body)]
           L == Append(log, e)
<1>1. DOMAIN st = {"dirs", "records", "ledgers", "refs", "blobs", "objects"}
  BY DEF IsStore, EmptyStore
<1>2. Seal(run, log, body) = L
  BY DEF Seal
<1>3. IsEvent(e) /\ e.body = body
  BY DEF IsEvent
<1>4. log \in Seq(ToSet(log))
  BY LogIsLedger DEF IsLedger
<1>5. \A i \in DOMAIN log : IsEvent(log[i])
  BY DEF HoldsEvents, EventLog
<1> HIDE DEF e
<1>6. new = [st EXCEPT !.ledgers = With(@, run, L)]
  BY <1>2 DEF SealedIn
<1> HIDE DEF L
<1>7. new.records = st.records /\ new.ledgers = With(st.ledgers, run, L)
  BY <1>1, <1>6
<1>8. /\ DOMAIN new.ledgers = DOMAIN st.ledgers \cup {run} /\ new.ledgers[run] = L
      /\ \A r \in DOMAIN st.ledgers : r # run => new.ledgers[r] = st.ledgers[r]
  BY <1>7 DEF With
<1>9. EventLog(new, run) = L /\ \A r : r # run => EventLog(new, r) = EventLog(st, r)
  BY <1>8 DEF EventLog
<1>10. \E S : log \in Seq(S) /\ e \in S
  <2>1. log \in Seq(ToSet(log) \cup {e})
    BY <1>4
  <2> QED
    BY <2>1
<1>11. L[Len(L)] = e /\ Len(L) \in DOMAIN L /\ \A i \in DOMAIN L : (i \in DOMAIN log /\ L[i] = log[i]) \/ L[i] = e
  <2> HIDE DEF log
  <2> QED
    BY <1>10 DEF L
<1>12. HoldsEvents(new)
  <2>1. \A i \in DOMAIN L : IsEvent(L[i])
    BY <1>3, <1>5, <1>11
  <2> QED
    BY <1>8, <2>1 DEF HoldsEvents
<1>13. e \in ToSet(L)
  BY <1>11 DEF ToSet
<1> QED
  BY <1>3, <1>7, <1>9, <1>12, <1>13 DEF Grew, L

\* It changes nothing of a plan, a record of an export, or a bundle.
LEMMA GrowthKeeps ==
  ASSUME NEW st, IsStore(st), NEW new, Grew(st, new)
  PROVE  /\ \A plan : PlanFits(st, plan) => PlanFits(new, plan)
         /\ \A run : Recorded(st, run) => Recorded(new, run)
         /\ \A bundle : SafeOrRecorded(st, bundle) => SafeOrRecorded(new, bundle)
<1>1. ASSUME NEW run
      PROVE  /\ Len(EventLog(st, run)) \in Nat /\ Len(EventLog(new, run)) \in Nat
             /\ Len(EventLog(st, run)) <= Len(EventLog(new, run))
             /\ \A i \in 1..Len(EventLog(st, run)) : EventLog(new, run)[i] = EventLog(st, run)[i]
             /\ DOMAIN EventLog(st, run) = 1..Len(EventLog(st, run))
             /\ DOMAIN EventLog(st, run) \subseteq DOMAIN EventLog(new, run)
  <2> DEFINE L == EventLog(st, run)
             M == EventLog(new, run)
  <2>1. L \in Seq(ToSet(L))
    BY LogIsLedger DEF IsLedger
  <2>2. M = L \/ \E e : M = Append(L, e)
    BY DEF Grew
  <2> HIDE DEF L, M
  <2>3. CASE M = L
    BY <2>1, <2>3 DEF L, M
  <2>4. ASSUME NEW e, M = Append(L, e)
        PROVE  /\ Len(L) \in Nat /\ Len(M) \in Nat /\ Len(L) <= Len(M)
               /\ \A i \in 1..Len(L) : M[i] = L[i]
               /\ DOMAIN L = 1..Len(L) /\ DOMAIN L \subseteq DOMAIN M
    <3>1. L \in Seq(ToSet(L) \cup {e}) /\ e \in ToSet(L) \cup {e}
      BY <2>1
    <3> QED
      BY <2>4, <3>1
  <2> QED
    BY <2>2, <2>3, <2>4 DEF L, M
<1>2. new.records = st.records
  BY DEF Grew
<1>3. ASSUME NEW plan, PlanFits(st, plan) PROVE PlanFits(new, plan)
  <2> DEFINE L == EventLog(st, plan.run)
             M == EventLog(new, plan.run)
  <2>1. /\ Len(L) \in Nat /\ Len(M) \in Nat /\ Len(L) <= Len(M)
        /\ \A i \in 1..Len(L) : M[i] = L[i]
    BY <1>1
  <2>2. /\ plan.head.seq \in 0..Len(L)
        /\ \A i \in 1..plan.head.seq : L[i].text = "secret" => i \in plan.hits.lines
    BY <1>3 DEF PlanFits
  <2> HIDE DEF L, M
  <2>3. /\ plan.head.seq \in 0..Len(M)
        /\ \A i \in 1..plan.head.seq : M[i].text = "secret" => i \in plan.hits.lines
    BY <2>1, <2>2
  <2> QED
    BY <1>2, <1>3, <2>3 DEF PlanFits, M
<1>4. ASSUME NEW run, Recorded(st, run) PROVE Recorded(new, run)
  <2> DEFINE L == EventLog(st, run)
             M == EventLog(new, run)
  <2>1. PICK i \in DOMAIN L : L[i].body = UnsafeEvent
    BY <1>4 DEF Recorded, ToSet
  <2>2. i \in DOMAIN M /\ M[i] = L[i]
    BY <1>1, <2>1
  <2> QED
    BY <2>1, <2>2 DEF Recorded, ToSet
<1> QED
  BY <1>3, <1>4 DEF SafeOrRecorded

\* Text that is replaced where it was hit is safe.
LEMMA NoSecret ==
  ASSUME NEW plan, ~plan.unsafe, NEW hit, NEW text, text = "secret" => hit
  PROVE  Content(plan, hit, text) # "secret"
BY DEF Content, Redacted

\* What is written is safe, or on record.
LEMMA WrittenSafe ==
  ASSUME NEW st, IsStore(st), HoldsEvents(st), NEW plan, PlanFits(st, plan),
         plan.ledger => LedgerMatches(st, plan), plan.unsafe => Recorded(st, plan.run)
  PROVE  SafeOrRecorded(st, WrittenBundle(st, plan))
<1> DEFINE all == EventLog(st, plan.run)
           some == {i \in DOMAIN all : all[i].seq <= plan.head.seq}
           n == Cardinality(some)
           log == PlannedLedger(st, plan)
           Line(i) == [log[i] EXCEPT !.text = Content(plan, i \in plan.hits.lines, @)]
           bundle == WrittenBundle(st, plan)
<1>1. all \in Seq(ToSet(all)) /\ \A i \in DOMAIN all : IsEvent(all[i])
  BY LogIsLedger DEF IsLedger, HoldsEvents, EventLog
<1>2. n \in 0..Len(all)
  <2>1. IsFiniteSet(1..Len(all)) /\ Cardinality(1..Len(all)) = Len(all) /\ Len(all) \in Nat
    <3>1. Len(all) \in Nat
      BY <1>1
    <3>2. 1 \in Int /\ Len(all) \in Int
      BY <3>1
    <3>3. IsFiniteSet(1..Len(all)) /\ Cardinality(1..Len(all)) = IF 1 > Len(all) THEN 0 ELSE Len(all) - 1 + 1
      BY <3>2, FS_Interval
    <3> QED
      BY <3>1, <3>3
  <2>2. some \subseteq 1..Len(all)
    BY <1>1
  <2> HIDE DEF some
  <2>3. IsFiniteSet(some) /\ Cardinality(some) <= Cardinality(1..Len(all))
    BY <2>1, <2>2, FS_Subset
  <2>4. Cardinality(some) \in Nat
    BY <2>3, FS_CardinalityType
  <2> QED
    BY <2>1, <2>3, <2>4
<1>3. log = SubSeq(all, 1, n)
  BY DEF PlannedLedger
<1>4. LedgerMatches(st, plan) <=> HeadOf(log) = plan.head
  BY DEF LedgerMatches
<1>5. /\ bundle.manifest.runs = <<plan.run>> /\ bundle.manifest.unsafe = plan.unsafe
      /\ bundle.records[plan.run] = Content(plan, plan.hits.record, st.records[plan.run])
      /\ \A r \in DOMAIN bundle.ledgers : plan.ledger /\ bundle.ledgers[r] = [i \in DOMAIN log |-> Line(i)]
      /\ \A b \in DOMAIN bundle.blobs :
           b \in plan.blobs /\ bundle.blobs[b].text = Content(plan, b \in plan.hits.shas, BlobContent[b].text)
      /\ \A o \in DOMAIN bundle.objects :
           o \in plan.objects /\ bundle.objects[o].text = Content(plan, o \in plan.hits.shas, ObjectContent[o].text)
  BY DEF WrittenBundle
<1> HIDE DEF all, n, log, bundle
<1>6. log \in Seq(ToSet(all)) /\ Len(log) = n /\ \A i \in 1..n : log[i] = all[i] /\ i \in DOMAIN all
  BY <1>1, <1>2, <1>3
<1>7. bundle.manifest.runs[1] = plan.run
  BY <1>5
<1>8. CASE plan.unsafe
  <2>1. Recorded(st, plan.run) /\ bundle.manifest.unsafe
    BY <1>5, <1>8
  <2> QED
    BY <1>7, <2>1, Zenon DEF SafeOrRecorded, bundle
<1>9. CASE ~plan.unsafe
  <2>1. bundle.records[plan.run] # "secret"
    BY <1>5, <1>9, NoSecret DEF PlanFits
  <2>2. /\ \A b \in DOMAIN bundle.blobs : bundle.blobs[b].text # "secret"
        /\ \A o \in DOMAIN bundle.objects : bundle.objects[o].text # "secret"
    <3>1. ASSUME NEW b \in DOMAIN bundle.blobs PROVE bundle.blobs[b].text # "secret"
      <4>1. BlobContent[b].text = "secret" => b \in plan.hits.shas
        BY <1>5 DEF PlanFits
      <4> QED
        BY <1>5, <1>9, <4>1 DEF Content, Redacted
    <3>2. ASSUME NEW o \in DOMAIN bundle.objects PROVE bundle.objects[o].text # "secret"
      <4>1. ObjectContent[o].text = "secret" => o \in plan.hits.shas
        BY <1>5 DEF PlanFits
      <4> QED
        BY <1>5, <1>9, <4>1 DEF Content, Redacted
    <3> QED
      BY <3>1, <3>2
  <2>3. ASSUME NEW r \in DOMAIN bundle.ledgers PROVE \A e \in ToSet(bundle.ledgers[r]) : e.text # "secret"
    <3>1. HeadOf(log) = plan.head
      BY <1>4, <1>5
    <3>2. n = plan.head.seq
      BY <1>6, <3>1, HeadSeq
    <3>3. \A i \in 1..n : log[i].text = "secret" => i \in plan.hits.lines
      BY <1>6, <3>2 DEF PlanFits, all
    <3>4. DOMAIN log = 1..n
      BY <1>2, <1>6
    <3>5. \A i \in 1..n : Line(i).text # "secret"
      <4> TAKE i \in 1..n
      <4>1. IsEvent(log[i])
        BY <1>1, <1>6
      <4>2. Line(i).text = Content(plan, i \in plan.hits.lines, log[i].text)
        BY <4>1 DEF IsEvent
      <4> QED
        BY <1>9, <3>3, <4>2, NoSecret
    <3>6. bundle.ledgers[r] = [i \in 1..n |-> Line(i)]
      BY <1>5, <3>4
    <3> HIDE DEF Line
    <3> QED
      BY <3>5, <3>6 DEF ToSet
  <2>4. "secret" \notin Texts(bundle)
    BY <2>2, <2>3 DEF Texts
  <2> QED
    <3>1. ~bundle.manifest.unsafe
      BY <1>5, <1>9
    <3>2. "secret" \notin Texts(bundle) \cup {bundle.records[bundle.manifest.runs[1]]}
      BY <1>7, <2>1, <2>4
    <3> QED
      BY <3>1, <3>2, Zenon DEF SafeOrRecorded, bundle
<1> QED
  BY <1>8, <1>9 DEF bundle

\* Only s goes on, and it is not exporting.
Elsewhere(s) ==
  /\ source' = source /\ file' = file
  /\ \A t \in Services \ {s} : pc'[t] = pc[t] /\ job'[t] = job[t]
  /\ pc'[s] \notin ExportSteps

\* A step goes to one of a call that is no export.
LEMMA GoesElsewhere ==
  ASSUME Typed, NEW s \in Services, NEW step \in (PcSteps \ ExportSteps),
         (\E j : Goto(s, step, j)) \/ (Go(s, step) /\ UNCHANGED job),
         source' = source, file' = file
  PROVE  Elsewhere(s)
<1>1. pc' = [pc EXCEPT ![s] = step]
  BY DEF Goto, Go
<1>2. \E j : job' = [job EXCEPT ![s] = j] \/ job' = job
  BY DEF Goto
<1>3. pc'[s] = step /\ \A t \in Services \ {s} : pc'[t] = pc[t]
  BY <1>1 DEF Typed
<1>4. \A t \in Services \ {s} : job'[t] = job[t]
  BY <1>2 DEF Typed
<1> QED
  BY <1>3, <1>4 DEF Elsewhere

\* Imports, reindexes and deaths do.
LEMMA OtherCalls ==
  ASSUME Typed, NEW s \in Services,
         \/ ImportRuns(s) \/ Reindex(s) \/ Crash(s)
         \/ List(s) \/ ReadRun(s) \/ Load(s) \/ Rebuild(s) \/ ReindexFails(s)
  PROVE  Elsewhere(s)
<1> DEFINE To(step) == (\E j : Goto(s, step, j)) \/ (Go(s, step) /\ UNCHANGED job)
           Rest == PcSteps \ ExportSteps
<1>1. Rest = {"idle", "dead"} \cup ImportSteps \cup ReindexSteps
  BY DEF PcSteps, ExportSteps, ImportSteps, LockedSteps, ReindexSteps
<1>2. source' = source /\ file' = file
  BY DEF ImportRuns, Import, Lock, Recheck, WriteObjects, WriteObjectsFails, WriteBlobs, WriteBlobsFails, MakeDir,
         WriteEvents, CreateRefs, WriteRecord, Sync, WriteFails, Undo, Release, Reindex, Crash, List, ReadRun, Load,
         Rebuild, ReindexFails
<1>3. CASE \E step \in Rest : To(step)
  BY <1>2, <1>3, GoesElsewhere
<1>4. /\ {"idle", "dead", "lock", "undo", "release", "list", "readrun", "load", "rebuild"} \subseteq Rest
      /\ LockedSteps \subseteq Rest
  BY <1>1 DEF ImportSteps, ReindexSteps
<1> HIDE DEF Rest
<1>5. \A result : Throw(s, result) => To("undo")
  BY DEF Throw
<1>6. \A result : End(s, result) => To("idle")
  BY DEF End
<1>7. \A j, loop, then : NextRun(s, j, loop, then) => To(loop) \/ To(then)
  BY Zenon DEF NextRun
<1>8. \A kind, j, step : Begin(s, kind, j, step) => To(step)
  BY DEF Begin
<1>9. Import(s) => To("idle") \/ To("lock")
  <2> HIDE DEF To
  <2> QED
    BY <1>8, Zenon DEF Import
<1>10. Lock(s) => To("lock") \/ To("recheck") \/ To("undo")
  BY <1>5, <1>7, Zenon DEF Lock
<1>11. Recheck(s) => To("undo") \/ To("objects")
  BY <1>5, Zenon DEF Recheck
<1>12. WriteObjects(s) => To("blobs")
  BY Zenon DEF WriteObjects
<1>13. WriteObjectsFails(s) \/ WriteBlobsFails(s) \/ (\E step : WriteFails(s, step)) => To("undo")
  BY <1>5, Zenon DEF WriteObjectsFails, WriteBlobsFails, WriteFails
<1>14. WriteBlobs(s) => To("dir")
  BY Zenon DEF WriteBlobs
<1>15. MakeDir(s) => To("events")
  BY Zenon DEF MakeDir
<1>16. WriteEvents(s) => To("undo") \/ To("dir") \/ To("refs")
  BY <1>5, <1>7, Zenon DEF WriteEvents
<1>17. CreateRefs(s) => To("undo") \/ To("record")
  BY <1>5, Zenon DEF CreateRefs
<1>18. WriteRecord(s) => To("undo") \/ To("sync")
  BY <1>5, Zenon DEF WriteRecord
<1>19. Sync(s) => To("record") \/ To("release")
  BY <1>7, Zenon DEF Sync
<1>20. Release(s) => To("list") \/ To("idle")
  BY <1>6, Zenon DEF Release
<1>21. Reindex(s) => To("list")
  BY <1>8, Zenon DEF Reindex
<1>22. List(s) => To("readrun")
  BY Zenon DEF List
<1>23. ReadRun(s) => To("rebuild") \/ To("load") \/ To("readrun")
  BY Zenon DEF ReadRun
<1>24. Load(s) \/ Rebuild(s) \/ ReindexFails(s) => To("idle") \/ To("readrun")
  BY <1>6, Zenon DEF Load, Rebuild, ReindexFails, ReindexEnds
<1>25. Crash(s) => To("dead")
  BY Zenon DEF Crash
<1> HIDE DEF To
<1>26. ASSUME NEW step \in {"idle", "dead", "lock", "undo", "release", "list", "readrun", "load", "rebuild"} \cup LockedSteps,
              To(step)
       PROVE  Elsewhere(s)
  BY <1>3, <1>4, <1>26
<1>27. {"recheck", "objects", "blobs", "dir", "events", "refs", "record", "sync"} = LockedSteps
  BY DEF LockedSteps
<1>28. CASE Undo(s)
  <2>1. CASE Go(s, "release") /\ UNCHANGED job
    <3>1. To("release")
      BY <2>1 DEF To
    <3> QED
      BY <1>26, <3>1
  <2>2. CASE job' = [job EXCEPT ![s].undo = Tail(@)] /\ UNCHANGED pc
    <3>1. pc'[s] = "undo" /\ "undo" \notin ExportSteps
      BY <1>28, <2>2 DEF Undo, ExportSteps
    <3>2. \A t \in Services \ {s} : pc'[t] = pc[t] /\ job'[t] = job[t]
      BY <2>2 DEF Typed
    <3> QED
      BY <1>2, <3>1, <3>2 DEF Elsewhere
  <2>3. (Go(s, "release") /\ UNCHANGED job) \/ (job' = [job EXCEPT ![s].undo = Tail(@)] /\ UNCHANGED pc)
    BY <1>28 DEF Undo
  <2> QED
    BY <2>1, <2>2, <2>3
<1>29. CASE ImportRuns(s) /\ ~Undo(s)
  BY <1>26, <1>27, <1>9, <1>10, <1>11, <1>12, <1>13, <1>14, <1>15, <1>16, <1>17, <1>18, <1>19, <1>20, <1>29
     DEF ImportRuns
<1>30. CASE ~ImportRuns(s)
  BY <1>21, <1>22, <1>23, <1>24, <1>25, <1>26, <1>30
<1> QED
  BY <1>28, <1>29, <1>30

\* What they leave is safe.
LEMMA ElsewhereSafe ==
  ASSUME SafeInv, NEW s \in Services, Elsewhere(s)
  PROVE  SafeInv'
BY DEF SafeInv, Elsewhere, ExportSteps

\* A step of an export, by what it leaves: s is at `step` with the locals j.
LEMMA ExportSafe ==
  ASSUME Typed, SafeInv, NEW s \in Services, NEW step \in PcSteps, NEW j,
         Goto(s, step, j) \/ (Go(s, step) /\ UNCHANGED job /\ j = job[s]),
         HoldsEvents(source'),
         source' = source \/ Grew(source, source'),
         step \in {"confirm", "declare", "create", "fill"} => PlanFits(source', j.plan),
         step \in {"create", "fill"} /\ j.plan.unsafe => Recorded(source', j.plan.run),
         step = "link" => SafeOrRecorded(source', j.draft),
         file' = file \/ SafeOrRecorded(source', file')
  PROVE  SafeInv'
<1>1. pc'[s] = step /\ job'[s] = j /\ \A t \in Services \ {s} : pc'[t] = pc[t] /\ job'[t] = job[t]
  BY DEF Typed, Goto, Go
<1>2. /\ \A plan : PlanFits(source, plan) => PlanFits(source', plan)
      /\ \A run : Recorded(source, run) => Recorded(source', run)
      /\ \A bundle : SafeOrRecorded(source, bundle) => SafeOrRecorded(source', bundle)
  BY GrowthKeeps DEF Typed
<1>3. ASSUME NEW t \in Services
      PROVE  /\ pc'[t] \in {"confirm", "declare", "create", "fill"} => PlanFits(source', job'[t].plan)
             /\ pc'[t] \in {"create", "fill"} /\ job'[t].plan.unsafe => Recorded(source', job'[t].plan.run)
             /\ pc'[t] = "link" => SafeOrRecorded(source', job'[t].draft)
  <2>1. CASE t = s
    BY <1>1, <2>1
  <2>2. CASE t # s
    BY <1>1, <1>2, <2>2 DEF SafeInv
  <2> QED
    BY <2>1, <2>2
<1>4. file' # NoFile => SafeOrRecorded(source', file')
  BY <1>2 DEF SafeInv
<1>5. HoldsEvents(source)'
  BY DEF HoldsEvents, IsEvent
<1> QED
  BY <1>3, <1>4, <1>5 DEF SafeInv, PlanFits, Recorded, SafeOrRecorded, HoldsEvents

\* The steps of an export keep the invariant.
LEMMA ExportKeepsSafe ==
  ASSUME ImportInv, SafeInv, NEW s \in Services, Export(s)
  PROVE  SafeInv'
<1>1. /\ Typed /\ DOMAIN job[s] = JobFields /\ IsStore(source) /\ HoldsEvents(source)
      /\ {"idle"} \cup ExportSteps \subseteq PcSteps
  BY DEF ImportInv, Typed, SafeInv, PcSteps
<1>2. ASSUME NEW result, End(s, result), HoldsEvents(source'), source' = source \/ Grew(source, source'), file' = file
      PROVE  SafeInv'
  <2>1. PICK j : Goto(s, "idle", j)
    BY <1>2 DEF End
  <2> QED
    BY <1>1, <1>2, <2>1, ExportSafe
<1>3. CASE Plan(s)
  <2>1. PICK target \in Targets, include \in Options :
          LET error == ExportError(source, target, include)
          IN  IF error = "ok"
              THEN Begin(s, "export", [NoJob EXCEPT !.plan = ExportPlan(source, target, include)], "confirm")
              ELSE Begin(s, "export", [NoJob EXCEPT !.result = error], "idle")
    BY <1>3 DEF Plan
  <2>2. source' = source /\ file' = file
    BY <1>3 DEF Plan
  <2> DEFINE plan == ExportPlan(source, target, include)
             j == [[NoJob EXCEPT !.plan = plan] EXCEPT !.kind = "export"]
             e == [[NoJob EXCEPT !.result = ExportError(source, target, include)] EXCEPT !.kind = "export"]
  <2>3. j.plan = plan
    BY DEF NoJob
  <2>4. \/ Goto(s, "confirm", j) /\ ExportError(source, target, include) = "ok"
        \/ Goto(s, "idle", e)
    BY <2>1 DEF Begin
  <2> HIDE DEF plan, j, e
  <2>5. CASE Goto(s, "confirm", j) /\ ExportError(source, target, include) = "ok"
    <3>1. PlanFits(source, plan)
      BY <1>1, <2>5, PlanFinds DEF plan
    <3> QED
      BY <1>1, <2>2, <2>3, <2>5, <3>1, ExportSafe DEF ExportSteps
  <2>6. CASE Goto(s, "idle", e)
    BY <1>1, <2>2, <2>6, ExportSafe
  <2> QED
    BY <2>4, <2>5, <2>6
<1>4. CASE Answer(s)
  <2>1. source' = source /\ file' = file /\ PlanFits(source, job[s].plan)
    BY <1>4 DEF Answer, SafeInv
  <2>2. \/ Go(s, "declare") /\ job' = job
        \/ Go(s, "create") /\ job' = job /\ ~job[s].plan.unsafe
        \/ End(s, "aborted")
    BY <1>4, Zenon DEF Answer
  <2>3. CASE Go(s, "declare") /\ job' = job
    BY <1>1, <2>1, <2>3, ExportSafe DEF ExportSteps
  <2>4. CASE Go(s, "create") /\ job' = job /\ ~job[s].plan.unsafe
    BY <1>1, <2>1, <2>4, ExportSafe DEF ExportSteps
  <2> QED
    BY <1>1, <1>2, <2>1, <2>2, <2>3, <2>4
<1>5. CASE Declare(s)
  <2> DEFINE run == job[s].plan.run
  <2>1. /\ file' = file /\ PlanFits(source, job[s].plan)
        /\ (Go(s, "create") /\ job' = job) \/ End(s, "ERR_IO")
        /\ source' = [source EXCEPT !.ledgers = With(@, run, Seal(run, EventLog(source, run), UnsafeEvent))]
    BY <1>5 DEF Declare, SafeInv
  <2>2. Grew(source, source') /\ HoldsEvents(source') /\ Recorded(source', run)
    <3>1. source' = SealedIn(source, run, UnsafeEvent)
      BY <2>1 DEF SealedIn
    <3> HIDE DEF run
    <3> QED
      BY <1>1, <3>1, SealGrows DEF Recorded
  <2>3. PlanFits(source', job[s].plan)
    BY <1>1, <2>1, <2>2, GrowthKeeps
  <2>4. CASE Go(s, "create") /\ job' = job
    BY <1>1, <2>1, <2>2, <2>3, <2>4, ExportSafe DEF ExportSteps
  <2> QED
    BY <1>2, <2>1, <2>2, <2>4
<1>6. CASE Create(s)
  <2> DEFINE j == [job[s] EXCEPT !.partial = TRUE]
  <2>1. source' = source /\ file' = file /\ Goto(s, "fill", j) /\ PlanFits(source, job[s].plan)
    BY <1>6 DEF Create, SafeInv
  <2>2. j.plan = job[s].plan
    BY <1>1 DEF JobFields
  <2>3. job[s].plan.unsafe => Recorded(source, job[s].plan.run)
    BY <1>6 DEF Create, SafeInv
  <2> HIDE DEF j
  <2> QED
    BY <1>1, <2>1, <2>2, <2>3, ExportSafe DEF ExportSteps
<1>7. CASE Fill(s)
  <2> DEFINE j == [job[s] EXCEPT !.draft = WrittenBundle(source, job[s].plan)]
  <2>1. /\ source' = source /\ file' = file /\ PlanFits(source, job[s].plan)
        /\ job[s].plan.unsafe => Recorded(source, job[s].plan.run)
    BY <1>7 DEF Fill, SafeInv
  <2>2. \/ Goto(s, "link", j) /\ (job[s].plan.ledger => LedgerMatches(source, job[s].plan))
        \/ End(s, "ERR_CORRUPT_STORE")
    BY <1>7 DEF Fill
  <2>3. j.draft = WrittenBundle(source, job[s].plan)
    BY <1>1 DEF JobFields
  <2> HIDE DEF j
  <2>4. CASE Goto(s, "link", j) /\ (job[s].plan.ledger => LedgerMatches(source, job[s].plan))
    <3>1. SafeOrRecorded(source, j.draft)
      BY <1>1, <2>1, <2>3, <2>4, WrittenSafe
    <3> QED
      BY <1>1, <2>1, <2>4, <3>1, ExportSafe DEF ExportSteps
  <2> QED
    BY <1>1, <1>2, <2>1, <2>2, <2>4
<1>8. CASE Link(s)
  <2> DEFINE j == [job[s] EXCEPT !.draft = NoFile]
  <2>1. source' = source /\ SafeOrRecorded(source, job[s].draft)
    BY <1>8 DEF Link, SafeInv
  <2>2. \/ End(s, "ERR_OUTPUT_EXISTS") /\ file' = file
        \/ file' = job[s].draft /\ Goto(s, "finish", j)
    BY <1>8 DEF Link
  <2> HIDE DEF j
  <2>3. CASE file' = job[s].draft /\ Goto(s, "finish", j)
    BY <1>1, <2>1, <2>3, ExportSafe DEF ExportSteps
  <2> QED
    BY <1>1, <1>2, <2>1, <2>2, <2>3
<1>9. CASE DeclareFails(s) \/ CreateFails(s) \/ FillFails(s) \/ LinkFails(s) \/ Finish(s) \/ FinishFails(s)
  <2>1. source' = source /\ file' = file /\ \E result : End(s, result)
    BY <1>9, Zenon DEF DeclareFails, CreateFails, FillFails, LinkFails, Finish, FinishFails
  <2> QED
    BY <1>1, <1>2, <2>1
<1> QED
  BY <1>3, <1>4, <1>5, <1>6, <1>7, <1>8, <1>9 DEF Export

\* Nothing is written at first, and every step keeps the invariant.
LEMMA SafeInit == Init => SafeInv
<1> SUFFICES ASSUME Init PROVE SafeInv
  OBVIOUS
<1>1. source \in Stores /\ file = NoFile /\ \A s \in Services : pc[s] = "idle"
  BY DEF Init
<1>2. HoldsEvents(source)
  BY <1>1, FilesAssumption
<1> QED
  BY <1>1, <1>2 DEF SafeInv
LEMMA SafeNext == ImportInv /\ SafeInv /\ [Next]_vars => SafeInv'
<1> SUFFICES ASSUME ImportInv, SafeInv, [Next]_vars PROVE SafeInv'
  OBVIOUS
<1>1. Typed
  BY DEF ImportInv
<1>2. CASE UNCHANGED vars
  <2>1. source' = source /\ file' = file /\ pc' = pc /\ job' = job
    BY <1>2 DEF vars
  <2> QED
    BY <2>1 DEF SafeInv
<1>3. ASSUME NEW s \in Services, Progress(s) \/ Reindex(s) \/ Crash(s) PROVE SafeInv'
  <2>1. CASE Export(s)
    BY <2>1, ExportKeepsSafe
  <2>2. CASE ~Export(s)
    <3>1. Elsewhere(s)
      BY <1>1, <1>3, <2>2, OtherCalls DEF Progress
    <3> QED
      BY <3>1, ElsewhereSafe
  <2> QED
    BY <2>1, <2>2
<1>4. CASE EngineAppends
  <2>1. file' = file /\ pc' = pc /\ job' = job
    BY <1>4 DEF EngineAppends
  <2>2. source' = source \/ (Grew(source, source') /\ HoldsEvents(source'))
    <3>1. CASE source' = source
      BY <3>1
    <3>2. CASE SourceAppend
      <4>1. PICK r : source' = [source EXCEPT !.ledgers = With(@, r, Seal(r, EventLog(source, r), NewEvent))]
        BY <3>2 DEF SourceAppend
      <4> QED
        BY <1>1, <4>1, SealGrows DEF Typed, SafeInv, SealedIn
    <3> QED
      BY <1>4, <3>1, <3>2 DEF EngineAppends
  <2>3. HoldsEvents(source')
    BY <2>2 DEF SafeInv
  <2>4. /\ \A plan : PlanFits(source, plan) => PlanFits(source', plan)
        /\ \A run : Recorded(source, run) => Recorded(source', run)
        /\ \A bundle : SafeOrRecorded(source, bundle) => SafeOrRecorded(source', bundle)
    BY <1>1, <2>2, GrowthKeeps DEF Typed
  <2> QED
    BY <2>1, <2>3, <2>4 DEF SafeInv
<1> QED
  BY <1>2, <1>3, <1>4, Zenon DEF Next

\* A bundle that was not confirmed as unsafe holds nothing that redaction
\* detects, and an unsafe one is on record, however the ledger grows meanwhile.
THEOREM BundlesSafe == Spec => []BundlesAreSafeOrRecorded
<1>1. SafeInv => BundlesAreSafeOrRecorded
  BY Zenon DEF SafeInv, SafeOrRecorded, BundlesAreSafeOrRecorded, Recorded
<1>2. Spec => []ImportInv
  BY ImportInvariant
<1>3. Init => SafeInv
  BY SafeInit
<1>4. ImportInv /\ SafeInv /\ [Next]_vars => SafeInv'
  BY SafeNext
<1> QED
  BY <1>1, <1>2, <1>3, <1>4, PTL DEF Spec

-----------------------------------------------------------------------------
(* An import that failed leaves nothing: what it has yet to undo, and that the *)
(* rollback comes to all of it.                                              *)

\* The parts of a run in a store, in the order in which an import writes them.
Parts == {"dir", "events", "refs", "record"}
Rank == [dir |-> 1, events |-> 2, refs |-> 3, record |-> 4]
There(st, what, r) ==
  \/ what = "dir" /\ r \in st.dirs
  \/ what = "events" /\ r \in DOMAIN st.ledgers
  \/ what = "refs" /\ RefsOfRun(st.refs, r) # {}
  \/ what = "record" /\ r \in DOMAIN st.records

\* Something of a run that is not visible.
Residue(st, r) == ~There(st, "record", r) /\ \E what \in Parts : There(st, what, r)

\* A rollback removes a part of a run, and comes to the parts of a run latest first.
Undoes(undo, what, r) == \E k \in DOMAIN undo : undo[k].what = what /\ r \in undo[k].runs
Piled(undo) ==
  \A k, m \in DOMAIN undo :
    k < m => \A r \in undo[k].runs \cap undo[m].runs : Rank[undo[m].what] < Rank[undo[k].what]

\* The runs of a bundle are distinct, and the rollback is of those to write.
Stacked(s) ==
  pc[s] \in ImportSteps =>
    /\ Distinct(BundleOf(s).manifest.runs)
    /\ pc[s] \in {"lock", "recheck", "objects", "blobs"} => job[s].undo = <<>>
    /\ Piled(job[s].undo)
    /\ \A k \in DOMAIN job[s].undo :
         /\ job[s].undo[k].runs \subseteq ToWrite(s)
         /\ job[s].undo[k].what # "refs" => \E r \in Runs : job[s].undo[k].runs = {r}

\* How far an import has come, by what it has to undo.
Reached(s) ==
  \A i \in job[s].todo :
    /\ pc[s] \in {"dir", "events"} =>
         /\ i < job[s].at => Undoes(job[s].undo, "events", RunAt(s, i))
         /\ \A what \in Parts :
              Undoes(job[s].undo, what, RunAt(s, i)) =>
                /\ what \in {"dir", "events"}
                /\ i < job[s].at \/ (i = job[s].at /\ pc[s] = "events" /\ what = "dir")
    /\ pc[s] = "events" => RunAt(s, job[s].at) \in store.dirs
    /\ pc[s] \in {"refs", "record", "sync"} => Undoes(job[s].undo, "events", RunAt(s, i))
    /\ pc[s] = "refs" =>
         ~Undoes(job[s].undo, "refs", RunAt(s, i)) /\ ~Undoes(job[s].undo, "record", RunAt(s, i))
    /\ pc[s] \in {"record", "sync"} /\ Undoes(job[s].undo, "record", RunAt(s, i))
         => i < job[s].at \/ (i = job[s].at /\ pc[s] = "sync")

\* Before the first fault nothing has to be undone, the runs that an import leaves
\* alone are still there, and what is there of those it writes is its own.
Faultless(s) ==
  faults = 0 =>
    /\ pc[s] = "undo" => job[s].undo = <<>>
    /\ pc[s] \in ImportSteps =>
         \A i \in DOMAIN BundleOf(s).manifest.runs \ job[s].todo : ~Absent(store, RunAt(s, i))
    /\ pc[s] \in LockedSteps \ {"recheck"} =>
         \A i \in job[s].todo : \A what \in Parts :
           There(store, what, RunAt(s, i)) => Undoes(job[s].undo, what, RunAt(s, i))

\* With one fault at most, an import that writes a run whose lock it holds either
\* found it visible and removes nothing of it, or removes all that is there.
Undoable(s) ==
  faults <= 1 /\ pc[s] \in Writing =>
    \A r \in ToWrite(s) \ died :
      lock[r] = s =>
        \/ There(store, "record", r) /\ \A what \in Parts \ {"dir"} : ~Undoes(job[s].undo, what, r)
        \/ \A what \in Parts : There(store, what, r) => Undoes(job[s].undo, what, r)

\* Whatever there is of a run that is not visible is being written, or undone.
Covered ==
  faults <= 1 =>
    \A r \in Runs \ died :
      /\ Residue(store, r) => \E s \in Services : pc[s] \in Writing /\ r \in ToWrite(s) /\ lock[r] = s
      /\ There(store, "record", r) => There(store, "events", r)

\* A directory is made first and removed last.
DirFirst ==
  \A r \in Runs : There(store, "events", r) \/ There(store, "record", r) => There(store, "dir", r)

Counted == faults \in Nat /\ (died # {} => faults # 0)

UndoInv ==
  /\ Counted /\ DirFirst /\ Covered
  /\ \A s \in Services : Stacked(s) /\ Reached(s) /\ Faultless(s) /\ Undoable(s)

\* A step of s changes nothing of a run whose lock it does not hold.
Confined(s) ==
  \A r \in Runs, what \in Parts : lock[r] # s => (There(store', what, r) <=> There(store, what, r))
LocksOf(s) ==
  \A r \in Runs, t \in Services \ {s} : lock'[r] = t <=> lock[r] = t
\* Nothing is removed before the first fault.
Grows0 ==
  faults' = 0 => \A r \in Runs, what \in Parts : There(store, what, r) => There(store', what, r)
Counts == Counted' /\ faults <= faults' /\ died \subseteq died'

\* To be of a run.
LEMMA WritesRuns ==
  ASSUME ImportInv, NEW s \in Services, pc[s] \in ImportSteps
  PROVE  /\ ToWrite(s) = {RunAt(s, i) : i \in job[s].todo}
         /\ \A i \in job[s].todo : RunAt(s, i) \in Runs /\ RunAt(s, i) \in ToWrite(s)
         /\ \A i \in DOMAIN BundleOf(s).manifest.runs : RunAt(s, i) \in Runs
         /\ ToWrite(s) \subseteq Runs
         /\ job[s].todo \subseteq DOMAIN BundleOf(s).manifest.runs
<1>1. Typed /\ Importing(s)
  BY DEF ImportInv, Sound
<1>2. /\ IsBundle(BundleOf(s))
      /\ \A i \in job[s].todo : RunAt(s, i) \in Runs
      /\ ToWrite(s) = {RunAt(s, i) : i \in job[s].todo}
  BY <1>1, ImportsBundle
<1>3. \A i \in DOMAIN BundleOf(s).manifest.runs : RunAt(s, i) \in Runs
  BY <1>2 DEF IsBundle, RunAt
<1> QED
  BY <1>1, <1>2, <1>3 DEF Importing

\* The writing steps are of imports.
LEMMA WritingSteps ==
  /\ Writing \subseteq ImportSteps
  /\ "idle" \notin ImportSteps /\ "dead" \notin ImportSteps
  /\ \A step \in ExportSteps \cup ReindexSteps : step \notin ImportSteps
BY DEF Writing, ImportSteps, LockedSteps, ExportSteps, ReindexSteps

\* A run that is absent has no part.
LEMMA AbsentParts ==
  ASSUME NEW st, NEW r
  PROVE  Absent(st, r) <=> ~There(st, "dir", r) /\ ~There(st, "refs", r)
BY DEF Absent, There

\* What a step of s does to the others.
LEMMA OthersUndo ==
  ASSUME ImportInv, UndoInv, NEW s \in Services, Moved(s), FileStays, LocksOf(s), Confined(s), Counts, Grows0,
         NEW t \in Services \ {s}
  PROVE  /\ Stacked(t)' /\ Reached(t)' /\ Faultless(t)' /\ Undoable(t)'
         /\ pc[t] \in ImportSteps => ToWrite(t)' = ToWrite(t)
<1>1. pc'[t] = pc[t] /\ job'[t] = job[t]
  BY DEF Moved
<1>2. CASE pc[t] \notin ImportSteps
  BY <1>1, <1>2, WritingSteps
     DEF Stacked, Reached, Faultless, Undoable, ImportSteps, LockedSteps
<1>3. CASE pc[t] \in ImportSteps
  <2>1. Typed /\ Importing(t) /\ Holding(t) /\ Stacked(t) /\ Reached(t) /\ Faultless(t) /\ Undoable(t)
    BY DEF ImportInv, Sound, UndoInv
  <2>2. BundleOf(t)' = BundleOf(t)
    BY <1>1, <1>3, <2>1, BundleStays
  <2>3. (\A i : RunAt(t, i)' = RunAt(t, i)) /\ ToWrite(t)' = ToWrite(t)
    BY <1>1, <2>2 DEF RunAt, ToWrite
  <2>4. /\ ToWrite(t) = {RunAt(t, i) : i \in job[t].todo}
        /\ \A i \in job[t].todo : RunAt(t, i) \in Runs
        /\ \A i \in DOMAIN BundleOf(t).manifest.runs : RunAt(t, i) \in Runs
        /\ ToWrite(t) \subseteq Runs
    BY <1>3, WritesRuns
  <2>5. \A r \in Runs, what \in Parts : lock[r] = t => (There(store', what, r) <=> There(store, what, r))
    BY DEF Confined
  <2>6. pc[t] \in LockedSteps => \A i \in job[t].todo : lock[RunAt(t, i)] = t
    BY <2>1 DEF Holding
  <2>7. Stacked(t)'
    BY <1>1, <2>1, <2>2, <2>3 DEF Stacked
  <2>8. Reached(t)'
    <3>1. pc[t] = "events" => (RunAt(t, job[t].at) \in store'.dirs <=> RunAt(t, job[t].at) \in store.dirs)
      <4>1. job[t].at \in job[t].todo
        BY <1>3, <2>1 DEF Importing
      <4>2. pc[t] = "events" => lock[RunAt(t, job[t].at)] = t /\ RunAt(t, job[t].at) \in Runs
        BY <2>4, <2>6, <4>1 DEF LockedSteps
      <4> QED
        BY <2>5, <4>2 DEF There, Parts
    <3> QED
      BY <1>1, <2>1, <2>3, <3>1 DEF Reached
  <2>9. Faultless(t)'
    <3> SUFFICES ASSUME faults' = 0 PROVE Faultless(t)'
      BY DEF Faultless
    <3>1. faults = 0
      BY DEF Counts, Counted, UndoInv
    <3>2. \A i \in DOMAIN BundleOf(t).manifest.runs \ job[t].todo : ~Absent(store', RunAt(t, i))
      <4> TAKE i \in DOMAIN BundleOf(t).manifest.runs \ job[t].todo
      <4>1. ~Absent(store, RunAt(t, i))
        BY <1>3, <2>1, <3>1 DEF Faultless
      <4> QED
        BY <2>4, <4>1, AbsentParts DEF Grows0, Parts
    <3>3. pc[t] \in LockedSteps \ {"recheck"} =>
            \A i \in job[t].todo : \A what \in Parts :
              There(store', what, RunAt(t, i)) => Undoes(job[t].undo, what, RunAt(t, i))
      BY <2>1, <2>4, <2>5, <2>6, <3>1 DEF Faultless
    <3>4. pc[t] = "undo" => job[t].undo = <<>>
      BY <2>1, <3>1 DEF Faultless
    <3> QED
      BY <1>1, <2>2, <2>3, <3>2, <3>3, <3>4 DEF Faultless
  <2>10. Undoable(t)'
    <3> SUFFICES ASSUME faults' <= 1, pc[t] \in Writing, NEW r \in ToWrite(t) \ died', lock'[r] = t
                 PROVE  \/ There(store', "record", r) /\ \A what \in Parts \ {"dir"} : ~Undoes(job[t].undo, what, r)
                        \/ \A what \in Parts : There(store', what, r) => Undoes(job[t].undo, what, r)
      BY <1>1, <2>3 DEF Undoable
    <3>1. faults <= 1 /\ r \in ToWrite(t) \ died /\ r \in Runs /\ lock[r] = t
      BY <2>4 DEF Counts, Counted, UndoInv, LocksOf
    <3>2. \/ There(store, "record", r) /\ \A what \in Parts \ {"dir"} : ~Undoes(job[t].undo, what, r)
          \/ \A what \in Parts : There(store, what, r) => Undoes(job[t].undo, what, r)
      BY <2>1, <3>1 DEF Undoable
    <3> QED
      BY <2>5, <3>1, <3>2 DEF Parts
  <2> QED
    BY <2>3, <2>7, <2>8, <2>9, <2>10
<1> QED
  BY <1>2, <1>3

\* What a step of s has to satisfy.
LEMMA UndoKept ==
  ASSUME ImportInv, UndoInv, NEW s \in Services, Moved(s), FileStays, LocksOf(s), Confined(s), Counts, Grows0,
         DirFirst', Stacked(s)', Reached(s)', Faultless(s)', Undoable(s)',
         \A r \in Runs \ died' : lock[r] = s /\ faults' <= 1 =>
           /\ Residue(store', r) => pc'[s] \in Writing /\ r \in ToWrite(s)' /\ lock'[r] = s
           /\ There(store', "record", r) => There(store', "events", r)
  PROVE  UndoInv'
<1>1. \A t \in Services : Stacked(t)' /\ Reached(t)' /\ Faultless(t)' /\ Undoable(t)'
  BY OthersUndo
<1>2. Covered'
  <2> SUFFICES ASSUME faults' <= 1, NEW r \in Runs \ died'
               PROVE  /\ Residue(store', r) =>
                           \E t \in Services : pc'[t] \in Writing /\ r \in ToWrite(t)' /\ lock'[r] = t
                      /\ There(store', "record", r) => There(store', "events", r)
    BY DEF Covered, Residue, There
  <2>1. CASE lock[r] = s
    BY <2>1
  <2>2. CASE lock[r] # s
    <3>1. \A what \in Parts : There(store', what, r) <=> There(store, what, r)
      BY <2>2 DEF Confined
    <3>2. faults <= 1 /\ r \in Runs \ died
      BY DEF Counts, Counted, UndoInv
    <3>3. /\ Residue(store, r) => \E t \in Services : pc[t] \in Writing /\ r \in ToWrite(t) /\ lock[r] = t
          /\ There(store, "record", r) => There(store, "events", r)
      BY <3>2 DEF UndoInv, Covered
    <3>4. There(store', "record", r) => There(store', "events", r)
      BY <3>1, <3>3 DEF Parts
    <3>5. ASSUME Residue(store', r)
          PROVE  \E t \in Services : pc'[t] \in Writing /\ r \in ToWrite(t)' /\ lock'[r] = t
      <4>1. Residue(store, r)
        BY <3>1, <3>5 DEF Residue, Parts
      <4>2. PICK t \in Services : pc[t] \in Writing /\ r \in ToWrite(t) /\ lock[r] = t
        BY <3>3, <4>1
      <4>3. t \in Services \ {s}
        BY <2>2, <4>2
      <4>4. pc'[t] = pc[t] /\ ToWrite(t)' = ToWrite(t) /\ lock'[r] = t
        BY <4>2, <4>3, OthersUndo, WritingSteps DEF Moved, LocksOf
      <4> QED
        BY <4>2, <4>4
    <3> QED
      BY <3>4, <3>5
  <2> QED
    BY <2>1, <2>2
<1> QED
  BY <1>1, <1>2 DEF UndoInv, Counts

\* Who moves, by the types after the step.
Shifts(s) ==
  \/ \E step, j : Goto(s, step, j)
  \/ \E step : Go(s, step) /\ job' = job
  \/ \E j : pc' = pc /\ job' = [job EXCEPT ![s] = j]

\* It is s that moves.
LEMMA ShiftsMove ==
  ASSUME Typed, Typed', NEW s \in Services, Shifts(s)
  PROVE  Moved(s)
<1>1. /\ pc' \in [Services -> PcSteps] /\ DOMAIN job' = Services
      /\ \A t \in Services : DOMAIN job'[t] = JobFields
  BY DEF Typed, PcSteps
<1>2. ASSUME NEW t \in Services \ {s} PROVE pc'[t] = pc[t] /\ job'[t] = job[t]
  BY DEF Shifts, Goto, Go, Typed
<1> QED
  BY <1>1, <1>2 DEF Moved

\* The locks of the others, whatever s takes or lets go of.
LEMMA OwnLocks ==
  ASSUME Typed, NEW s \in Services,
         \/ lock' = lock \/ lock' = Unlock(s)
         \/ \E r \in Runs : lock[r] = NoService /\ lock' = [lock EXCEPT ![r] = s]
  PROVE  LocksOf(s)
BY ServiceAssumption DEF Typed, LocksOf, Unlock

\* The faults and deaths are counted.
LEMMA Counting ==
  ASSUME UndoInv,
         \/ faults' = faults /\ died' = died
         \/ Fault /\ died \subseteq died'
  PROVE  Counts /\ (faults' # faults => faults' # 0)
BY DEF UndoInv, Counted, Counts, Fault

\* Nothing of the store's runs changes.
SameRuns == \A r \in Runs, what \in Parts : There(store', what, r) <=> There(store, what, r)

\* A store that stays has the same parts of every run.
LEMMA SameStore == store' = store => SameRuns
BY DEF SameRuns

\* Then nothing is removed, and nothing is added.
LEMMA SameRunsKeep ==
  ASSUME UndoInv, SameRuns
  PROVE  Grows0 /\ DirFirst' /\ \A s : Confined(s)
BY DEF SameRuns, Grows0, DirFirst, UndoInv, Confined, Parts

\* Unless it is writing a run, a service has no part of it to account for.
LEMMA NoResidue ==
  ASSUME UndoInv, faults <= 1, NEW s \in Services, NEW r \in Runs \ died,
         lock[r] \notin Services \ {s}, pc[s] \notin Writing \/ r \notin ToWrite(s)
  PROVE  ~Residue(store, r) /\ (There(store, "record", r) => There(store, "events", r))
BY DEF UndoInv, Covered

\* A service is not in an import, or its process died.
LEMMA OutsideUndo ==
  ASSUME ImportInv, UndoInv, NEW s \in Services, Moved(s), FileStays, LocksOf(s), Counts, store' = store,
         pc'[s] \notin ImportSteps, pc[s] \in Writing => ToWrite(s) \subseteq died'
  PROVE  UndoInv'
<1>1. SameRuns /\ Confined(s) /\ Grows0 /\ DirFirst'
  BY SameStore, SameRunsKeep
<1>2. Stacked(s)' /\ Reached(s)' /\ Faultless(s)' /\ Undoable(s)'
  BY DEF Stacked, Reached, Faultless, Undoable, ImportSteps, LockedSteps, Writing
<1>3. ASSUME NEW r \in Runs \ died', lock[r] = s, faults' <= 1
      PROVE  ~Residue(store', r) /\ (There(store', "record", r) => There(store', "events", r))
  <2>1. faults <= 1 /\ r \in Runs \ died
    BY <1>3 DEF Counts, Counted, UndoInv
  <2> QED
    BY <1>3, <2>1, NoResidue
<1> QED
  BY <1>1, <1>2, <1>3, UndoKept

\* A service that has written nothing yet.
LEMMA NothingUndo ==
  ASSUME ImportInv, UndoInv, NEW s \in Services, Moved(s), FileStays, LocksOf(s), Counts, SameRuns,
         \A r \in Runs : lock[r] = s => lock'[r] = s,
         \A r \in Runs : lock'[r] = s => lock[r] \in {s, NoService},
         pc[s] \notin Writing,
         pc'[s] \in {"lock", "recheck", "objects", "blobs", "dir", "undo"},
         job'[s].undo = <<>>,
         Distinct(BundleOf(s)'.manifest.runs),
         \A i \in ToWrite(s)' : i \in Runs,
         pc'[s] = "dir" => \A i \in job'[s].todo : ~(i < job'[s].at),
         faults' = 0 =>
           /\ \A i \in DOMAIN BundleOf(s)'.manifest.runs \ job'[s].todo : ~Absent(store', RunAt(s, i)')
           /\ pc'[s] \in {"objects", "blobs", "dir"} =>
                \A i \in job'[s].todo : \A what \in Parts : ~There(store', what, RunAt(s, i)')
  PROVE  UndoInv'
<1>1. Confined(s) /\ Grows0 /\ DirFirst'
  BY SameRunsKeep
<1>2. /\ \A what, r : ~Undoes(<<>>, what, r)
      /\ Piled(<<>>)
  BY DEF Undoes, Piled
<1>3. Stacked(s)'
  BY <1>2 DEF Stacked
<1>4. Reached(s)'
  BY <1>2 DEF Reached
<1>5. Faultless(s)'
  BY <1>2 DEF Faultless, LockedSteps
<1>6. ASSUME NEW r \in Runs \ died', lock[r] \in {s, NoService}, faults' <= 1
      PROVE  ~Residue(store', r) /\ (There(store', "record", r) => There(store', "events", r))
  <2>1. faults <= 1 /\ r \in Runs \ died
    BY <1>6 DEF Counts, Counted, UndoInv
  <2>2. ~Residue(store, r) /\ (There(store, "record", r) => There(store, "events", r))
    BY <1>6, <2>1, NoResidue, ServiceAssumption
  <2> QED
    BY <2>2 DEF SameRuns, Residue, Parts
<1>7. Undoable(s)'
  <2> SUFFICES ASSUME faults' <= 1, NEW r \in ToWrite(s)' \ died', lock'[r] = s
               PROVE  There(store', "record", r) \/ \A what \in Parts : ~There(store', what, r)
    BY <1>2 DEF Undoable
  <2>1. r \in Runs \ died' /\ lock[r] \in {s, NoService}
    OBVIOUS
  <2> QED
    BY <1>6, <2>1 DEF Residue
<1> QED
  BY <1>1, <1>3, <1>4, <1>5, <1>6, <1>7, UndoKept

\* What the calls that are not imports, and the end of an import, have in common.
LEMMA OutsideShape ==
  ASSUME Typed, NEW s \in Services,
         \/ Export(s) \/ Release(s)
         \/ Reindex(s) \/ List(s) \/ ReadRun(s) \/ Load(s) \/ Rebuild(s) \/ ReindexFails(s)
  PROVE  /\ store' = store /\ FileStays
         /\ (faults' = faults /\ died' = died) \/ (Fault /\ died' = died)
         /\ \/ lock' = lock \/ lock' = Unlock(s)
            \/ \E r : lock[r] = NoService /\ lock' = [lock EXCEPT ![r] = s]
         /\ pc[s] \notin Writing
         /\ \E step \in {"idle"} \cup ExportSteps \cup ReindexSteps :
              (\E j : Goto(s, step, j)) \/ (Go(s, step) /\ job' = job)
<1> DEFINE Steps == {"idle"} \cup ExportSteps \cup ReindexSteps
           Gone == \E step \in Steps : (\E j : Goto(s, step, j)) \/ (Go(s, step) /\ job' = job)
           Frees == lock' = lock \/ lock' = Unlock(s)
                    \/ \E r : lock[r] = NoService /\ lock' = [lock EXCEPT ![r] = s]
           Counted1 == (faults' = faults /\ died' = died) \/ (Fault /\ died' = died)
<1>1. /\ {"idle", "confirm", "declare", "create", "fill", "link", "finish"} \subseteq Steps
      /\ {"list", "readrun", "load", "rebuild"} \subseteq Steps
      /\ \A step \in Steps : step \notin Writing
      /\ "release" \notin Writing
  BY DEF ExportSteps, ReindexSteps, Writing
<1>2. ASSUME NEW result, End(s, result) PROVE Gone
  BY <1>1, <1>2 DEF End
<1>3. ASSUME NEW kind, NEW j, NEW step \in Steps, Begin(s, kind, j, step) PROVE Gone
  BY <1>3 DEF Begin
<1>4. ASSUME NEW result, ReindexEnds(s, result) PROVE Gone /\ Frees
  BY <1>1, <1>4 DEF ReindexEnds, End
<1>5. CASE Export(s)
  <2>1. store' = store /\ lock' = lock /\ FileStays
    BY <1>5 DEF Export, Plan, Answer, Declare, DeclareFails, Create, CreateFails, Fill, FillFails, Link, LinkFails,
         Finish, FinishFails, FileStays
  <2>2. Counted1
    BY <1>5, Zenon DEF Export, Plan, Answer, Declare, DeclareFails, Create, CreateFails, Fill, FillFails, Link,
         LinkFails, Finish, FinishFails, counters
  <2>3. pc[s] \in {"idle"} \cup ExportSteps
    BY <1>5 DEF Export, Plan, MayCall, Answer, Declare, DeclareFails, Create, CreateFails, Fill, FillFails, Link,
         LinkFails, Finish, FinishFails, ExportSteps
  <2>4. Gone
    <3>1. CASE Plan(s)
      BY <1>1, <1>3, <3>1 DEF Plan
    <3>2. CASE Answer(s)
      BY <1>1, <1>2, <3>2 DEF Answer
    <3>3. CASE Declare(s)
      BY <1>1, <1>2, <3>3 DEF Declare
    <3>4. CASE Create(s) \/ Fill(s) \/ Link(s)
      BY <1>1, <1>2, <3>4 DEF Create, Fill, Link
    <3>5. CASE DeclareFails(s) \/ CreateFails(s) \/ FillFails(s) \/ LinkFails(s) \/ Finish(s) \/ FinishFails(s)
      BY <1>2, <3>5 DEF DeclareFails, CreateFails, FillFails, LinkFails, Finish, FinishFails
    <3> QED
      BY <1>5, <3>1, <3>2, <3>3, <3>4, <3>5 DEF Export
  <2> QED
    BY <1>1, <2>1, <2>2, <2>3, <2>4
<1>6. CASE Release(s)
  <2>1. /\ store' = store /\ file' = file /\ lock' = Unlock(s) /\ pc[s] = "release"
        /\ faults' = faults /\ died' = died
    BY <1>6 DEF Release, counters
  <2>2. Gone
    BY <1>1, <1>2, <1>6 DEF Release
  <2> QED
    BY <1>1, <2>1, <2>2 DEF FileStays
<1>7. CASE Reindex(s) \/ List(s) \/ ReadRun(s) \/ Load(s) \/ Rebuild(s) \/ ReindexFails(s)
  <2>1. store' = store /\ file' = file
    BY <1>7 DEF Reindex, List, ReadRun, Load, Rebuild, ReindexFails
  <2>2. Counted1
    BY <1>7 DEF Reindex, List, ReadRun, Load, Rebuild, ReindexFails, counters
  <2>3. pc[s] \in Steps
    BY <1>1, <1>7 DEF Reindex, MayCall, List, ReadRun, Load, Rebuild, ReindexFails
  <2>4. Gone /\ Frees
    <3>1. CASE Reindex(s)
      BY <1>1, <1>3, <3>1 DEF Reindex
    <3>2. CASE List(s) \/ ReadRun(s)
      BY <1>1, <3>2 DEF List, ReadRun
    <3>3. CASE Load(s)
      <4>1. \/ \E result : ReindexEnds(s, result)
            \/ /\ \E r : lock[r] = NoService /\ lock' = [lock EXCEPT ![r] = s]
               /\ \E j : Goto(s, "readrun", j)
        BY <3>3 DEF Load
      <4> QED
        BY <1>1, <1>4, <4>1
    <3>4. CASE Rebuild(s) \/ ReindexFails(s)
      BY <1>4, <3>4 DEF Rebuild, ReindexFails
    <3> QED
      BY <1>7, <3>1, <3>2, <3>3, <3>4
  <2> QED
    BY <1>1, <2>1, <2>2, <2>3, <2>4 DEF FileStays
<1> QED
  BY <1>5, <1>6, <1>7

\* They keep the invariant.
LEMMA OutsideKeeps ==
  ASSUME ImportInv, ImportInv', UndoInv, NEW s \in Services,
         \/ Export(s) \/ Release(s) \/ Crash(s)
         \/ Reindex(s) \/ List(s) \/ ReadRun(s) \/ Load(s) \/ Rebuild(s) \/ ReindexFails(s)
  PROVE  UndoInv'
<1>1. Typed /\ Typed'
  BY DEF ImportInv
<1>2. CASE Crash(s)
  <2>1. /\ Go(s, "dead") /\ job' = job /\ store' = store /\ file' = file /\ lock' = Unlock(s)
        /\ Fault /\ died \subseteq died' /\ (pc[s] \in Writing => ToWrite(s) \subseteq died')
    BY <1>2 DEF Crash
  <2>2. Moved(s) /\ pc'[s] = "dead"
    BY <1>1, <2>1, Goes DEF PcSteps
  <2>3. LocksOf(s) /\ Counts /\ FileStays
    BY <1>1, <2>1, OwnLocks, Counting DEF FileStays
  <2> QED
    BY <2>1, <2>2, <2>3, OutsideUndo, WritingSteps
<1>3. CASE ~Crash(s)
  <2>1. /\ store' = store /\ FileStays
        /\ (faults' = faults /\ died' = died) \/ (Fault /\ died' = died)
        /\ \/ lock' = lock \/ lock' = Unlock(s)
           \/ \E r : lock[r] = NoService /\ lock' = [lock EXCEPT ![r] = s]
        /\ pc[s] \notin Writing
    BY <1>1, <1>3, OutsideShape
  <2>2. PICK step \in {"idle"} \cup ExportSteps \cup ReindexSteps :
              (\E j : Goto(s, step, j)) \/ (Go(s, step) /\ job' = job)
    BY <1>1, <1>3, OutsideShape
  <2>3. Moved(s)
    BY <1>1, <2>2, ShiftsMove DEF Shifts
  <2>4. pc'[s] = step /\ step \notin ImportSteps
    BY <1>1, <2>2, WritingSteps DEF Goto, Go, Typed
  <2>5. LocksOf(s)
    <3>1. ASSUME NEW r, lock[r] = NoService, lock' = [lock EXCEPT ![r] = s] PROVE LocksOf(s)
      <4>1. CASE r \in Runs
        BY <1>1, <3>1, <4>1, OwnLocks
      <4>2. CASE r \notin Runs
        <5>1. lock' = lock
          BY <1>1, <3>1, <4>2 DEF Typed
        <5> QED
          BY <1>1, <5>1, OwnLocks
      <4> QED
        BY <4>1, <4>2
    <3> QED
      BY <1>1, <2>1, <3>1, OwnLocks
  <2>6. Counts
    BY <2>1, Counting
  <2> QED
    BY <2>1, <2>3, <2>4, <2>5, <2>6, OutsideUndo
<1> QED
  BY <1>2, <1>3

\* An import that continues has the bundle and the runs that it had.
LEMMA SameBundle ==
  ASSUME ImportInv, NEW s \in Services, pc[s] \in ImportSteps, file' = file,
         job'[s].path = job[s].path, job'[s].todo = job[s].todo
  PROVE  /\ BundleOf(s)' = BundleOf(s) /\ ToWrite(s)' = ToWrite(s)
         /\ \A i : RunAt(s, i)' = RunAt(s, i)
<1>1. BundleOf(s)' = BundleOf(s)
  BY BundleStays DEF ImportInv, Sound, FileStays
<1> QED
  BY <1>1 DEF ToWrite, RunAt

\* An import begins.
LEMMA ImportUndo ==
  ASSUME ImportInv, ImportInv', UndoInv, NEW s \in Services, Import(s)
  PROVE  UndoInv'
<1>1. Typed /\ Typed' /\ pc[s] = "idle" /\ (file = NoFile \/ IsBundle(file))
  BY DEF ImportInv, Typed, Import, MayCall
<1>2. file' = file /\ store' = store /\ lock' = lock /\ faults' = faults /\ died' = died
  BY DEF Import
<1>3. PICK path \in DOMAIN Received \cup (IF file = NoFile THEN {} ELSE {OutPath}) :
        LET bundle == At(path)
            verdict == Verify(bundle, store)
            failed == [NoJob EXCEPT !.runs = ToSet(bundle.manifest.runs)]
            todo == RunsToWrite(bundle, store)
        IN  \/ \E result : Begin(s, "import", [failed EXCEPT !.result = result], "idle")
            \/ /\ verdict = "ok"
               /\ Begin(s, "import", [failed EXCEPT !.path = path, !.todo = todo, !.at = Min(todo)], "lock")
  BY DEF Import
<1> DEFINE bundle == At(path)
           todo == RunsToWrite(bundle, store)
           failed == [NoJob EXCEPT !.runs = ToSet(bundle.manifest.runs)]
           j == [[failed EXCEPT !.path = path, !.todo = todo, !.at = Min(todo)] EXCEPT !.kind = "import"]
<1>4. LocksOf(s) /\ Counts /\ FileStays /\ SameRuns
  BY <1>1, <1>2, OwnLocks, Counting, SameStore DEF FileStays
<1>5. "idle" \notin Writing /\ "idle" \notin ImportSteps
  BY WritingSteps DEF Writing
<1>6. ASSUME NEW e, Goto(s, "idle", e) PROVE UndoInv'
  <2>1. Moved(s) /\ pc'[s] = "idle"
    <3>1. Moved(s)
      BY <1>1, <1>6, ShiftsMove DEF Shifts
    <3> QED
      BY <1>1, <1>6, <3>1 DEF Goto, Go, Typed
  <2> QED
    BY <1>1, <1>2, <1>4, <1>5, <2>1, OutsideUndo
<1>7. ASSUME Verify(bundle, store) = "ok", Goto(s, "lock", j)
      PROVE  UndoInv'
  <2>1. IsBundle(bundle)
    BY <1>1, ServiceAssumption, FilesAssumption DEF At
  <2>2. Distinct(bundle.manifest.runs)
    BY <1>7 DEF Verify
  <2>3. j.path = path /\ j.todo = todo /\ j.undo = <<>>
    BY DEF NoJob
  <2>4. todo = {i \in DOMAIN bundle.manifest.runs : Absent(store, bundle.manifest.runs[i])}
    BY DEF RunsToWrite
  <2> HIDE DEF j, todo
  <2>5. Moved(s) /\ pc'[s] = "lock" /\ job'[s] = j
    <3>1. Moved(s)
      BY <1>1, <1>7, ShiftsMove DEF Shifts
    <3> QED
      BY <1>1, <1>7, <3>1 DEF Goto, Go, Typed
  <2>6. BundleOf(s)' = bundle
    BY <1>2, <2>3, <2>5 DEF BundleOf, At
  <2> HIDE DEF bundle
  <2>7. ToWrite(s)' \subseteq Runs /\ \A i : RunAt(s, i)' = bundle.manifest.runs[i]
    BY <2>1, <2>3, <2>4, <2>5, <2>6 DEF ToWrite, RunAt, IsBundle
  <2>8. \A i \in DOMAIN BundleOf(s)'.manifest.runs \ job'[s].todo : ~Absent(store', RunAt(s, i)')
    BY <1>2, <2>3, <2>4, <2>5, <2>6, <2>7
  <2>9. /\ pc'[s] \notin {"objects", "blobs", "dir"} /\ pc'[s] \in {"lock", "recheck", "objects", "blobs", "dir", "undo"}
        /\ job'[s].undo = <<>> /\ Distinct(BundleOf(s)'.manifest.runs) /\ pc[s] \notin Writing
        /\ \A r \in Runs : lock[r] = s => lock'[r] = s
        /\ \A r \in Runs : lock'[r] = s => lock[r] \in {s, NoService}
    BY <1>1, <1>2, <1>5, <2>2, <2>3, <2>5, <2>6
  <2> QED
    BY <1>4, <2>5, <2>7, <2>8, <2>9, NothingUndo
<1> QED
  BY <1>3, <1>6, <1>7 DEF Begin

\* An import has written nothing yet, but objects and blobs.
LEMMA EarlyUndo ==
  ASSUME ImportInv, ImportInv', UndoInv, NEW s \in Services, pc[s] \in {"lock", "recheck", "objects", "blobs"},
         Shifts(s), pc'[s] \in {"lock", "recheck", "objects", "blobs", "dir", "undo"},
         job'[s].path = job[s].path, job'[s].todo = job[s].todo, job'[s].undo = job[s].undo, file' = file,
         pc'[s] = "dir" => pc[s] = "blobs" /\ job'[s].at = job[s].at,
         LocksOf(s), Counts, SameRuns,
         \A r \in Runs : lock[r] = s => lock'[r] = s,
         \A r \in Runs : lock'[r] = s => lock[r] \in {s, NoService},
         faults = 0 /\ pc'[s] \in {"objects", "blobs", "dir"} =>
           \/ pc[s] \in {"objects", "blobs"}
           \/ \A i \in job[s].todo : \A what \in Parts : ~There(store, what, RunAt(s, i))
  PROVE  UndoInv'
<1>1. /\ Typed /\ Typed' /\ Importing(s) /\ Stacked(s) /\ Faultless(s) /\ FileStays
      /\ pc[s] \in ImportSteps /\ pc[s] \notin Writing
  BY DEF ImportInv, Sound, UndoInv, FileStays, ImportSteps, LockedSteps, Writing
<1>2. /\ BundleOf(s)' = BundleOf(s) /\ ToWrite(s)' = ToWrite(s)
      /\ \A i : RunAt(s, i)' = RunAt(s, i)
  BY <1>1, SameBundle
<1>3. /\ ToWrite(s) \subseteq Runs
      /\ \A i \in job[s].todo : RunAt(s, i) \in Runs
      /\ \A i \in DOMAIN BundleOf(s).manifest.runs : RunAt(s, i) \in Runs
  BY <1>1, WritesRuns
<1>4. Moved(s)
  BY <1>1, ShiftsMove
<1>5. Distinct(BundleOf(s)'.manifest.runs) /\ job'[s].undo = <<>>
  BY <1>1, <1>2 DEF Stacked
<1>6. pc'[s] = "dir" => \A i \in job'[s].todo : ~(i < job'[s].at)
  <2>1. pc'[s] = "dir" => \A i \in job[s].todo : job[s].at <= i
    BY <1>1 DEF Importing
  <2> QED
    BY <1>1, <2>1, Positions
<1>7. ASSUME faults' = 0
      PROVE  /\ \A i \in DOMAIN BundleOf(s)'.manifest.runs \ job'[s].todo : ~Absent(store', RunAt(s, i)')
             /\ pc'[s] \in {"objects", "blobs", "dir"} =>
                  \A i \in job'[s].todo : \A what \in Parts : ~There(store', what, RunAt(s, i)')
  <2>1. faults = 0
    BY <1>7 DEF Counts, Counted, UndoInv
  <2>2. \A i \in DOMAIN BundleOf(s).manifest.runs \ job[s].todo : ~Absent(store', RunAt(s, i))
    <3> TAKE i \in DOMAIN BundleOf(s).manifest.runs \ job[s].todo
    <3>1. ~Absent(store, RunAt(s, i)) /\ RunAt(s, i) \in Runs
      BY <1>1, <1>3, <2>1 DEF Faultless
    <3> QED
      BY <3>1, AbsentParts DEF SameRuns, Parts
  <2>3. ASSUME pc'[s] \in {"objects", "blobs", "dir"}
        PROVE  \A i \in job[s].todo : \A what \in Parts : ~There(store', what, RunAt(s, i))
    <3>1. \A i \in job[s].todo : \A what \in Parts : ~There(store, what, RunAt(s, i))
      <4>1. CASE pc[s] \in {"objects", "blobs"}
        <5>1. pc[s] \in LockedSteps \ {"recheck"} /\ \A what, r : ~Undoes(job[s].undo, what, r)
          BY <1>1, <4>1 DEF LockedSteps, Stacked, Undoes
        <5> QED
          BY <1>1, <2>1, <5>1 DEF Faultless
      <4> QED
        BY <2>1, <2>3, <4>1
    <3> QED
      BY <1>3, <3>1 DEF SameRuns
  <2> QED
    BY <1>2, <2>2, <2>3
<1>8. \A i \in ToWrite(s)' : i \in Runs
  BY <1>2, <1>3
<1> QED
  BY <1>1, <1>4, <1>5, <1>6, <1>7, <1>8, NothingUndo

\* Blobs and objects are of no run.
LEMMA NoRuns ==
  ASSUME IsStore(store), NEW x,
         \/ store' = store \/ store' = [store EXCEPT !.objects = x] \/ store' = [store EXCEPT !.blobs = x]
  PROVE  SameRuns
<1>1. DOMAIN store = {"dirs", "records", "ledgers", "refs", "blobs", "objects"}
  BY DEF IsStore, EmptyStore
<1>2. /\ store'.dirs = store.dirs /\ store'.records = store.records
      /\ store'.ledgers = store.ledgers /\ store'.refs = store.refs
  BY <1>1
<1> QED
  BY <1>2 DEF SameRuns, There

\* The runs to write that are absent before the first fault are all of them, if they
\* are as many as they were.
LEMMA AllAbsent ==
  ASSUME ImportInv, UndoInv, NEW s \in Services, pc[s] = "recheck", faults = 0,
         Cardinality(RunsToWrite(BundleOf(s), store)) = Cardinality(job[s].todo)
  PROVE  \A i \in job[s].todo : \A what \in Parts : ~There(store, what, RunAt(s, i))
<1> DEFINE W == RunsToWrite(BundleOf(s), store)
           todo == job[s].todo
<1>1. /\ Typed /\ Importing(s) /\ Faultless(s) /\ pc[s] \in ImportSteps
  BY DEF ImportInv, Sound, UndoInv, ImportSteps, LockedSteps
<1>2. /\ todo \subseteq DOMAIN BundleOf(s).manifest.runs
      /\ \A i \in todo : RunAt(s, i) \in Runs
      /\ IsBundle(BundleOf(s))
  BY <1>1, WritesRuns, ImportsBundle
<1>3. IsFiniteSet(todo)
  <2> DEFINE D == DOMAIN BundleOf(s).manifest.runs
             n == Len(BundleOf(s).manifest.runs)
  <2>1. D = 1..n /\ n \in Nat
    BY <1>2 DEF IsBundle
  <2> HIDE DEF D, n
  <2>2. IsFiniteSet(D)
    BY <2>1, FS_Interval
  <2> QED
    BY <1>2, <2>2, FS_Subset DEF D
<1>4. W \subseteq todo
  <2>1. \A i \in DOMAIN BundleOf(s).manifest.runs \ todo : ~Absent(store, RunAt(s, i))
    BY <1>1 DEF Faultless
  <2> QED
    BY <2>1 DEF RunsToWrite, RunAt
<1>5. W = todo
  <2> HIDE DEF W, todo
  <2>1. Cardinality(W) = Cardinality(todo)
    BY DEF W, todo
  <2> QED
    BY <1>3, <1>4, <2>1, FS_Subset
<1>6. \A i \in todo : Absent(store, RunAt(s, i))
  BY <1>5 DEF RunsToWrite, RunAt
<1>7. \A r \in Runs : Absent(store, r) => \A what \in Parts : ~There(store, what, r)
  BY AbsentParts DEF UndoInv, DirFirst, Parts
<1> QED
  BY <1>2, <1>6, <1>7

\* The steps up to the first write of a run.
LEMMA EarlySteps ==
  ASSUME ImportInv, ImportInv', UndoInv, NEW s \in Services,
         \/ Lock(s) \/ Recheck(s)
         \/ WriteObjects(s) \/ WriteObjectsFails(s) \/ WriteBlobs(s) \/ WriteBlobsFails(s)
         \/ WriteFails(s, "lock") \/ WriteFails(s, "recheck")
  PROVE  UndoInv'
<1>1. /\ Typed /\ Typed' /\ IsStore(store) /\ DOMAIN job[s] = JobFields
      /\ "undo" \in PcSteps /\ {"lock", "recheck", "objects", "blobs", "dir"} \subseteq PcSteps
  BY DEF ImportInv, Typed, PcSteps, ImportSteps, LockedSteps
<1>2. /\ file' = file /\ pc[s] \in {"lock", "recheck", "objects", "blobs"}
      /\ (faults' = faults /\ died' = died) \/ (Fault /\ died' = died)
      /\ ~Lock(s) => lock' = lock
  BY DEF Lock, Recheck, WriteObjects, WriteObjectsFails, WriteBlobs, WriteBlobsFails, WriteFails, counters
<1>3. Counts
  BY <1>2, Counting
<1>4. SameRuns
  <2>1. \/ store' = store
        \/ \E x : store' = [store EXCEPT !.objects = x]
        \/ \E x : store' = [store EXCEPT !.blobs = x]
    BY DEF Lock, Recheck, WriteObjects, WriteObjectsFails, WriteBlobs, WriteBlobsFails, WriteFails
  <2> QED
    BY <1>1, <2>1, NoRuns
<1>5. pc[s] \in ImportSteps /\ Importing(s)
  BY <1>2 DEF ImportInv, Sound, ImportSteps, LockedSteps
<1>6. ASSUME NEW result, Throw(s, result), lock' = lock PROVE UndoInv'
  <2> DEFINE j == [job[s] EXCEPT !.result = result]
  <2>1. j.path = job[s].path /\ j.todo = job[s].todo /\ j.undo = job[s].undo
    BY <1>1 DEF JobFields
  <2>2. Goto(s, "undo", j)
    BY <1>6 DEF Throw
  <2> HIDE DEF j
  <2>3. Shifts(s) /\ pc'[s] = "undo" /\ job'[s] = j
    BY <1>1, <2>2 DEF Shifts, Goto, Go, Typed
  <2>4. LocksOf(s)
    BY <1>1, <1>6, OwnLocks
  <2> QED
    BY <1>2, <1>3, <1>4, <1>6, <2>1, <2>3, <2>4, EarlyUndo
<1>7. ASSUME NEW step \in {"objects", "blobs", "dir"}, Go(s, step), job' = job, lock' = lock,
             step = "objects" => pc[s] = "recheck", step # "objects" => pc[s] \in {"objects", "blobs"},
             step = "dir" => pc[s] = "blobs",
             step = "objects" => Cardinality(RunsToWrite(BundleOf(s), store)) = Cardinality(job[s].todo)
      PROVE  UndoInv'
  <2>1. Shifts(s) /\ pc'[s] = step /\ job'[s] = job[s]
    BY <1>1, <1>7 DEF Shifts, Go, Typed
  <2>2. LocksOf(s)
    BY <1>1, <1>7, OwnLocks
  <2>3. faults = 0 => \/ pc[s] \in {"objects", "blobs"}
                      \/ \A i \in job[s].todo : \A what \in Parts : ~There(store, what, RunAt(s, i))
    BY <1>7, AllAbsent
  <2> QED
    BY <1>2, <1>3, <1>4, <1>7, <2>1, <2>2, <2>3, EarlyUndo
<1>8. CASE Lock(s)
  <2>1. CASE lock[Run(s)] # NoService
    BY <1>6, <1>8, <2>1 DEF Lock
  <2>2. CASE lock[Run(s)] = NoService
    <3>1. lock' = [lock EXCEPT ![Run(s)] = s] /\ NextRun(s, job[s], "lock", "recheck") /\ pc[s] = "lock"
      BY <1>8, <2>2 DEF Lock
    <3>2. PICK n \in job[s].todo, step \in {"lock", "recheck"} : Goto(s, step, [job[s] EXCEPT !.at = n])
      BY <1>1, <1>5, <3>1, NextRunGoes
    <3> DEFINE j == [job[s] EXCEPT !.at = n]
    <3>3. j.path = job[s].path /\ j.todo = job[s].todo /\ j.undo = job[s].undo /\ Goto(s, step, j)
      BY <1>1, <3>2 DEF JobFields
    <3> HIDE DEF j
    <3>4. Shifts(s) /\ pc'[s] = step /\ job'[s] = j
      BY <1>1, <3>3 DEF Shifts, Goto, Go, Typed
    <3>5. Run(s) \in Runs
      BY <1>1, <1>5, ImportsBundle
    <3>6. LocksOf(s)
      BY <1>1, <2>2, <3>1, <3>5, OwnLocks
    <3>7. /\ \A r \in Runs : lock[r] = s => lock'[r] = s
          /\ \A r \in Runs : lock'[r] = s => lock[r] \in {s, NoService}
      BY <1>1, <2>2, <3>1 DEF Typed
    <3> QED
      BY <1>2, <1>3, <1>4, <3>3, <3>4, <3>6, <3>7, EarlyUndo
  <2> QED
    BY <2>1, <2>2
<1>9. CASE Recheck(s)
  BY <1>2, <1>6, <1>7, <1>9 DEF Recheck
<1>10. CASE WriteObjects(s) \/ WriteBlobs(s)
  BY <1>7, <1>10 DEF WriteObjects, WriteBlobs
<1>11. CASE \/ WriteObjectsFails(s) \/ WriteBlobsFails(s)
            \/ WriteFails(s, "lock") \/ WriteFails(s, "recheck")
  BY <1>6, <1>11 DEF WriteObjectsFails, WriteBlobsFails, WriteFails
<1> QED
  BY <1>8, <1>9, <1>10, <1>11

\* What a rollback comes to is a part of a run.
LEMMA UndoesParts ==
  ASSUME NEW undo \in Seq(UndoSteps), NEW what, NEW r, Undoes(undo, what, r)
  PROVE  what \in Parts /\ r \in Runs
<1>1. PICK k \in DOMAIN undo : undo[k].what = what /\ r \in undo[k].runs
  BY DEF Undoes
<1>2. undo[k] \in UndoSteps
  OBVIOUS
<1> QED
  BY <1>1, <1>2 DEF UndoSteps, Parts

\* One more step to undo.
LEMMA PushUndo ==
  ASSUME NEW U \in Seq(UndoSteps), NEW step \in UndoSteps, NEW V, V = <<step>> \o U
  PROVE  /\ \A what, r : Undoes(V, what, r) <=> (step.what = what /\ r \in step.runs) \/ Undoes(U, what, r)
         /\ \A k \in DOMAIN V : V[k] = step \/ \E m \in DOMAIN U : V[k] = U[m]
         /\ Piled(U) /\ (\A what, r : r \in step.runs /\ Undoes(U, what, r) => Rank[what] < Rank[step.what])
              => Piled(V)
<1>1. V \in Seq(UndoSteps) /\ Len(V) = Len(U) + 1 /\ Len(U) \in Nat
  OBVIOUS
<1>2. V[1] = step /\ \A k \in 2..Len(V) : V[k] = U[k - 1]
  OBVIOUS
<1>3. DOMAIN V = 1..Len(V) /\ DOMAIN U = 1..Len(U)
  BY <1>1
<1>4. \A k \in DOMAIN V : k = 1 \/ (k - 1 \in DOMAIN U /\ V[k] = U[k - 1])
  BY <1>1, <1>2, <1>3
<1>5. \A m \in DOMAIN U : m + 1 \in DOMAIN V /\ V[m + 1] = U[m]
  BY <1>1, <1>2, <1>3
<1>6. 1 \in DOMAIN V
  BY <1>1, <1>3
<1>7. \A what, r : Undoes(V, what, r) <=> (step.what = what /\ r \in step.runs) \/ Undoes(U, what, r)
  BY <1>2, <1>4, <1>5, <1>6 DEF Undoes
<1>8. ASSUME Piled(U), \A what, r : r \in step.runs /\ Undoes(U, what, r) => Rank[what] < Rank[step.what]
      PROVE  Piled(V)
  <2> SUFFICES ASSUME NEW k \in DOMAIN V, NEW m \in DOMAIN V, k < m, NEW r \in V[k].runs \cap V[m].runs
               PROVE  Rank[V[m].what] < Rank[V[k].what]
    BY DEF Piled
  <2>1. k \in Nat /\ m \in Nat /\ m # 1 /\ k >= 1
    BY <1>1, <1>3
  <2>2. m - 1 \in DOMAIN U /\ V[m] = U[m - 1]
    BY <1>4, <2>1
  <2>3. CASE k = 1
    <3>1. Undoes(U, V[m].what, r)
      BY <2>2 DEF Undoes
    <3> QED
      BY <1>2, <1>8, <2>3, <3>1
  <2>4. CASE k # 1
    <3>1. k - 1 \in DOMAIN U /\ V[k] = U[k - 1] /\ k - 1 < m - 1
      BY <1>4, <2>1, <2>4
    <3> QED
      BY <1>8, <2>2, <3>1 DEF Piled
  <2> QED
    BY <2>3, <2>4
<1>9. \A k \in DOMAIN V : V[k] = step \/ \E m \in DOMAIN U : V[k] = U[m]
  BY <1>2, <1>4
<1> QED
  BY <1>7, <1>8, <1>9

\* One step less.
LEMMA PopUndo ==
  ASSUME NEW U \in Seq(UndoSteps), U # <<>>, NEW step, step = Head(U), NEW V, V = Tail(U)
  PROVE  /\ step \in UndoSteps /\ step = U[1] /\ 1 \in DOMAIN U
         /\ \A what, r : Undoes(U, what, r) <=> (step.what = what /\ r \in step.runs) \/ Undoes(V, what, r)
         /\ \A k \in DOMAIN V : \E m \in DOMAIN U : V[k] = U[m]
         /\ Piled(U) => Piled(V) /\ \A what, r : r \in step.runs /\ Undoes(V, what, r) => Rank[what] < Rank[step.what]
<1>1. /\ V \in Seq(UndoSteps) /\ Len(U) = Len(V) + 1 /\ Len(V) \in Nat
      /\ step = U[1] /\ step \in UndoSteps
  OBVIOUS
<1>2. \A k \in 1..Len(V) : V[k] = U[k + 1]
  OBVIOUS
<1>3. DOMAIN V = 1..Len(V) /\ DOMAIN U = 1..Len(U)
  BY <1>1
<1>4. \A k \in DOMAIN V : k \in Nat /\ k >= 1 /\ k + 1 \in DOMAIN U /\ V[k] = U[k + 1]
  BY <1>1, <1>2, <1>3
<1>5. \A m \in DOMAIN U : m = 1 \/ (m - 1 \in DOMAIN V /\ V[m - 1] = U[m])
  BY <1>1, <1>2, <1>3
<1>6. 1 \in DOMAIN U
  BY <1>1, <1>3
<1>7. \A what, r : Undoes(U, what, r) <=> (step.what = what /\ r \in step.runs) \/ Undoes(V, what, r)
  BY <1>1, <1>4, <1>5, <1>6 DEF Undoes
<1>8. Piled(U) => Piled(V)
  <2> SUFFICES ASSUME Piled(U), NEW k \in DOMAIN V, NEW m \in DOMAIN V, k < m, NEW r \in V[k].runs \cap V[m].runs
               PROVE  Rank[V[m].what] < Rank[V[k].what]
    BY DEF Piled
  <2>1. k + 1 < m + 1
    BY <1>4
  <2> QED
    BY <1>4, <2>1 DEF Piled
<1>9. ASSUME Piled(U), NEW what, NEW r, r \in step.runs, Undoes(V, what, r) PROVE Rank[what] < Rank[step.what]
  <2>1. PICK k \in DOMAIN V : V[k].what = what /\ r \in V[k].runs
    BY <1>9 DEF Undoes
  <2>2. 1 < k + 1
    BY <1>4
  <2> QED
    BY <1>1, <1>4, <1>6, <1>9, <2>1, <2>2 DEF Piled
<1> QED
  BY <1>1, <1>4, <1>6, <1>7, <1>8, <1>9

\* A step adds a part of runs whose locks s holds, and that it can undo.
Adds(step) ==
  \A r \in Runs, what \in Parts :
    /\ There(store, what, r) => There(store', what, r)
    /\ There(store', what, r) => There(store, what, r) \/ (what = step.what /\ r \in step.runs)

\* It is the latest of its runs, and of none that was visible; what is needed for it is there.
Follows(s, step) ==
  /\ step.runs \subseteq ToWrite(s) /\ (step.what # "refs" => \E r \in Runs : step.runs = {r})
  /\ \A what, r : r \in step.runs /\ Undoes(job[s].undo, what, r) => Rank[what] < Rank[step.what]
  /\ \A r \in step.runs \ died :
       step.what # "dir" /\ faults <= 1 /\ There(store, "record", r) =>
         \E what \in Parts \ {"dir"} : Undoes(job[s].undo, what, r)
  /\ step.what \in {"events", "record"} => \A r \in step.runs : There(store, "dir", r)
  /\ step.what = "record" => \A r \in step.runs : There(store, "events", r)

\* A write that adds and follows keeps the invariant.
LEMMA WriteUndo ==
  ASSUME ImportInv, ImportInv', UndoInv, NEW s \in Services, Shifts(s),
         pc[s] \in {"dir", "events", "refs", "record"}, pc'[s] \in {"dir", "events", "refs", "record", "sync"},
         job'[s].path = job[s].path, job'[s].todo = job[s].todo,
         file' = file, lock' = lock, faults' = faults, died' = died,
         NEW step \in UndoSteps, job'[s].undo = <<step>> \o job[s].undo, Adds(step), Follows(s, step), Reached(s)'
  PROVE  UndoInv'
<1> DEFINE U == job[s].undo
           V == job'[s].undo
<1>1. /\ Typed /\ Typed' /\ Importing(s) /\ Holding(s) /\ FileStays /\ Counts
      /\ Stacked(s) /\ Faultless(s) /\ Undoable(s)
      /\ pc[s] \in ImportSteps /\ pc[s] \in LockedSteps \ {"recheck"} /\ pc[s] \in Writing
      /\ pc'[s] \in ImportSteps /\ pc'[s] \in LockedSteps \ {"recheck"} /\ pc'[s] \in Writing
  BY Counting DEF ImportInv, Sound, UndoInv, FileStays, ImportSteps, LockedSteps, Writing
<1>2. /\ BundleOf(s)' = BundleOf(s) /\ ToWrite(s)' = ToWrite(s)
      /\ \A i : RunAt(s, i)' = RunAt(s, i)
  BY <1>1, SameBundle
<1>3. /\ ToWrite(s) \subseteq Runs
      /\ ToWrite(s) = {RunAt(s, i) : i \in job[s].todo}
      /\ \A i \in job[s].todo : RunAt(s, i) \in Runs
      /\ \A i \in DOMAIN BundleOf(s).manifest.runs : RunAt(s, i) \in Runs
  BY <1>1, WritesRuns
<1>4. Moved(s) /\ LocksOf(s)
  BY <1>1, ShiftsMove, OwnLocks
<1>5. /\ \A what, r : Undoes(V, what, r) <=> (step.what = what /\ r \in step.runs) \/ Undoes(U, what, r)
      /\ \A k \in DOMAIN V : V[k] = step \/ \E m \in DOMAIN U : V[k] = U[m]
      /\ Piled(V)
  <2>1. U \in Seq(UndoSteps) /\ Piled(U) /\ V = <<step>> \o U
    BY <1>1 DEF Importing, Stacked
  <2>2. \A what, r : r \in step.runs /\ Undoes(U, what, r) => Rank[what] < Rank[step.what]
    BY DEF Follows
  <2> HIDE DEF U, V
  <2>3. \A what, r : Undoes(V, what, r) <=> (step.what = what /\ r \in step.runs) \/ Undoes(U, what, r)
    BY <2>1, PushUndo
  <2>4. \A k \in DOMAIN V : V[k] = step \/ \E m \in DOMAIN U : V[k] = U[m]
    BY <2>1, PushUndo
  <2>5. Piled(V)
    BY <2>1, <2>2, PushUndo
  <2> QED
    BY <2>3, <2>4, <2>5
<1>6. \A r \in ToWrite(s) : lock[r] = s
  BY <1>1, <1>3 DEF Holding
<1>7. Confined(s) /\ Grows0
  BY <1>6 DEF Confined, Grows0, Adds, Follows
<1>8. DirFirst'
  <2>1. \A r \in Runs : There(store, "events", r) \/ There(store, "record", r) => There(store, "dir", r)
    BY DEF UndoInv, DirFirst
  <2>2. ASSUME NEW r \in Runs, There(store', "events", r) \/ There(store', "record", r)
        PROVE  There(store', "dir", r)
    BY <2>1, <2>2 DEF Adds, Follows, Parts
  <2> QED
    BY <2>2 DEF DirFirst
<1>9. Stacked(s)'
  <2>1. /\ Distinct(BundleOf(s).manifest.runs)
        /\ \A k \in DOMAIN U :
             /\ U[k].runs \subseteq ToWrite(s)
             /\ U[k].what # "refs" => \E r \in Runs : U[k].runs = {r}
    BY <1>1 DEF Stacked
  <2>2. \A k \in DOMAIN V :
             /\ V[k].runs \subseteq ToWrite(s)
             /\ V[k].what # "refs" => \E r \in Runs : V[k].runs = {r}
    <3> HIDE DEF U, V
    <3> QED
      BY <1>5, <2>1 DEF Follows
  <2> QED
    BY <1>2, <1>5, <2>1, <2>2 DEF Stacked
<1>10. Faultless(s)'
  <2> SUFFICES ASSUME faults = 0 PROVE Faultless(s)'
    BY DEF Faultless
  <2>1. \A i \in DOMAIN BundleOf(s).manifest.runs \ job[s].todo : ~Absent(store', RunAt(s, i))
    <3> TAKE i \in DOMAIN BundleOf(s).manifest.runs \ job[s].todo
    <3>1. ~Absent(store, RunAt(s, i)) /\ RunAt(s, i) \in Runs
      BY <1>1, <1>3 DEF Faultless
    <3> QED
      BY <3>1, AbsentParts DEF Adds, Parts
  <2>2. \A i \in job[s].todo : \A what \in Parts : There(store', what, RunAt(s, i)) => Undoes(V, what, RunAt(s, i))
    <3> TAKE i \in job[s].todo
    <3> TAKE what \in Parts
    <3>1. There(store, what, RunAt(s, i)) => Undoes(U, what, RunAt(s, i))
      BY <1>1 DEF Faultless
    <3> QED
      BY <1>3, <1>5, <3>1 DEF Adds
  <2> QED
    BY <1>1, <1>2, <2>1, <2>2 DEF Faultless
<1>11. Undoable(s)'
  <2> SUFFICES ASSUME faults <= 1, NEW r \in ToWrite(s) \ died
               PROVE  \/ There(store', "record", r) /\ \A what \in Parts \ {"dir"} : ~Undoes(V, what, r)
                      \/ \A what \in Parts : There(store', what, r) => Undoes(V, what, r)
    BY <1>1, <1>2 DEF Undoable
  <2>1. r \in Runs /\ lock[r] = s
    BY <1>3, <1>6
  <2>2. \/ There(store, "record", r) /\ \A what \in Parts \ {"dir"} : ~Undoes(U, what, r)
        \/ \A what \in Parts : There(store, what, r) => Undoes(U, what, r)
    BY <1>1, <2>1 DEF Undoable
  <2>3. CASE There(store, "record", r) /\ \A what \in Parts \ {"dir"} : ~Undoes(U, what, r)
    <3>1. step.what = "dir" \/ r \notin step.runs
      BY <2>3 DEF Follows
    <3>2. There(store', "record", r) /\ \A what \in Parts \ {"dir"} : ~Undoes(V, what, r)
      BY <1>5, <2>1, <2>3, <3>1 DEF Adds, Parts
    <3> QED
      BY <3>2
  <2>4. CASE \A what \in Parts : There(store, what, r) => Undoes(U, what, r)
    BY <1>5, <2>1, <2>4 DEF Adds
  <2> QED
    BY <2>2, <2>3, <2>4
<1>12. ASSUME NEW r \in Runs \ died, lock[r] = s, faults <= 1
       PROVE  /\ Residue(store', r) => r \in ToWrite(s)
              /\ There(store', "record", r) => There(store', "events", r)
  <2>1. Residue(store, r) => r \in ToWrite(s)
    BY <1>12, NoResidue
  <2>2. There(store, "record", r) => There(store, "events", r)
    BY <1>12 DEF UndoInv, Covered
  <2>3. r \notin step.runs => (Residue(store', r) => Residue(store, r))
    BY DEF Residue, Adds, Parts
  <2>4. step.runs \subseteq ToWrite(s)
    BY DEF Follows
  <2>5. There(store', "record", r) => There(store', "events", r)
    BY <2>2 DEF Adds, Follows, Parts
  <2> QED
    BY <2>1, <2>3, <2>4, <2>5
<1>13. \A r \in Runs \ died' : lock[r] = s /\ faults' <= 1 =>
           /\ Residue(store', r) => pc'[s] \in Writing /\ r \in ToWrite(s)' /\ lock'[r] = s
           /\ There(store', "record", r) => There(store', "events", r)
  BY <1>1, <1>2, <1>12
<1> QED
  BY <1>1, <1>4, <1>7, <1>8, <1>9, <1>10, <1>11, <1>13, UndoKept

\* What each of the four writes adds.
LEMMA AddsParts ==
  ASSUME IsStore(store), NEW step,
         \/ /\ step.what = "dir" /\ store' = [store EXCEPT !.dirs = @ \cup step.runs]
         \/ /\ step.what = "events"
            /\ \E r, x : step.runs = {r} /\ store' = [store EXCEPT !.ledgers = With(@, r, x)]
         \/ /\ step.what = "refs"
            /\ \E X : store' = [store EXCEPT !.refs = @ \cup {x \in X : x.run \in step.runs}]
         \/ /\ step.what = "record"
            /\ \E r, x : step.runs = {r} /\ store' = [store EXCEPT !.records = With(@, r, x)]
  PROVE  Adds(step)
<1>1. DOMAIN store = {"dirs", "records", "ledgers", "refs", "blobs", "objects"}
  BY DEF IsStore, EmptyStore
<1>3. CASE step.what = "dir" /\ store' = [store EXCEPT !.dirs = @ \cup step.runs]
  <2>1. /\ store'.dirs = store.dirs \cup step.runs /\ store'.records = store.records
        /\ store'.ledgers = store.ledgers /\ store'.refs = store.refs
    BY <1>1, <1>3
  <2> QED
    BY <1>3, <2>1 DEF Adds, There, Parts
<1>4. ASSUME step.what = "events", NEW r, NEW x, step.runs = {r}, store' = [store EXCEPT !.ledgers = With(@, r, x)]
      PROVE  Adds(step)
  <2>1. /\ store'.dirs = store.dirs /\ store'.records = store.records
        /\ store'.ledgers = With(store.ledgers, r, x) /\ store'.refs = store.refs
    BY <1>1, <1>4
  <2>2. DOMAIN store'.ledgers = DOMAIN store.ledgers \cup {r}
    BY <2>1 DEF With
  <2> QED
    BY <1>4, <2>1, <2>2 DEF Adds, There, Parts
<1>5. ASSUME step.what = "refs", NEW X, store' = [store EXCEPT !.refs = @ \cup {x \in X : x.run \in step.runs}]
      PROVE  Adds(step)
  <2>1. /\ store'.dirs = store.dirs /\ store'.records = store.records
        /\ store'.ledgers = store.ledgers /\ store'.refs = store.refs \cup {x \in X : x.run \in step.runs}
    BY <1>1, <1>5
  <2>2. \A r : /\ RefsOfRun(store.refs, r) # {} => RefsOfRun(store'.refs, r) # {}
               /\ RefsOfRun(store'.refs, r) # {} => RefsOfRun(store.refs, r) # {} \/ r \in step.runs
    BY <2>1 DEF RefsOfRun
  <2> QED
    BY <1>5, <2>1, <2>2 DEF Adds, There, Parts
<1>6. ASSUME step.what = "record", NEW r, NEW x, step.runs = {r}, store' = [store EXCEPT !.records = With(@, r, x)]
      PROVE  Adds(step)
  <2>1. /\ store'.dirs = store.dirs /\ store'.records = With(store.records, r, x)
        /\ store'.ledgers = store.ledgers /\ store'.refs = store.refs
    BY <1>1, <1>6
  <2>2. DOMAIN store'.records = DOMAIN store.records \cup {r}
    BY <2>1 DEF With
  <2> QED
    BY <1>6, <2>1, <2>2 DEF Adds, There, Parts
<1> QED
  BY <1>3, <1>4, <1>5, <1>6

\* The ranks of the parts.
LEMMA Ranks ==
  /\ Rank["dir"] = 1 /\ Rank["events"] = 2 /\ Rank["refs"] = 3 /\ Rank["record"] = 4
  /\ \A what \in Parts : Rank[what] \in 1..4
BY DEF Rank, Parts

\* The position of a run in a bundle.
LEMMA OnePosition ==
  ASSUME ImportInv, UndoInv, NEW s \in Services, pc[s] \in ImportSteps
  PROVE  \A i, j \in job[s].todo : RunAt(s, i) = RunAt(s, j) => i = j
BY WritesRuns DEF UndoInv, Stacked, Distinct, RunAt

\* What all four writes have in common.
LEMMA WriteFacts ==
  ASSUME ImportInv, UndoInv, NEW s \in Services, pc[s] \in {"dir", "events", "refs", "record", "sync"}
  PROVE  /\ Typed /\ Importing(s) /\ Landed(s) /\ IsStore(store) /\ DOMAIN job[s] = JobFields
         /\ Stacked(s) /\ Reached(s) /\ Faultless(s)
         /\ pc[s] \in ImportSteps /\ pc[s] \in LockedSteps \ {"recheck"}
         /\ job[s].at \in job[s].todo /\ Run(s) = RunAt(s, job[s].at) /\ Run(s) \in Runs /\ Run(s) \in ToWrite(s)
         /\ ToWrite(s) = {RunAt(s, i) : i \in job[s].todo} /\ ToWrite(s) \subseteq Runs
         /\ job[s].undo \in Seq(UndoSteps)
         /\ \A i \in job[s].todo : i \in Nat
         /\ \A what, r : Undoes(job[s].undo, what, r) => what \in Parts
<1>1. /\ Typed /\ Importing(s) /\ Landed(s) /\ IsStore(store) /\ DOMAIN job[s] = JobFields
      /\ Stacked(s) /\ Reached(s) /\ Faultless(s)
      /\ pc[s] \in ImportSteps /\ pc[s] \in LockedSteps \ {"recheck"}
  BY DEF ImportInv, Sound, Typed, UndoInv, ImportSteps, LockedSteps
<1>2. /\ job[s].at \in job[s].todo /\ Run(s) = RunAt(s, job[s].at)
      /\ ToWrite(s) = {RunAt(s, i) : i \in job[s].todo} /\ ToWrite(s) \subseteq Runs
      /\ job[s].undo \in Seq(UndoSteps)
      /\ \A i \in job[s].todo : i \in Nat
  BY <1>1, WritesRuns, ImportsBundle, Positions DEF Importing
<1>3. \A what, r : Undoes(job[s].undo, what, r) => what \in Parts
  BY <1>2, UndoesParts
<1> QED
  BY <1>1, <1>2, <1>3

\* A run's directory.
LEMMA DirUndo ==
  ASSUME ImportInv, ImportInv', UndoInv, NEW s \in Services, MakeDir(s)
  PROVE  UndoInv'
<1> DEFINE step == [what |-> "dir", runs |-> {Run(s)}]
           j == Done(job[s], step)
           U == job[s].undo
<1>1. /\ pc[s] = "dir" /\ store' = [store EXCEPT !.dirs = @ \cup {Run(s)}] /\ Goto(s, "events", j)
      /\ file' = file /\ lock' = lock /\ faults' = faults /\ died' = died
  BY DEF MakeDir, counters
<1>2. /\ Typed /\ IsStore(store) /\ DOMAIN job[s] = JobFields /\ Reached(s)
      /\ pc[s] \in ImportSteps
      /\ job[s].at \in job[s].todo /\ Run(s) = RunAt(s, job[s].at) /\ Run(s) \in Runs /\ Run(s) \in ToWrite(s)
      /\ U \in Seq(UndoSteps) /\ \A i \in job[s].todo : i \in Nat
      /\ \A what, r : Undoes(U, what, r) => what \in Parts
  BY <1>1, WriteFacts
<1>3. step \in UndoSteps /\ step.what = "dir" /\ step.runs = {Run(s)}
  BY <1>2 DEF UndoSteps
<1> HIDE DEF step
<1>4. j.path = job[s].path /\ j.todo = job[s].todo /\ j.at = job[s].at /\ j.undo = <<step>> \o U
  BY <1>2 DEF Done, JobFields
<1> HIDE DEF j
<1>5. Shifts(s) /\ pc'[s] = "events" /\ job'[s] = j
  BY <1>1, <1>2 DEF Shifts, Goto, Go, Typed
<1>6. Adds(step)
  BY <1>1, <1>2, <1>3, AddsParts
<1>7. \A what, r : r \in step.runs => ~Undoes(U, what, r)
  BY <1>1, <1>2, <1>3 DEF Reached
<1>8. Follows(s, step)
  BY <1>2, <1>3, <1>7 DEF Follows
<1>9. /\ BundleOf(s)' = BundleOf(s) /\ ToWrite(s)' = ToWrite(s)
      /\ \A i : RunAt(s, i)' = RunAt(s, i)
  BY <1>1, <1>2, <1>4, <1>5, SameBundle
<1>10. \A what, r : Undoes(j.undo, what, r) <=> (step.what = what /\ r \in step.runs) \/ Undoes(U, what, r)
  <2> HIDE DEF U
  <2> QED
    BY <1>2, <1>3, <1>4, PushUndo
<1>11. Reached(s)'
  <2> SUFFICES ASSUME NEW i \in job[s].todo
               PROVE  /\ i < job[s].at => Undoes(j.undo, "events", RunAt(s, i))
                      /\ \A what \in Parts :
                           Undoes(j.undo, what, RunAt(s, i)) =>
                             /\ what \in {"dir", "events"}
                             /\ i < job[s].at \/ (i = job[s].at /\ what = "dir")
                      /\ RunAt(s, job[s].at) \in store'.dirs
    BY <1>4, <1>5, <1>9 DEF Reached
  <2>1. /\ i < job[s].at => Undoes(U, "events", RunAt(s, i))
        /\ \A what \in Parts : Undoes(U, what, RunAt(s, i)) => what \in {"dir", "events"} /\ i < job[s].at
    BY <1>1, <1>2 DEF Reached
  <2>2. RunAt(s, i) \in step.runs => i = job[s].at
    BY <1>2, <1>3, OnePosition
  <2>3. RunAt(s, job[s].at) \in store'.dirs
    BY <1>1, <1>2 DEF IsStore, EmptyStore
  <2> QED
    BY <1>3, <1>10, <2>1, <2>2, <2>3
<1> QED
  BY <1>1, <1>3, <1>4, <1>5, <1>6, <1>8, <1>11, WriteUndo

\* A write that throws, or fails, before anything else has: it cannot.
LEMMA ThrowUndo ==
  ASSUME ImportInv, ImportInv', UndoInv, NEW s \in Services, pc[s] \in {"dir", "events", "refs", "record", "sync"},
         NEW result, Throw(s, result), store' = store, file' = file, lock' = lock, Counts, faults' # 0
  PROVE  UndoInv'
<1> DEFINE j == [job[s] EXCEPT !.result = result]
<1>1. /\ Typed /\ Typed' /\ DOMAIN job[s] = JobFields /\ FileStays
      /\ Stacked(s) /\ Undoable(s)
      /\ pc[s] \in ImportSteps /\ pc[s] \in Writing /\ "undo" \in Writing
  BY DEF ImportInv, Typed, UndoInv, FileStays, ImportSteps, LockedSteps, Writing
<1>2. j.path = job[s].path /\ j.todo = job[s].todo /\ j.undo = job[s].undo
  BY <1>1 DEF JobFields
<1>3. Goto(s, "undo", j)
  BY DEF Throw
<1> HIDE DEF j
<1>4. Shifts(s) /\ pc'[s] = "undo" /\ job'[s] = j
  BY <1>1, <1>3 DEF Shifts, Goto, Go, Typed
<1>5. Moved(s) /\ LocksOf(s) /\ SameRuns /\ Confined(s) /\ Grows0 /\ DirFirst'
  BY <1>1, <1>4, ShiftsMove, OwnLocks, SameStore, SameRunsKeep
<1>6. BundleOf(s)' = BundleOf(s) /\ ToWrite(s)' = ToWrite(s)
  BY <1>1, <1>2, <1>4, SameBundle
<1>7. Stacked(s)'
  BY <1>1, <1>2, <1>4, <1>6 DEF Stacked
<1>8. Reached(s)'
  BY <1>4 DEF Reached
<1>9. Faultless(s)'
  BY DEF Faultless
<1>10. Undoable(s)'
  <2> SUFFICES ASSUME faults' <= 1, NEW r \in ToWrite(s) \ died', lock[r] = s
               PROVE  \/ There(store, "record", r) /\ \A what \in Parts \ {"dir"} : ~Undoes(job[s].undo, what, r)
                      \/ \A what \in Parts : There(store, what, r) => Undoes(job[s].undo, what, r)
    BY <1>2, <1>4, <1>6 DEF Undoable
  <2>1. faults <= 1 /\ r \in ToWrite(s) \ died
    BY DEF Counts, Counted, UndoInv
  <2> QED
    BY <1>1, <2>1 DEF Undoable
<1>11. ASSUME NEW r \in Runs \ died', lock[r] = s, faults' <= 1
       PROVE  /\ Residue(store, r) => r \in ToWrite(s)
              /\ There(store, "record", r) => There(store, "events", r)
  <2>1. faults <= 1 /\ r \in Runs \ died
    BY <1>11 DEF Counts, Counted, UndoInv
  <2> QED
    BY <1>11, <2>1, NoResidue DEF UndoInv, Covered
<1>12. \A r \in Runs \ died' : lock[r] = s /\ faults' <= 1 =>
           /\ Residue(store', r) => pc'[s] \in Writing /\ r \in ToWrite(s)' /\ lock'[r] = s
           /\ There(store', "record", r) => There(store', "events", r)
  BY <1>1, <1>4, <1>6, <1>11
<1> QED
  BY <1>1, <1>5, <1>7, <1>8, <1>9, <1>10, <1>12, UndoKept

\* A run's ledger.
LEMMA EventsUndo ==
  ASSUME ImportInv, ImportInv', UndoInv, NEW s \in Services, WriteEvents(s)
  PROVE  UndoInv'
<1> DEFINE step == [what |-> "events", runs |-> {Run(s)}]
           d == Done(job[s], step)
           U == job[s].undo
           L == BundleOf(s).ledgers[Run(s)]
<1>1. /\ pc[s] = "events" /\ file' = file /\ lock' = lock /\ faults' = faults /\ died' = died
      /\ \/ Run(s) \in DOMAIN store.ledgers /\ Throw(s, "EEXIST") /\ store' = store
         \/ /\ Run(s) \notin DOMAIN store.ledgers /\ store' = [store EXCEPT !.ledgers = With(@, Run(s), L)]
            /\ NextRun(s, d, "dir", "refs")
  BY DEF WriteEvents, counters
<1>2. /\ Typed /\ Importing(s) /\ IsStore(store) /\ DOMAIN job[s] = JobFields /\ Reached(s) /\ Faultless(s)
      /\ pc[s] \in ImportSteps /\ pc[s] \in LockedSteps \ {"recheck"}
      /\ job[s].at \in job[s].todo /\ Run(s) = RunAt(s, job[s].at) /\ Run(s) \in Runs /\ Run(s) \in ToWrite(s)
      /\ U \in Seq(UndoSteps) /\ \A i \in job[s].todo : i \in Nat
      /\ \A what, r : Undoes(U, what, r) => what \in Parts
  BY <1>1, WriteFacts
<1>3. step \in UndoSteps /\ step.what = "events" /\ step.runs = {Run(s)}
  BY <1>2 DEF UndoSteps
<1> HIDE DEF step
<1>4. \A what, r : r \in step.runs /\ Undoes(U, what, r) => what = "dir"
  BY <1>1, <1>2, <1>3 DEF Reached
<1>5. CASE Run(s) \in DOMAIN store.ledgers /\ Throw(s, "EEXIST") /\ store' = store
  <2>1. faults # 0
    <3> SUFFICES ASSUME faults = 0 PROVE FALSE
      OBVIOUS
    <3>1. Undoes(U, "events", Run(s))
      BY <1>2, <1>5 DEF Faultless, There, Parts
    <3> QED
      BY <1>3, <1>4, <3>1
  <2>2. Counts
    BY <1>1, Counting
  <2> QED
    BY <1>1, <1>5, <2>1, <2>2, ThrowUndo
<1>6. CASE /\ Run(s) \notin DOMAIN store.ledgers /\ store' = [store EXCEPT !.ledgers = With(@, Run(s), L)]
           /\ NextRun(s, d, "dir", "refs")
  <2>1. /\ DOMAIN d = JobFields /\ d.path = job[s].path /\ d.todo = job[s].todo /\ d.undo = <<step>> \o U
    BY <1>2 DEF Done, JobFields
  <2> HIDE DEF d
  <2>2. PICK n \in job[s].todo :
           \/ /\ Goto(s, "dir", [d EXCEPT !.at = n])
              /\ job[s].at < n /\ \A i \in job[s].todo : i < n => i <= job[s].at
           \/ /\ Goto(s, "refs", [d EXCEPT !.at = n])
              /\ \A i \in job[s].todo : n <= i /\ i <= job[s].at
    BY <1>2, <1>6, NextRunGoes
  <2> DEFINE j == [d EXCEPT !.at = n]
  <2>3. j.path = job[s].path /\ j.todo = job[s].todo /\ j.at = n /\ j.undo = <<step>> \o U
    BY <2>1 DEF JobFields
  <2> HIDE DEF j
  <2>4. PICK next \in {"dir", "refs"} :
           /\ Goto(s, next, j)
           /\ next = "dir" => job[s].at < n
           /\ \A i \in job[s].todo : next = "refs" \/ i < n => i <= job[s].at
    BY <2>2 DEF j
  <2>5. Shifts(s) /\ pc'[s] = next /\ job'[s] = j
    BY <1>2, <2>4 DEF Shifts, Goto, Go, Typed
  <2>6. Adds(step)
    <3>1. \E r, x : step.runs = {r} /\ store' = [store EXCEPT !.ledgers = With(@, r, x)]
      BY <1>3, <1>6
    <3> QED
      BY <1>2, <1>3, <3>1, AddsParts
  <2>7. Follows(s, step)
    <3>1. \A what, r : r \in step.runs /\ Undoes(U, what, r) => Rank[what] < Rank[step.what]
      BY <1>3, <1>4, Ranks
    <3>2. \A r \in step.runs \ died : faults <= 1 => ~There(store, "record", r)
      BY <1>2, <1>3, <1>6 DEF UndoInv, Covered, There
    <3>3. There(store, "dir", Run(s))
      BY <1>1, <1>2 DEF Reached, There
    <3> QED
      BY <1>2, <1>3, <3>1, <3>2, <3>3 DEF Follows
  <2>8. /\ BundleOf(s)' = BundleOf(s) /\ ToWrite(s)' = ToWrite(s)
        /\ \A i : RunAt(s, i)' = RunAt(s, i)
    BY <1>1, <1>2, <2>3, <2>5, SameBundle
  <2>9. \A what, r : Undoes(j.undo, what, r) <=> (step.what = what /\ r \in step.runs) \/ Undoes(U, what, r)
    <3> HIDE DEF U
    <3> QED
      BY <1>2, <1>3, <2>3, PushUndo
  <2>10. \A i \in job[s].todo :
           /\ i <= job[s].at => Undoes(j.undo, "events", RunAt(s, i))
           /\ \A what \in Parts :
                Undoes(j.undo, what, RunAt(s, i)) => what \in {"dir", "events"} /\ i <= job[s].at
    <3> TAKE i \in job[s].todo
    <3>1. /\ i < job[s].at => Undoes(U, "events", RunAt(s, i))
          /\ \A what \in Parts : Undoes(U, what, RunAt(s, i)) => what \in {"dir", "events"} /\ i <= job[s].at
      BY <1>1, <1>2 DEF Reached
    <3>2. RunAt(s, i) \in step.runs <=> i = job[s].at
      BY <1>2, <1>3, OnePosition
    <3>3. i <= job[s].at <=> i < job[s].at \/ i = job[s].at
      BY <1>2
    <3> QED
      BY <1>3, <2>9, <3>1, <3>2, <3>3
  <2>11. Reached(s)'
    <3>1. \A i \in job[s].todo : i <= job[s].at /\ next = "dir" => i < n
      BY <1>2, <2>4
    <3>2. next = "refs" => \A i \in job[s].todo : i <= job[s].at
      BY <2>4
    <3> QED
      BY <2>3, <2>4, <2>5, <2>8, <2>10, <3>1, <3>2 DEF Reached, Parts
  <2>12. pc[s] \in {"dir", "events", "refs", "record"} /\ pc'[s] \in {"dir", "events", "refs", "record", "sync"}
    BY <1>1, <2>5
  <2> QED
    BY <1>1, <1>3, <2>3, <2>5, <2>6, <2>7, <2>11, <2>12, WriteUndo
<1> QED
  BY <1>1, <1>5, <1>6

\* All refs in one transaction.
LEMMA RefsUndo ==
  ASSUME ImportInv, ImportInv', UndoInv, NEW s \in Services, CreateRefs(s)
  PROVE  UndoInv'
<1> DEFINE step == [what |-> "refs", runs |-> ToWrite(s)]
           j == Done(job[s], step)
           U == job[s].undo
<1>1. /\ pc[s] = "refs" /\ file' = file /\ lock' = lock /\ faults' = faults /\ died' = died
      /\ \/ /\ \E r \in ToWrite(s) : RefsOfRun(store.refs, r) # {}
            /\ Throw(s, "ERR_GIT") /\ store' = store
         \/ /\ store' = [store EXCEPT !.refs = @ \cup {r \in BundleOf(s).refs : r.run \in ToWrite(s)}]
            /\ Goto(s, "record", j)
  BY DEF CreateRefs, counters
<1>2. /\ Typed /\ IsStore(store) /\ DOMAIN job[s] = JobFields /\ Reached(s) /\ Faultless(s)
      /\ pc[s] \in ImportSteps /\ pc[s] \in LockedSteps \ {"recheck"}
      /\ ToWrite(s) = {RunAt(s, i) : i \in job[s].todo} /\ ToWrite(s) \subseteq Runs
      /\ U \in Seq(UndoSteps)
      /\ \A what, r : Undoes(U, what, r) => what \in Parts
  BY <1>1, WriteFacts
<1>3. step \in UndoSteps /\ step.what = "refs" /\ step.runs = ToWrite(s)
  BY <1>2 DEF UndoSteps
<1> HIDE DEF step
<1>4. \A r \in ToWrite(s) :
        Undoes(U, "events", r) /\ ~Undoes(U, "refs", r) /\ ~Undoes(U, "record", r)
  BY <1>1, <1>2 DEF Reached
<1>5. CASE /\ \E r \in ToWrite(s) : RefsOfRun(store.refs, r) # {}
           /\ Throw(s, "ERR_GIT") /\ store' = store
  <2>1. faults # 0
    <3> SUFFICES ASSUME faults = 0 PROVE FALSE
      OBVIOUS
    <3>1. PICK r \in ToWrite(s) : RefsOfRun(store.refs, r) # {}
      BY <1>5
    <3>2. Undoes(U, "refs", r)
      BY <1>2, <3>1 DEF Faultless, There, Parts
    <3> QED
      BY <1>4, <3>2
  <2>2. Counts
    BY <1>1, Counting
  <2> QED
    BY <1>1, <1>5, <2>1, <2>2, ThrowUndo
<1>6. CASE /\ store' = [store EXCEPT !.refs = @ \cup {r \in BundleOf(s).refs : r.run \in ToWrite(s)}]
           /\ Goto(s, "record", j)
  <2>1. j.path = job[s].path /\ j.todo = job[s].todo /\ j.at = job[s].at /\ j.undo = <<step>> \o U
    BY <1>2 DEF Done, JobFields
  <2> HIDE DEF j
  <2>2. Shifts(s) /\ pc'[s] = "record" /\ job'[s] = j
    BY <1>2, <1>6 DEF Shifts, Goto, Go, Typed
  <2>3. Adds(step)
    <3>1. \E X : store' = [store EXCEPT !.refs = @ \cup {x \in X : x.run \in step.runs}]
      BY <1>3, <1>6
    <3> QED
      BY <1>2, <1>3, <3>1, AddsParts
  <2>4. Follows(s, step)
    <3>1. \A what, r : r \in step.runs /\ Undoes(U, what, r) => Rank[what] < Rank[step.what]
      <4>1. \A what \in Parts : what # "refs" /\ what # "record" => Rank[what] < Rank["refs"]
        BY Ranks DEF Parts
      <4> QED
        BY <1>2, <1>3, <1>4, <4>1
    <3>2. "events" \in Parts \ {"dir"}
      BY DEF Parts
    <3> QED
      BY <1>2, <1>3, <1>4, <3>1, <3>2 DEF Follows
  <2>5. /\ BundleOf(s)' = BundleOf(s) /\ ToWrite(s)' = ToWrite(s)
        /\ \A i : RunAt(s, i)' = RunAt(s, i)
    BY <1>1, <1>2, <2>1, <2>2, SameBundle
  <2>6. \A what, r : Undoes(j.undo, what, r) <=> (step.what = what /\ r \in step.runs) \/ Undoes(U, what, r)
    <3> HIDE DEF U
    <3> QED
      BY <1>2, <1>3, <2>1, PushUndo
  <2>7. Reached(s)'
    <3>1. \A i \in job[s].todo : Undoes(j.undo, "events", RunAt(s, i)) /\ ~Undoes(j.undo, "record", RunAt(s, i))
      BY <1>2, <1>3, <1>4, <2>6
    <3> QED
      BY <2>1, <2>2, <2>5, <3>1 DEF Reached
  <2>8. pc[s] \in {"dir", "events", "refs", "record"} /\ pc'[s] \in {"dir", "events", "refs", "record", "sync"}
    BY <1>1, <2>2
  <2> QED
    BY <1>1, <1>3, <2>1, <2>2, <2>3, <2>4, <2>7, <2>8, WriteUndo
<1> QED
  BY <1>1, <1>5, <1>6

\* A run's record.
LEMMA RecordUndo ==
  ASSUME ImportInv, ImportInv', UndoInv, NEW s \in Services, WriteRecord(s)
  PROVE  UndoInv'
<1> DEFINE step == [what |-> "record", runs |-> {Run(s)}]
           j == Done(job[s], step)
           U == job[s].undo
           x == BundleOf(s).records[Run(s)]
<1>1. /\ pc[s] = "record" /\ file' = file /\ lock' = lock /\ faults' = faults /\ died' = died
      /\ \/ Run(s) \in DOMAIN store.records /\ Throw(s, "EEXIST") /\ store' = store
         \/ /\ store' = [store EXCEPT !.records = With(@, Run(s), x)]
            /\ Goto(s, "sync", j)
  BY DEF WriteRecord, counters
<1>2. /\ Typed /\ Landed(s) /\ IsStore(store) /\ DOMAIN job[s] = JobFields /\ Reached(s) /\ Faultless(s)
      /\ pc[s] \in ImportSteps /\ pc[s] \in LockedSteps \ {"recheck"}
      /\ job[s].at \in job[s].todo /\ Run(s) = RunAt(s, job[s].at) /\ Run(s) \in Runs /\ Run(s) \in ToWrite(s)
      /\ U \in Seq(UndoSteps) /\ \A i \in job[s].todo : i \in Nat
      /\ \A what, r : Undoes(U, what, r) => what \in Parts
  BY <1>1, WriteFacts
<1>3. step \in UndoSteps /\ step.what = "record" /\ step.runs = {Run(s)}
  BY <1>2 DEF UndoSteps
<1> HIDE DEF step
<1>4. Undoes(U, "events", Run(s)) /\ ~Undoes(U, "record", Run(s))
  BY <1>1, <1>2 DEF Reached
<1>5. CASE Run(s) \in DOMAIN store.records /\ Throw(s, "EEXIST") /\ store' = store
  <2>1. faults # 0
    <3> SUFFICES ASSUME faults = 0 PROVE FALSE
      OBVIOUS
    <3>1. Undoes(U, "record", Run(s))
      BY <1>2, <1>5 DEF Faultless, There, Parts
    <3> QED
      BY <1>4, <3>1
  <2>2. Counts
    BY <1>1, Counting
  <2> QED
    BY <1>1, <1>5, <2>1, <2>2, ThrowUndo
<1>6. CASE store' = [store EXCEPT !.records = With(@, Run(s), x)] /\ Goto(s, "sync", j)
  <2>1. j.path = job[s].path /\ j.todo = job[s].todo /\ j.at = job[s].at /\ j.undo = <<step>> \o U
    BY <1>2 DEF Done, JobFields
  <2> HIDE DEF j
  <2>2. Shifts(s) /\ pc'[s] = "sync" /\ job'[s] = j
    BY <1>2, <1>6 DEF Shifts, Goto, Go, Typed
  <2>3. Adds(step)
    <3>1. \E r, y : step.runs = {r} /\ store' = [store EXCEPT !.records = With(@, r, y)]
      BY <1>3, <1>6
    <3> QED
      BY <1>2, <1>3, <3>1, AddsParts
  <2>4. Follows(s, step)
    <3>1. \A what, r : r \in step.runs /\ Undoes(U, what, r) => Rank[what] < Rank[step.what]
      <4>1. \A what \in Parts : what # "record" => Rank[what] < Rank["record"]
        BY Ranks DEF Parts
      <4> QED
        BY <1>2, <1>3, <1>4, <4>1
    <3>2. "events" \in Parts \ {"dir"}
      BY DEF Parts
    <3>3. There(store, "events", Run(s))
      BY <1>1, <1>2 DEF Landed, There
    <3>4. There(store, "dir", Run(s))
      BY <1>2, <3>3 DEF UndoInv, DirFirst
    <3> QED
      BY <1>2, <1>3, <1>4, <3>1, <3>2, <3>3, <3>4 DEF Follows
  <2>5. /\ BundleOf(s)' = BundleOf(s) /\ ToWrite(s)' = ToWrite(s)
        /\ \A i : RunAt(s, i)' = RunAt(s, i)
    BY <1>1, <1>2, <2>1, <2>2, SameBundle
  <2>6. \A what, r : Undoes(j.undo, what, r) <=> (step.what = what /\ r \in step.runs) \/ Undoes(U, what, r)
    <3> HIDE DEF U
    <3> QED
      BY <1>2, <1>3, <2>1, PushUndo
  <2>7. Reached(s)'
    <3> SUFFICES ASSUME NEW i \in job[s].todo
                 PROVE  /\ Undoes(j.undo, "events", RunAt(s, i))
                        /\ Undoes(j.undo, "record", RunAt(s, i)) => i < job[s].at \/ i = job[s].at
      BY <2>1, <2>2, <2>5 DEF Reached
    <3>1. /\ Undoes(U, "events", RunAt(s, i))
          /\ Undoes(U, "record", RunAt(s, i)) => i < job[s].at
      BY <1>1, <1>2 DEF Reached
    <3>2. RunAt(s, i) \in step.runs => i = job[s].at
      BY <1>2, <1>3, OnePosition
    <3> QED
      BY <2>6, <3>1, <3>2
  <2>8. pc[s] \in {"dir", "events", "refs", "record"} /\ pc'[s] \in {"dir", "events", "refs", "record", "sync"}
    BY <1>1, <2>2
  <2> QED
    BY <1>1, <1>3, <2>1, <2>2, <2>3, <2>4, <2>7, <2>8, WriteUndo
<1> QED
  BY <1>1, <1>5, <1>6

\* A write fails.
LEMMA FailUndo ==
  ASSUME ImportInv, ImportInv', UndoInv, NEW s \in Services,
         NEW step \in {"dir", "events", "refs", "record", "sync"}, WriteFails(s, step)
  PROVE  UndoInv'
<1>1. /\ pc[s] = step /\ Throw(s, "ERR_IO") /\ Fault
      /\ store' = store /\ file' = file /\ lock' = lock /\ died' = died
  BY DEF WriteFails
<1>2. Counts /\ faults' # 0
  <2>1. faults' # faults
    BY <1>1 DEF Fault, UndoInv, Counted
  <2> QED
    BY <1>1, <2>1, Counting
<1> QED
  BY <1>1, <1>2, ThrowUndo

\* On to the next record, or all are written.
LEMMA SyncUndo ==
  ASSUME ImportInv, ImportInv', UndoInv, NEW s \in Services, Sync(s)
  PROVE  UndoInv'
<1>1. /\ pc[s] = "sync" /\ file' = file /\ lock' = lock /\ faults' = faults /\ died' = died /\ store' = store
      /\ NextRun(s, job[s], "record", "release")
  BY DEF Sync, counters
<1>2. /\ Typed /\ Importing(s) /\ Landed(s) /\ DOMAIN job[s] = JobFields
      /\ Stacked(s) /\ Reached(s) /\ Faultless(s)
      /\ pc[s] \in ImportSteps /\ pc[s] \in LockedSteps \ {"recheck"}
      /\ ToWrite(s) = {RunAt(s, i) : i \in job[s].todo} /\ ToWrite(s) \subseteq Runs
      /\ job[s].at \in job[s].todo /\ \A i \in job[s].todo : i \in Nat
  BY <1>1, WriteFacts
<1>3. PICK n \in job[s].todo :
         \/ /\ Goto(s, "record", [job[s] EXCEPT !.at = n])
            /\ job[s].at < n /\ \A i \in job[s].todo : i < n => i <= job[s].at
         \/ /\ Goto(s, "release", [job[s] EXCEPT !.at = n])
            /\ \A i \in job[s].todo : n <= i /\ i <= job[s].at
  BY <1>1, <1>2, NextRunGoes
<1> DEFINE j == [job[s] EXCEPT !.at = n]
<1>4. j.path = job[s].path /\ j.todo = job[s].todo /\ j.at = n /\ j.undo = job[s].undo
  BY <1>2 DEF JobFields
<1> HIDE DEF j
<1>5. PICK next \in {"record", "release"} :
         /\ Goto(s, next, j)
         /\ next = "record" => job[s].at < n
         /\ next = "release" => \A i \in job[s].todo : i <= job[s].at
  BY <1>3 DEF j
<1>6. Shifts(s) /\ pc'[s] = next /\ job'[s] = j
  BY <1>2, <1>5 DEF Shifts, Goto, Go, Typed
<1>7. /\ Moved(s) /\ LocksOf(s) /\ SameRuns /\ Confined(s) /\ Grows0 /\ DirFirst' /\ Counts /\ FileStays
  BY <1>1, <1>2, <1>6, ShiftsMove, OwnLocks, SameStore, SameRunsKeep, Counting DEF FileStays, ImportInv
<1>8. /\ BundleOf(s)' = BundleOf(s) /\ ToWrite(s)' = ToWrite(s)
      /\ \A i : RunAt(s, i)' = RunAt(s, i)
  BY <1>1, <1>2, <1>4, <1>6, SameBundle
<1>9. Stacked(s)'
  BY <1>1, <1>2, <1>4, <1>6, <1>8 DEF Stacked
<1>10. Reached(s)'
  <2> SUFFICES ASSUME next = "record", NEW i \in job[s].todo
               PROVE  /\ Undoes(job[s].undo, "events", RunAt(s, i))
                      /\ Undoes(job[s].undo, "record", RunAt(s, i)) => i < n
    BY <1>4, <1>6, <1>8 DEF Reached
  <2>1. /\ Undoes(job[s].undo, "events", RunAt(s, i))
        /\ Undoes(job[s].undo, "record", RunAt(s, i)) => i < job[s].at \/ i = job[s].at
    BY <1>1, <1>2 DEF Reached
  <2>2. i < job[s].at \/ i = job[s].at => i < n
    BY <1>2, <1>5
  <2> QED
    BY <2>1, <2>2
<1>11. Faultless(s)'
  <2> SUFFICES ASSUME faults = 0 PROVE Faultless(s)'
    BY <1>1 DEF Faultless
  <2>1. /\ \A i \in DOMAIN BundleOf(s).manifest.runs \ job[s].todo : ~Absent(store, RunAt(s, i))
        /\ \A i \in job[s].todo : \A what \in Parts :
             There(store, what, RunAt(s, i)) => Undoes(job[s].undo, what, RunAt(s, i))
    BY <1>2 DEF Faultless
  <2> QED
    BY <1>1, <1>4, <1>6, <1>8, <2>1 DEF Faultless
<1>12. Undoable(s)'
  <2>1. Undoable(s) /\ pc[s] \in Writing
    BY <1>1 DEF UndoInv, Writing
  <2> QED
    BY <1>1, <1>4, <1>6, <1>8, <2>1 DEF Undoable
<1>13. ASSUME NEW r \in Runs \ died, lock[r] = s, faults <= 1
       PROVE  /\ Residue(store, r) => next = "record" /\ r \in ToWrite(s)
              /\ There(store, "record", r) => There(store, "events", r)
  <2>1. Residue(store, r) => r \in ToWrite(s)
    BY <1>13, NoResidue
  <2>2. next = "release" /\ r \in ToWrite(s) => There(store, "record", r)
    <3>1. \A i \in job[s].todo : i <= job[s].at => RunAt(s, i) \in DOMAIN store.records
      BY <1>1, <1>2 DEF Landed
    <3> QED
      BY <1>2, <1>5, <3>1 DEF There
  <2>3. There(store, "record", r) => There(store, "events", r)
    BY <1>13 DEF UndoInv, Covered
  <2> QED
    BY <2>1, <2>2, <2>3 DEF Residue
<1>14. \A r \in Runs \ died' : lock[r] = s /\ faults' <= 1 =>
           /\ Residue(store', r) => pc'[s] \in Writing /\ r \in ToWrite(s)' /\ lock'[r] = s
           /\ There(store', "record", r) => There(store', "events", r)
  BY <1>1, <1>6, <1>8, <1>13 DEF Writing
<1> QED
  BY <1>7, <1>9, <1>10, <1>11, <1>12, <1>14, UndoKept

\* What a step of the rollback takes away: the part that it is of, except that a
\* directory stays while there is something in it.
LEMMA RemovedParts ==
  ASSUME IsStore(store), NEW step \in UndoSteps, store' = Removed(store, step),
         step.what # "refs" => \E r \in Runs : step.runs = {r}
  PROVE  \A r \in Runs, what \in Parts :
           There(store', what, r) <=>
             /\ There(store, what, r)
             /\ what = step.what /\ r \in step.runs =>
                  what = "dir" /\ (There(store, "events", r) \/ There(store, "record", r))
<1>1. DOMAIN store = {"dirs", "records", "ledgers", "refs", "blobs", "objects"}
  BY DEF IsStore, EmptyStore
<1>2. step.what \in {"dir", "events", "refs", "record"}
  BY DEF UndoSteps
<1> DEFINE run == CHOOSE r \in step.runs : TRUE
<1>3. step.what # "refs" => step.runs = {run}
  OBVIOUS
<1>4. store' = CASE step.what = "record" -> [store EXCEPT !.records = Without(@, run)]
                 [] step.what = "refs" -> [store EXCEPT !.refs = {r \in @ : r.run \notin step.runs}]
                 [] step.what = "events" -> [store EXCEPT !.ledgers = Without(@, run)]
                 [] step.what = "dir" -> IF run \in DOMAIN store.ledgers \cup DOMAIN store.records THEN store
                                         ELSE [store EXCEPT !.dirs = @ \ {run}]
  BY DEF Removed
<1> HIDE DEF run
<1>5. CASE step.what = "record"
  <2>1. /\ store'.dirs = store.dirs /\ store'.records = Without(store.records, run)
        /\ store'.ledgers = store.ledgers /\ store'.refs = store.refs
    BY <1>1, <1>4, <1>5
  <2>2. DOMAIN store'.records = DOMAIN store.records \ {run}
    BY <2>1 DEF Without
  <2> QED
    BY <1>3, <1>5, <2>1, <2>2 DEF There, Parts
<1>6. CASE step.what = "events"
  <2>1. /\ store'.dirs = store.dirs /\ store'.records = store.records
        /\ store'.ledgers = Without(store.ledgers, run) /\ store'.refs = store.refs
    BY <1>1, <1>4, <1>6
  <2>2. DOMAIN store'.ledgers = DOMAIN store.ledgers \ {run}
    BY <2>1 DEF Without
  <2> QED
    BY <1>3, <1>6, <2>1, <2>2 DEF There, Parts
<1>7. CASE step.what = "refs"
  <2>1. /\ store'.dirs = store.dirs /\ store'.records = store.records
        /\ store'.ledgers = store.ledgers /\ store'.refs = {r \in store.refs : r.run \notin step.runs}
    BY <1>1, <1>4, <1>7
  <2>2. \A r : RefsOfRun(store'.refs, r) # {} <=> RefsOfRun(store.refs, r) # {} /\ r \notin step.runs
    BY <2>1 DEF RefsOfRun
  <2> QED
    BY <1>7, <2>1, <2>2 DEF There, Parts
<1>8. CASE step.what = "dir"
  <2>1. CASE run \in DOMAIN store.ledgers \cup DOMAIN store.records
    <3>1. store' = store
      BY <1>4, <1>8, <2>1
    <3> QED
      BY <1>3, <1>8, <2>1, <3>1 DEF There, Parts
  <2>2. CASE run \notin DOMAIN store.ledgers \cup DOMAIN store.records
    <3>1. /\ store'.dirs = store.dirs \ {run} /\ store'.records = store.records
          /\ store'.ledgers = store.ledgers /\ store'.refs = store.refs
      BY <1>1, <1>4, <1>8, <2>2
    <3> QED
      BY <1>3, <1>8, <2>2, <3>1 DEF There, Parts
  <2> QED
    BY <2>1, <2>2
<1> QED
  BY <1>2, <1>5, <1>6, <1>7, <1>8

\* The rollback: what s no longer has to undo, it has removed.
LEMMA RollbackUndo ==
  ASSUME ImportInv, ImportInv', UndoInv, NEW s \in Services, Undo(s)
  PROVE  UndoInv'
<1> DEFINE U == job[s].undo
           V == Tail(U)
           step == Head(U)
           j == [job[s] EXCEPT !.undo = V]
<1>1. /\ pc[s] = "undo" /\ file' = file /\ lock' = lock /\ died' = died
      /\ \/ U = <<>> /\ Go(s, "release") /\ store' = store /\ job' = job /\ faults' = faults
         \/ /\ U # <<>> /\ pc' = pc /\ job' = [job EXCEPT ![s].undo = Tail(@)]
            /\ \/ store' = Removed(store, step) /\ faults' = faults
               \/ Fault /\ store' = store
  BY DEF Undo
<1>2. /\ Typed /\ Typed' /\ Importing(s) /\ Holding(s) /\ IsStore(store) /\ DOMAIN job[s] = JobFields
      /\ Stacked(s) /\ Faultless(s) /\ Undoable(s) /\ FileStays
      /\ pc[s] \in ImportSteps /\ pc[s] \in Writing
      /\ "release" \notin Writing \cup LockedSteps /\ "undo" \notin LockedSteps
      /\ "undo" \in Writing
  BY <1>1 DEF ImportInv, Sound, Typed, UndoInv, FileStays, ImportSteps, LockedSteps, Writing
<1>3. /\ ToWrite(s) \subseteq Runs /\ U \in Seq(UndoSteps) /\ Piled(U)
      /\ Distinct(BundleOf(s).manifest.runs)
  BY <1>2, WritesRuns DEF Importing, Stacked
<1>4. LocksOf(s)
  BY <1>1, <1>2, OwnLocks
<1>5. CASE U = <<>> /\ Go(s, "release") /\ store' = store /\ job' = job /\ faults' = faults
  <2>1. Shifts(s) /\ pc'[s] = "release" /\ job'[s] = job[s]
    BY <1>2, <1>5 DEF Shifts, Go, Typed
  <2>2. Moved(s) /\ SameRuns /\ Confined(s) /\ Grows0 /\ DirFirst' /\ Counts
    BY <1>1, <1>2, <1>5, <2>1, ShiftsMove, SameStore, SameRunsKeep, Counting
  <2>3. /\ BundleOf(s)' = BundleOf(s) /\ \A i : RunAt(s, i)' = RunAt(s, i)
        /\ ToWrite(s)' = ToWrite(s)
    BY <1>1, <1>2, <2>1, SameBundle
  <2>4. Stacked(s)'
    BY <1>2, <2>1, <2>3, <1>1, <1>5 DEF Stacked
  <2>5. Reached(s)' /\ Undoable(s)'
    BY <1>2, <2>1 DEF Reached, Undoable
  <2>6. Faultless(s)'
    <3> SUFFICES ASSUME faults = 0 PROVE Faultless(s)'
      BY <1>5 DEF Faultless
    <3>1. \A i \in DOMAIN BundleOf(s).manifest.runs \ job[s].todo : ~Absent(store, RunAt(s, i))
      BY <1>2 DEF Faultless
    <3> QED
      BY <1>2, <1>5, <2>1, <2>3, <3>1 DEF Faultless
  <2>7. ASSUME NEW r \in Runs \ died, lock[r] = s, faults <= 1
        PROVE  ~Residue(store, r) /\ (There(store, "record", r) => There(store, "events", r))
    <3>1. \A what : ~Undoes(U, what, r)
      BY <1>5 DEF Undoes
    <3>2. CASE r \in ToWrite(s)
      <4>1. There(store, "record", r) \/ \A what \in Parts : ~There(store, what, r)
        BY <1>2, <2>7, <3>1, <3>2 DEF Undoable
      <4> QED
        BY <2>7, <4>1 DEF Residue, UndoInv, Covered
    <3>3. CASE r \notin ToWrite(s)
      BY <2>7, <3>3, NoResidue
    <3> QED
      BY <3>2, <3>3
  <2>8. \A r \in Runs \ died' : lock[r] = s /\ faults' <= 1 =>
           /\ Residue(store', r) => pc'[s] \in Writing /\ r \in ToWrite(s)' /\ lock'[r] = s
           /\ There(store', "record", r) => There(store', "events", r)
    BY <1>1, <1>5, <2>7
  <2> QED
    BY <1>2, <1>4, <2>2, <2>4, <2>5, <2>6, <2>8, UndoKept
<1>6. CASE U # <<>> /\ pc' = pc /\ job' = [job EXCEPT ![s].undo = Tail(@)]
  <2>1. j.path = job[s].path /\ j.todo = job[s].todo /\ j.undo = V /\ job' = [job EXCEPT ![s] = j]
    BY <1>2, <1>6 DEF JobFields
  <2> HIDE DEF j
  <2>2. Shifts(s) /\ pc'[s] = "undo" /\ job'[s] = j
    BY <1>1, <1>2, <1>6, <2>1 DEF Shifts, Typed
  <2>3. Moved(s)
    BY <1>2, <2>2, ShiftsMove
  <2>4. /\ BundleOf(s)' = BundleOf(s) /\ ToWrite(s)' = ToWrite(s)
    BY <1>1, <1>2, <2>1, <2>2, SameBundle
  <2>5. /\ step \in UndoSteps /\ step = U[1] /\ 1 \in DOMAIN U
        /\ \A what, r : Undoes(U, what, r) <=> (step.what = what /\ r \in step.runs) \/ Undoes(V, what, r)
        /\ \A k \in DOMAIN V : \E m \in DOMAIN U : V[k] = U[m]
        /\ Piled(V) /\ \A what, r : r \in step.runs /\ Undoes(V, what, r) => Rank[what] < Rank[step.what]
    <3> HIDE DEF U
    <3>1. step = Head(U) /\ V = Tail(U)
      OBVIOUS
    <3> HIDE DEF V, step
    <3>2. /\ step \in UndoSteps /\ step = U[1] /\ 1 \in DOMAIN U
          /\ \A k \in DOMAIN V : \E m \in DOMAIN U : V[k] = U[m]
      BY <1>3, <1>6, <3>1, PopUndo
    <3>3. \A what, r : Undoes(U, what, r) <=> (step.what = what /\ r \in step.runs) \/ Undoes(V, what, r)
      BY <1>3, <1>6, <3>1, PopUndo
    <3>4. Piled(V) /\ \A what, r : r \in step.runs /\ Undoes(V, what, r) => Rank[what] < Rank[step.what]
      BY <1>3, <1>6, <3>1, PopUndo
    <3> QED
      BY <3>2, <3>3, <3>4
  <2> HIDE DEF V, step
  <2>6. /\ step.runs \subseteq ToWrite(s) /\ (step.what # "refs" => \E r \in Runs : step.runs = {r})
        /\ \A r \in step.runs : lock[r] = s
    BY <1>2, <2>5 DEF Stacked, Holding
  <2>7. Stacked(s)'
    <3>1. \A k \in DOMAIN U :
            /\ U[k].runs \subseteq ToWrite(s)
            /\ U[k].what # "refs" => \E r \in Runs : U[k].runs = {r}
      BY <1>2 DEF Stacked
    <3>2. \A k \in DOMAIN V :
            /\ V[k].runs \subseteq ToWrite(s)
            /\ V[k].what # "refs" => \E r \in Runs : V[k].runs = {r}
      <4> TAKE k \in DOMAIN V
      <4>1. PICK m \in DOMAIN U : V[k] = U[m]
        BY <2>5
      <4> QED
        BY <3>1, <4>1
    <3>3. pc'[s] = "undo" /\ job'[s].undo = V
      BY <2>1, <2>2
    <3>4. Piled(V)
      BY <2>5
    <3>5. Distinct(BundleOf(s).manifest.runs)'
      BY <1>3, <2>4
    <3>6. Piled(job[s].undo)'
      BY <3>3, <3>4
    <3>7. \A k \in DOMAIN job'[s].undo :
            /\ job'[s].undo[k].runs \subseteq ToWrite(s)'
            /\ job'[s].undo[k].what # "refs" => \E r \in Runs : job'[s].undo[k].runs = {r}
      BY <2>4, <3>2, <3>3
    <3> QED
      BY <3>3, <3>5, <3>6, <3>7 DEF Stacked
  <2>8. Reached(s)'
    BY <2>2 DEF Reached
  <2>9. faults # 0 /\ faults \in Nat
    BY <1>1, <1>2, <1>6 DEF Faultless, UndoInv, Counted
  <2>10. Counts /\ faults' # 0
    BY <1>1, <1>6, <2>9, Counting DEF Fault
  <2>11. Faultless(s)'
    BY <2>10 DEF Faultless
  <2>12. CASE Fault /\ store' = store
    <3>1. ~(faults' <= 1)
      BY <2>9, <2>12 DEF Fault
    <3>2. Undoable(s)'
      BY <3>1 DEF Undoable
    <3>3. Confined(s) /\ Grows0 /\ DirFirst'
      BY <2>12, SameStore, SameRunsKeep
    <3> QED
      BY <1>2, <1>4, <2>3, <2>7, <2>8, <2>10, <2>11, <3>1, <3>2, <3>3, UndoKept
  <2>13. CASE store' = Removed(store, step) /\ faults' = faults
    <3>1. \A r \in Runs, what \in Parts :
           There(store', what, r) <=>
             /\ There(store, what, r)
             /\ what = step.what /\ r \in step.runs =>
                  what = "dir" /\ (There(store, "events", r) \/ There(store, "record", r))
      BY <1>2, <2>5, <2>6, <2>13, RemovedParts
    <3>2. Confined(s) /\ Grows0
      BY <2>6, <2>10, <3>1 DEF Confined, Grows0
    <3>3. DirFirst'
      <4>1. \A r \in Runs : There(store, "events", r) \/ There(store, "record", r) => There(store, "dir", r)
        BY DEF UndoInv, DirFirst
      <4>2. ASSUME NEW r \in Runs, There(store', "events", r) \/ There(store', "record", r)
            PROVE  There(store', "dir", r)
        BY <3>1, <4>1, <4>2 DEF Parts
      <4> QED
        BY <4>2 DEF DirFirst
    <3>4. ASSUME NEW r \in ToWrite(s) \ died, lock[r] = s, faults <= 1
          PROVE  \/ There(store', "record", r) /\ \A what \in Parts \ {"dir"} : ~Undoes(V, what, r)
                 \/ \A what \in Parts : There(store', what, r) => Undoes(V, what, r)
      <4>1. r \in Runs
        BY <1>3
      <4>2. CASE There(store, "record", r) /\ \A what \in Parts \ {"dir"} : ~Undoes(U, what, r)
        <5>1. There(store', "record", r)
          BY <2>5, <3>1, <4>1, <4>2 DEF Parts
        <5> QED
          BY <2>5, <4>2, <5>1
      <4>3. CASE \A what \in Parts : There(store, what, r) => Undoes(U, what, r)
        <5>1. ASSUME NEW what \in Parts, There(store', what, r) PROVE Undoes(V, what, r)
          <6>1. There(store, what, r) /\ Undoes(U, what, r)
            BY <3>1, <4>1, <4>3, <5>1
          <6>2. CASE what = step.what /\ r \in step.runs
            <7>1. what = "dir" /\ (There(store, "events", r) \/ There(store, "record", r))
              BY <3>1, <4>1, <5>1, <6>2
            <7>2. Undoes(U, "events", r) \/ Undoes(U, "record", r)
              BY <4>3, <7>1 DEF Parts
            <7>3. Undoes(V, "events", r) \/ Undoes(V, "record", r)
              BY <2>5, <6>2, <7>1, <7>2
            <7>4. Rank["events"] < Rank["dir"] \/ Rank["record"] < Rank["dir"]
              BY <2>5, <6>2, <7>1, <7>3
            <7> QED
              BY <7>4, Ranks
          <6> QED
            BY <2>5, <6>1, <6>2
        <5> QED
          BY <5>1
      <4>4. Undoable(s)
        BY <1>2
      <4> QED
        BY <1>2, <3>4, <4>2, <4>3, <4>4 DEF Undoable
    <3>5. Undoable(s)'
      BY <1>1, <2>1, <2>2, <2>4, <2>13, <3>4 DEF Undoable
    <3>6. ASSUME NEW r \in Runs \ died, lock[r] = s, faults <= 1
          PROVE  /\ Residue(store', r) => r \in ToWrite(s)
                 /\ There(store', "record", r) => There(store', "events", r)
      <4>1. CASE r \notin step.runs
        <5>1. \A what \in Parts : There(store', what, r) <=> There(store, what, r)
          BY <3>1, <4>1
        <5>2. Residue(store', r) => Residue(store, r)
          BY <5>1 DEF Residue, Parts
        <5>3. Residue(store, r) => r \in ToWrite(s)
          BY <3>6, NoResidue
        <5>4. There(store, "record", r) => There(store, "events", r)
          BY <3>6 DEF UndoInv, Covered
        <5> QED
          BY <5>1, <5>2, <5>3, <5>4 DEF Parts
      <4>2. CASE r \in step.runs
        <5>1. r \in ToWrite(s)
          BY <2>6, <4>2
        <5>2. ASSUME There(store', "record", r), ~There(store', "events", r) PROVE FALSE
          <6>1. There(store, "record", r) /\ step.what # "record"
            BY <3>1, <4>2, <5>2 DEF Parts
          <6>2. There(store, "events", r)
            BY <3>6, <6>1 DEF UndoInv, Covered
          <6>3. step.what = "events"
            BY <3>1, <5>2, <6>2 DEF Parts
          <6>4. Undoes(U, "events", r)
            BY <2>5, <4>2, <6>3
          <6>5. Undoes(U, "record", r)
            BY <1>2, <3>6, <5>1, <6>1, <6>4 DEF Undoable, Parts
          <6>6. Undoes(V, "record", r)
            BY <2>5, <6>1, <6>5
          <6>7. Rank["record"] < Rank["events"]
            BY <2>5, <4>2, <6>3, <6>6
          <6> QED
            BY <6>7, Ranks
        <5> QED
          BY <5>1, <5>2
      <4> QED
        BY <4>1, <4>2
    <3>7. \A r \in Runs \ died' : lock[r] = s /\ faults' <= 1 =>
             /\ Residue(store', r) => pc'[s] \in Writing /\ r \in ToWrite(s)' /\ lock'[r] = s
             /\ There(store', "record", r) => There(store', "events", r)
      BY <1>1, <1>2, <2>2, <2>4, <2>13, <3>6
    <3> QED
      BY <1>2, <1>4, <2>3, <2>7, <2>8, <2>10, <2>11, <3>2, <3>3, <3>5, <3>7, UndoKept
  <2> QED
    BY <1>1, <1>6, <2>12, <2>13 DEF step
<1> QED
  BY <1>1, <1>5, <1>6

\* Engines append to runs that are visible and not being imported.
LEMMA EngineUndo ==
  ASSUME ImportInv, UndoInv, EngineAppends
  PROVE  UndoInv'
<1>1. Typed /\ IsStore(store)
  BY DEF ImportInv, Typed
<1>2. pc' = pc /\ job' = job /\ lock' = lock /\ file' = file /\ faults' = faults /\ died' = died
  BY DEF EngineAppends
<1>3. \E X \in SUBSET Runs :
        /\ \A r \in X : lock[r] = NoService /\ There(store, "record", r)
        /\ \A r \in Runs, what \in Parts :
             There(store', what, r) <=> There(store, what, r) \/ (what = "events" /\ r \in X)
  <2>1. CASE store' = store
    <3>1. {} \in SUBSET Runs
      OBVIOUS
    <3> QED
      BY <2>1, <3>1
  <2>2. CASE StoreAppend
    <3>1. PICK r \in DOMAIN store.records :
            /\ lock[r] = NoService
            /\ store' = [store EXCEPT !.ledgers = With(@, r, Seal(r, EventLog(store, r), NewEvent))]
      BY <2>2 DEF StoreAppend
    <3>2. r \in Runs /\ There(store, "record", r)
      BY <1>1 DEF IsStore, There
    <3> DEFINE L == Seal(r, EventLog(store, r), NewEvent)
    <3>3. /\ store'.dirs = store.dirs /\ store'.records = store.records
          /\ store'.ledgers = With(store.ledgers, r, L) /\ store'.refs = store.refs
      BY <1>1, <3>1 DEF IsStore, EmptyStore
    <3> HIDE DEF L
    <3>4. DOMAIN store'.ledgers = DOMAIN store.ledgers \cup {r}
      BY <3>3 DEF With
    <3>5. \A q \in Runs, what \in Parts :
             There(store', what, q) <=> There(store, what, q) \/ (what = "events" /\ q \in {r})
      BY <3>3, <3>4 DEF There, Parts
    <3>6. {r} \in SUBSET Runs /\ \A q \in {r} : lock[q] = NoService /\ There(store, "record", q)
      BY <3>1, <3>2
    <3> QED
      BY <3>5, <3>6
  <2> QED
    BY <2>1, <2>2 DEF EngineAppends
<1>4. PICK X \in SUBSET Runs :
        /\ \A r \in X : lock[r] = NoService /\ There(store, "record", r)
        /\ \A r \in Runs, what \in Parts :
             There(store', what, r) <=> There(store, what, r) \/ (what = "events" /\ r \in X)
  BY <1>3
<1>5. \A t \in Services, r \in Runs, what \in Parts :
        lock[r] = t => (There(store', what, r) <=> There(store, what, r))
  BY <1>4, ServiceAssumption
<1>6. Counted' /\ DirFirst'
  <2>1. Counted'
    BY <1>2 DEF UndoInv, Counted
  <2>2. \A r \in Runs : There(store, "events", r) \/ There(store, "record", r) => There(store, "dir", r)
    BY DEF UndoInv, DirFirst
  <2>3. \A r \in Runs : There(store', "events", r) \/ There(store', "record", r) => There(store', "dir", r)
    BY <1>4, <2>2 DEF Parts
  <2> QED
    BY <2>1, <2>3 DEF DirFirst
<1>7. \A t : /\ BundleOf(t)' = BundleOf(t) /\ ToWrite(t)' = ToWrite(t)
             /\ \A i : RunAt(t, i)' = RunAt(t, i)
  BY <1>2 DEF BundleOf, At, ToWrite, RunAt
<1>8. Covered'
  <2> SUFFICES ASSUME faults <= 1, NEW r \in Runs \ died
               PROVE  /\ Residue(store', r) => \E t \in Services : pc[t] \in Writing /\ r \in ToWrite(t) /\ lock[r] = t
                      /\ There(store', "record", r) => There(store', "events", r)
    BY <1>2, <1>7 DEF Covered
  <2>1. /\ Residue(store, r) => \E t \in Services : pc[t] \in Writing /\ r \in ToWrite(t) /\ lock[r] = t
        /\ There(store, "record", r) => There(store, "events", r)
    BY DEF UndoInv, Covered
  <2>2. Residue(store', r) => Residue(store, r)
    BY <1>4 DEF Residue, Parts
  <2>3. There(store', "record", r) => There(store', "events", r)
    BY <1>4, <2>1 DEF Parts
  <2> QED
    BY <2>1, <2>2, <2>3
<1>9. ASSUME NEW t \in Services
      PROVE  Stacked(t)' /\ Reached(t)' /\ Faultless(t)' /\ Undoable(t)'
  <2>1. Importing(t) /\ Holding(t) /\ Stacked(t) /\ Reached(t) /\ Faultless(t) /\ Undoable(t)
    BY DEF ImportInv, Sound, UndoInv
  <2>2. CASE pc[t] \notin ImportSteps
    BY <1>2, <2>2 DEF Stacked, Reached, Faultless, Undoable, ImportSteps, LockedSteps, Writing
  <2>3. CASE pc[t] \in ImportSteps
    <3>1. /\ \A i \in job[t].todo : RunAt(t, i) \in Runs
          /\ \A i \in DOMAIN BundleOf(t).manifest.runs : RunAt(t, i) \in Runs
          /\ ToWrite(t) \subseteq Runs
          /\ job[t].at \in job[t].todo
      BY <2>1, <2>3, WritesRuns DEF Importing
    <3>2. Stacked(t)'
      BY <1>2, <1>7, <2>1 DEF Stacked
    <3>3. Reached(t)'
      <4>1. RunAt(t, job[t].at) \in store'.dirs <=> RunAt(t, job[t].at) \in store.dirs
        BY <1>4, <3>1 DEF There, Parts
      <4> QED
        BY <1>2, <1>7, <2>1, <4>1 DEF Reached
    <3>4. Faultless(t)'
      <4> SUFFICES ASSUME faults = 0 PROVE Faultless(t)'
        BY <1>2 DEF Faultless
      <4>1. \A i \in DOMAIN BundleOf(t).manifest.runs \ job[t].todo : ~Absent(store', RunAt(t, i))
        <5> TAKE i \in DOMAIN BundleOf(t).manifest.runs \ job[t].todo
        <5>1. ~Absent(store, RunAt(t, i)) /\ RunAt(t, i) \in Runs
          BY <2>1, <2>3, <3>1 DEF Faultless
        <5> QED
          BY <1>4, <5>1, AbsentParts DEF Parts
      <4>2. pc[t] \in LockedSteps \ {"recheck"} =>
              \A i \in job[t].todo : \A what \in Parts :
                There(store', what, RunAt(t, i)) => Undoes(job[t].undo, what, RunAt(t, i))
        <5>1. pc[t] \in LockedSteps => \A i \in job[t].todo : lock[RunAt(t, i)] = t
          BY <2>1 DEF Holding
        <5> QED
          BY <1>5, <2>1, <3>1, <5>1 DEF Faultless
      <4>3. pc[t] = "undo" => job[t].undo = <<>>
        BY <2>1 DEF Faultless
      <4> QED
        BY <1>2, <1>7, <4>1, <4>2, <4>3 DEF Faultless
    <3>5. Undoable(t)'
      <4> SUFFICES ASSUME faults <= 1, pc[t] \in Writing, NEW r \in ToWrite(t) \ died, lock[r] = t
                   PROVE  \/ There(store', "record", r) /\ \A what \in Parts \ {"dir"} : ~Undoes(job[t].undo, what, r)
                          \/ \A what \in Parts : There(store', what, r) => Undoes(job[t].undo, what, r)
        BY <1>2, <1>7 DEF Undoable
      <4>1. \/ There(store, "record", r) /\ \A what \in Parts \ {"dir"} : ~Undoes(job[t].undo, what, r)
            \/ \A what \in Parts : There(store, what, r) => Undoes(job[t].undo, what, r)
        BY <2>1 DEF Undoable
      <4> QED
        BY <1>5, <3>1, <4>1 DEF Parts
    <3> QED
      BY <3>2, <3>3, <3>4, <3>5
  <2> QED
    BY <2>2, <2>3
<1> QED
  BY <1>6, <1>8, <1>9 DEF UndoInv

\* Nothing is there at first.
LEMMA UndoInit == Init => UndoInv
<1> SUFFICES ASSUME Init PROVE UndoInv
  OBVIOUS
<1>1. /\ store = EmptyStore /\ faults = 0 /\ died = {}
      /\ \A s \in Services : pc[s] = "idle"
  BY DEF Init
<1>2. \A r, what : what \in Parts => ~There(store, what, r)
  <2>1. store.dirs = {} /\ store.refs = {} /\ store.ledgers = <<>> /\ store.records = <<>> /\ DOMAIN <<>> = {}
    BY <1>1 DEF EmptyStore
  <2> QED
    BY <2>1 DEF There, Parts, RefsOfRun
<1>3. Counted /\ DirFirst /\ Covered
  BY <1>1, <1>2 DEF Counted, DirFirst, Covered, Residue, Parts
<1>4. \A s \in Services : Stacked(s) /\ Reached(s) /\ Faultless(s) /\ Undoable(s)
  BY <1>1 DEF Stacked, Reached, Faultless, Undoable, ImportSteps, LockedSteps, Writing
<1> QED
  BY <1>3, <1>4 DEF UndoInv

\* The definitions look at the state only.
LEMMA UndoStays ==
  ASSUME UndoInv, UNCHANGED vars
  PROVE  UndoInv'
<1>1. /\ store' = store /\ file' = file /\ lock' = lock /\ pc' = pc /\ job' = job /\ faults' = faults /\ died' = died
  BY DEF vars
<1>2. \A t : /\ BundleOf(t)' = BundleOf(t) /\ ToWrite(t)' = ToWrite(t)
             /\ \A i : RunAt(t, i)' = RunAt(t, i)
  BY <1>1 DEF BundleOf, At, ToWrite, RunAt
<1>3. Counted' /\ DirFirst' /\ Covered'
  BY <1>1, <1>2 DEF UndoInv, Counted, DirFirst, Covered
<1>4. ASSUME NEW t \in Services PROVE Stacked(t)' /\ Reached(t)' /\ Faultless(t)' /\ Undoable(t)'
  <2>1. Stacked(t) /\ Reached(t) /\ Faultless(t) /\ Undoable(t)
    BY DEF UndoInv
  <2>2. Stacked(t)'
    BY <1>1, <1>2, <2>1 DEF Stacked
  <2>3. Reached(t)'
    BY <1>1, <1>2, <2>1 DEF Reached
  <2>4. Faultless(t)'
    BY <1>1, <1>2, <2>1 DEF Faultless
  <2>5. Undoable(t)'
    BY <1>1, <1>2, <2>1 DEF Undoable
  <2> QED
    BY <2>2, <2>3, <2>4, <2>5
<1> QED
  BY <1>3, <1>4 DEF UndoInv

\* Every step keeps the invariant.
LEMMA UndoNext == ImportInv /\ ImportInv' /\ UndoInv /\ [Next]_vars => UndoInv'
<1> SUFFICES ASSUME ImportInv, ImportInv', UndoInv, [Next]_vars PROVE UndoInv'
  OBVIOUS
<1>1. ASSUME NEW s \in Services, ImportRuns(s) PROVE UndoInv'
  <2>1. \/ Import(s) \/ Lock(s) \/ Recheck(s)
        \/ WriteObjects(s) \/ WriteObjectsFails(s) \/ WriteBlobs(s) \/ WriteBlobsFails(s)
        \/ WriteFails(s, "lock") \/ WriteFails(s, "recheck")
        \/ MakeDir(s) \/ WriteEvents(s) \/ CreateRefs(s) \/ WriteRecord(s) \/ Sync(s)
        \/ \E step \in {"dir", "events", "refs", "record", "sync"} : WriteFails(s, step)
        \/ Undo(s) \/ Release(s)
    BY <1>1 DEF ImportRuns
  <2> QED
    BY <2>1, ImportUndo, EarlySteps, DirUndo, EventsUndo, RefsUndo, RecordUndo, SyncUndo, FailUndo, RollbackUndo,
       OutsideKeeps
<1>2. ASSUME NEW s \in Services, Progress(s) \/ Reindex(s) \/ Crash(s) PROVE UndoInv'
  BY <1>1, <1>2, OutsideKeeps DEF Progress
<1>3. CASE EngineAppends
  BY <1>3, EngineUndo
<1>4. CASE UNCHANGED vars
  BY <1>4, UndoStays
<1> QED
  BY <1>2, <1>3, <1>4 DEF Next

\* An import is all or nothing, whatever other imports, reindexes and engines do: a
\* rollback comes to everything that its import created, so nothing is left of a run
\* that is not visible unless its process died or a second write failed
\* (importBundle); and what was written and returned stays.
THEOREM ImportsUndone == Spec => []ImportsAllOrNothing
<1>1. UndoInv => FailedImportUndone
  <2> SUFFICES ASSUME UndoInv, faults <= 1, NEW r \in Runs \ died,
                      \A s \in Services : pc[s] \in Writing => r \notin ToWrite(s),
                      ~Absent(store, r) \/ r \in DOMAIN store.ledgers
               PROVE  r \in DOMAIN store.records
    BY DEF FailedImportUndone
  <2>1. ~Residue(store, r)
    BY DEF UndoInv, Covered
  <2>2. \E what \in Parts : There(store, what, r)
    BY AbsentParts DEF There, Parts
  <2> QED
    BY <2>1, <2>2 DEF Residue, There
<1>2. Spec => []ImportInv
  BY ImportInvariant
<1>3. Spec => []AckedImportStays
  BY AckedImports
<1>4. Init => UndoInv
  BY UndoInit
<1>5. ImportInv /\ ImportInv' /\ UndoInv /\ [Next]_vars => UndoInv'
  BY UndoNext
<1>6. Spec => []UndoInv
  BY <1>2, <1>4, <1>5, PTL DEF Spec
<1>7. FailedImportUndone /\ AckedImportStays => ImportsAllOrNothing
  BY DEF ImportsAllOrNothing
<1> QED
  BY <1>1, <1>3, <1>6, <1>7, PTL

-----------------------------------------------------------------------------
(* A visible run is whole: what is there of a run and what its import brings,  *)
(* and the order in which an import writes and a rollback removes.           *)

\* The state of a checkpoint is its own, or was left to the store.
Stated(c) == MatchesState(c) \/ \E bundle \in Bundles : LeavesState(bundle, c)

\* An object is in the repository, and of the type that its referrer requires.
Found(ref) == ref.sha \in store.objects /\ ObjectContent[ref.sha].type = ref.type

\* A ledger is chained, and the store has all that it needs but its refs.
Filled(r, events) ==
  /\ ChainHolds(r, events)
  /\ PayloadsOf(events) \subseteq store.blobs
  /\ \A c \in CheckpointsFromLedger(events) :
       /\ c.state \in store.blobs /\ Stated(c)
       /\ cut \/ Found([sha |-> c.commit, type |-> "commit"])

\* What objects refer to is there.
Closed == cut \/ \A sha \in store.objects : \A ref \in ObjectContent[sha].refs : Found(ref)

\* What verifyBundle has found of a run, and what others cannot take back.
Vetted(bundle, r) ==
  LET events == bundle.ledgers[r]
  IN  /\ r \in DOMAIN bundle.ledgers /\ ChainHolds(r, events)
      /\ PayloadsOf(events) \subseteq Available(bundle, store)
      /\ \A c \in CheckpointsFromLedger(events) :
           /\ RefOf(c) \in bundle.refs /\ c.state \in Available(bundle, store)
           /\ c.state \in DOMAIN bundle.blobs => MatchesState(c)
      /\ \A ref \in RunWalk(bundle, r) :
           /\ ref.sha \in DOMAIN bundle.objects \/ ref.sha \in store.objects
           /\ ObjectContent[ref.sha].type = ref.type

\* The steps of an import up to its last write, and those after its objects and
\* after its blobs are written.
Entered == {"lock"} \cup LockedSteps
PastBlobs == {"dir", "events", "refs", "record", "sync"}
PastObjects == {"blobs"} \cup PastBlobs

\* What an import brings, and what of it is there already.
Brings(s) ==
  pc[s] \in Entered =>
    \A r \in ToWrite(s) :
      /\ Vetted(BundleOf(s), r)
      /\ pc[s] \in PastObjects => RunObjects(BundleOf(s), r) \subseteq store.objects
      /\ pc[s] \in PastBlobs => RunBlobs(BundleOf(s), r) \subseteq store.blobs

DataInv ==
  /\ \A r \in DOMAIN store.ledgers : Filled(r, store.ledgers[r])
  /\ Closed
  /\ \A s \in Services : Brings(s)

\* Refs and a record come after the ledger, and go before it; and a visible run has
\* its refs.
OrderedAt(st, r) ==
  /\ There(st, "refs", r) \/ There(st, "record", r) => There(st, "events", r)
  /\ There(st, "record", r) =>
       \A c \in CheckpointsFromLedger(EventLog(st, r)) : RefOf(c) \in st.refs
Ordered == faults <= 1 => \A r \in Runs : OrderedAt(store, r)

\* A rollback removes none of what a directory holds, or all of it.
Contents == Parts \ {"dir"}
Withdraws(s) ==
  faults <= 1 /\ pc[s] \in Writing =>
    \A r \in ToWrite(s) :
      lock[r] = s =>
        \/ \A what \in Contents : ~Undoes(job[s].undo, what, r)
        \/ \A what \in Contents : There(store, what, r) => Undoes(job[s].undo, what, r)

\* The refs of its bundle are there before its records are.
Refers(s) ==
  pc[s] \in {"record", "sync"} =>
    \A r \in ToWrite(s) : RefsOfRun(BundleOf(s).refs, r) \subseteq store.refs

OrderInv ==
  /\ Ordered
  /\ \A s \in Services : Withdraws(s) /\ Refers(s)

-----------------------------------------------------------------------------
(* What is reached, and what a verified bundle and a sealed event hold.      *)

\* A walk is its roots, and what every set has that has all that it leads to.
LEMMA LeastClosed ==
  ASSUME NEW known, NEW roots
  PROVE  LET found == UNION {ObjectContent[sha].refs : sha \in known}
             closed == {more \in SUBSET found : Leads(known, roots \cup more) \subseteq more}
         IN  Walk(known, roots) = roots \cup {r \in found : \A more \in closed : r \in more}
<1> DEFINE found == UNION {ObjectContent[sha].refs : sha \in known}
           closed == {more \in SUBSET found : Leads(known, roots \cup more) \subseteq more}
<1>1. ASSUME NEW r \in found
      PROVE  (\A more \in closed : r \in more)
               <=> \A more \in SUBSET (found \ {r}) : ~(Leads(known, roots \cup more) \subseteq more)
  <2> HIDE DEF found
  <2>1. ASSUME NEW more \in SUBSET found
        PROVE  more \in SUBSET (found \ {r}) <=> r \notin more
    OBVIOUS
  <2>2. \A more : more \in SUBSET (found \ {r}) => more \in SUBSET found
    OBVIOUS
  <2> QED
    BY <2>1, <2>2
<1>2. Walk(known, roots) =
        roots \cup {r \in found : \A more \in SUBSET (found \ {r}) :
                                     ~(Leads(known, roots \cup more) \subseteq more)}
  BY DEF Walk
<1> HIDE DEF found, closed
<1>3. Walk(known, roots) = roots \cup {r \in found : \A more \in closed : r \in more}
  BY <1>1, <1>2
<1> QED
  BY <1>3 DEF found, closed

\* A walk goes on from all that it reaches, and it reaches nothing else.
LEMMA WalkCloses ==
  ASSUME NEW known, NEW roots
  PROVE  /\ roots \subseteq Walk(known, roots)
         /\ \A ref \in Walk(known, roots) : ref.sha \in known =>
              ObjectContent[ref.sha].refs \subseteq Walk(known, roots)
<1> DEFINE found == UNION {ObjectContent[sha].refs : sha \in known}
           closed == {more \in SUBSET found : Leads(known, roots \cup more) \subseteq more}
           W == Walk(known, roots)
<1>1. W = roots \cup {r \in found : \A more \in closed : r \in more}
  BY LeastClosed
<1> HIDE DEF W
<1>2. ASSUME NEW ref \in W, ref.sha \in known, NEW to \in ObjectContent[ref.sha].refs
      PROVE  to \in W
  <2>1. to \in found
    BY <1>2
  <2>2. ASSUME NEW more \in closed PROVE to \in more
    <3>1. ref \in roots \cup more
      BY <1>1, <2>2
    <3>2. ref.sha \in known \cap {r.sha : r \in roots \cup more}
      BY <1>2, <3>1
    <3>3. to \in Leads(known, roots \cup more)
      BY <1>2, <3>2 DEF Leads
    <3> QED
      BY <2>2, <3>3
  <2> QED
    BY <1>1, <2>1, <2>2
<1> QED
  BY <1>1, <1>2 DEF W

\* What holds of the roots, and of all that an object that it holds of refers to,
\* holds of all that is reached.
LEMMA WalkReaches ==
  ASSUME NEW known, NEW roots, NEW Good, roots \subseteq Good,
         \A ref \in Good : ref.sha \in known => ObjectContent[ref.sha].refs \subseteq Good
  PROVE  Walk(known, roots) \subseteq Good
<1> DEFINE found == UNION {ObjectContent[sha].refs : sha \in known}
           closed == {more \in SUBSET found : Leads(known, roots \cup more) \subseteq more}
           more == found \cap Good
<1>1. Leads(known, roots \cup more) \subseteq more
  <2> SUFFICES ASSUME NEW to \in Leads(known, roots \cup more) PROVE to \in more
    OBVIOUS
  <2>1. PICK sha \in known \cap {r.sha : r \in roots \cup more} : to \in ObjectContent[sha].refs
    BY DEF Leads
  <2>2. PICK ref \in roots \cup more : sha = ref.sha
    BY <2>1
  <2>3. ref \in Good
    BY <2>2
  <2> QED
    BY <2>1, <2>2, <2>3
<1>2. more \in closed
  BY <1>1
<1> HIDE DEF more
<1>3. Walk(known, roots) = roots \cup {r \in found : \A m \in closed : r \in m}
  BY LeastClosed
<1>4. Walk(known, roots) \subseteq roots \cup more
  BY <1>2, <1>3
<1> QED
  BY <1>4 DEF more

\* The checks of a bundle that was verified.
LEMMA VerifiedRuns ==
  ASSUME NEW bundle, IsBundle(bundle), NEW st, Verify(bundle, st) = "ok"
  PROVE  /\ \A i \in DOMAIN bundle.manifest.runs : RunError(bundle, st, bundle.manifest.runs[i]) = "ok"
         /\ GraphError(bundle, st) = "ok"
<1> DEFINE runs == bundle.manifest.runs
           bad == {i \in DOMAIN runs : RunError(bundle, st, runs[i]) # "ok"}
<1>1. bad = {} \/ RunError(bundle, st, runs[Min(bad)]) = "ok"
  BY DEF Verify
<1>2. DOMAIN runs \subseteq Nat
  BY DEF IsBundle
<1>3. bad \in SUBSET Nat
  BY <1>2
<1>4. bad # {} => Min(bad) \in bad
  <2> HIDE DEF bad
  <2> QED
    BY <1>3, LeastOf
<1>5. bad = {}
  BY <1>1, <1>4
<1>6. GraphError(bundle, st) = "ok"
  BY <1>5 DEF Verify
<1> QED
  BY <1>5, <1>6

\* The first bad checkpoint of a ledger, of which verifyBundle tells, is one of the
\* bad ones.
LEMMA FirstBad ==
  ASSUME NEW run, NEW events, IsLedger(events), ChainHolds(run, events),
         NEW bad \in SUBSET CheckpointsFromLedger(events), bad # {}
  PROVE  (CHOOSE c \in bad : c.seq = Min({d.seq : d \in bad})) \in bad
<1> DEFINE seqs == {d.seq : d \in bad}
<1>1. \A c \in CheckpointsFromLedger(events) : c.seq \in Nat
  <2>1. \A i \in DOMAIN events : i \in Nat /\ events[i].seq = i
    BY DEF IsLedger, ChainHolds
  <2> QED
    BY <2>1 DEF CheckpointsFromLedger, DeclaredAt
<1>2. seqs \in SUBSET Nat /\ seqs # {}
  BY <1>1
<1>3. Min(seqs) \in seqs
  <2> HIDE DEF seqs
  <2> QED
    BY <1>2, LeastOf
<1>4. \E c \in bad : c.seq = Min(seqs)
  BY <1>3
<1> QED
  BY <1>4, Zenon

\* So a verdict on the checkpoints of a run is the verdict on one of them.
LEMMA CheckpointsVerdict ==
  ASSUME NEW bundle, NEW st, NEW run,
         run \in DOMAIN bundle.records, run \in DOMAIN bundle.ledgers,
         bundle.records[run] # "malformed", IsLedger(bundle.ledgers[run]),
         ChainHolds(run, bundle.ledgers[run]),
         PayloadsOf(bundle.ledgers[run]) \subseteq Available(bundle, st)
  PROVE  LET declared == CheckpointsFromLedger(bundle.ledgers[run])
         IN  \/ \E c \in declared :
                  /\ CheckpointError(bundle, st, c) # "ok"
                  /\ RunError(bundle, st, run) = CheckpointError(bundle, st, c)
             \/ /\ \A c \in declared : CheckpointError(bundle, st, c) = "ok"
                /\ RunError(bundle, st, run)
                     = IF Cardinality(RefsOfRun(bundle.refs, run)) # Cardinality(declared)
                       THEN "ERR_INVALID_BUNDLE" ELSE "ok"
<1> DEFINE events == bundle.ledgers[run]
           declared == CheckpointsFromLedger(events)
           bad == {c \in declared : CheckpointError(bundle, st, c) # "ok"}
           first == CHOOSE c \in bad : c.seq = Min({d.seq : d \in bad})
<1>1. RunError(bundle, st, run)
        = IF bad # {} THEN CheckpointError(bundle, st, first)
          ELSE IF Cardinality(RefsOfRun(bundle.refs, run)) # Cardinality(declared)
               THEN "ERR_INVALID_BUNDLE" ELSE "ok"
  BY DEF RunError
<1>2. bad # {} => first \in bad
  <2>1. bad \in SUBSET declared
    OBVIOUS
  <2> HIDE DEF bad
  <2> QED
    BY <2>1, FirstBad
<1>3. \A c : c \in bad <=> c \in declared /\ CheckpointError(bundle, st, c) # "ok"
  OBVIOUS
<1> HIDE DEF first, bad
<1>4. CASE bad # {}
  BY <1>1, <1>2, <1>3, <1>4
<1>5. CASE bad = {}
  BY <1>1, <1>3, <1>5
<1> QED
  BY <1>4, <1>5

\* They are what an import relies on.
LEMMA VerifiedVetted ==
  ASSUME NEW bundle, IsBundle(bundle), Verify(bundle, store) = "ok",
         NEW i \in DOMAIN bundle.manifest.runs, NEW r, r = bundle.manifest.runs[i]
  PROVE  Vetted(bundle, r)
<1>1. RunError(bundle, store, r) = "ok" /\ GraphError(bundle, store) = "ok"
  BY VerifiedRuns
<1>2. /\ r \in DOMAIN bundle.ledgers /\ ChainHolds(r, bundle.ledgers[r])
      /\ PayloadsOf(bundle.ledgers[r]) \subseteq Available(bundle, store)
      /\ \A c \in CheckpointsFromLedger(bundle.ledgers[r]) :
           /\ RefOf(c) \in bundle.refs /\ c.state \in Available(bundle, store)
           /\ c.state \in DOMAIN bundle.blobs => MatchesState(c)
  <2>1. /\ r \in DOMAIN bundle.records /\ r \in DOMAIN bundle.ledgers
        /\ bundle.records[r] # "malformed" /\ ChainHolds(r, bundle.ledgers[r])
        /\ PayloadsOf(bundle.ledgers[r]) \subseteq Available(bundle, store)
    BY <1>1 DEF RunError
  <2>2. IsLedger(bundle.ledgers[r])
    BY <2>1 DEF IsBundle
  <2>3. \A c \in CheckpointsFromLedger(bundle.ledgers[r]) : CheckpointError(bundle, store, c) = "ok"
    BY <1>1, <2>1, <2>2, CheckpointsVerdict
  <2> QED
    BY <2>1, <2>3 DEF CheckpointError
<1> DEFINE walk == UNION {RunWalk(bundle, q) : q \in ToSet(bundle.manifest.runs)}
<1>3. r \in ToSet(bundle.manifest.runs)
  BY DEF ToSet
<1>4. RunWalk(bundle, r) \subseteq walk
  BY <1>3
<1>5. \A ref \in walk :
        /\ ref.sha \in DOMAIN bundle.objects \/ ref.sha \in store.objects
        /\ ObjectContent[ref.sha].type = ref.type
  BY <1>1 DEF GraphError
<1> QED
  BY <1>2, <1>4, <1>5 DEF Vetted

\* The checkpoints of a ledger are of its run.
LEMMA CheckpointsOfRun ==
  ASSUME NEW r, NEW L, ChainHolds(r, L)
  PROVE  \A c \in CheckpointsFromLedger(L) : c.run = r
BY DEF ChainHolds, CheckpointsFromLedger, DeclaredAt

\* What an engine appends keeps the chain, and needs nothing.
LEMMA SealedLedger ==
  ASSUME NEW r, NEW L, IsLedger(L), ChainHolds(r, L), NEW M, M = Seal(r, L, NewEvent)
  PROVE  /\ ChainHolds(r, M) /\ PayloadsOf(M) \subseteq PayloadsOf(L)
         /\ CheckpointsFromLedger(M) \subseteq CheckpointsFromLedger(L)
<1> DEFINE e == [run |-> r, seq |-> Len(L) + 1,
                 body |-> NewEvent, text |-> BodyContent[NewEvent].text,
                 prev |-> HeadOf(L).hash,
                 hash |-> Append(HeadOf(L).hash, NewEvent)]
           n == Len(L)
<1>1. M = Append(L, e) /\ n \in Nat /\ L \in Seq(ToSet(L))
  BY DEF Seal, IsLedger
<1>2. /\ DOMAIN L = 1..n /\ DOMAIN M = 1..(n + 1) /\ M[n + 1] = e
      /\ \A i \in 1..n : M[i] = L[i]
  <2> DEFINE S == ToSet(L) \cup {e}
  <2>1. L \in Seq(S) /\ e \in S
    BY <1>1
  <2> HIDE DEF S, e
  <2> QED
    BY <1>1, <2>1
<1>3. \A i \in 0..n : SubSeq(M, 1, i) = SubSeq(L, 1, i)
  <2> HIDE DEF e
  <2> QED
    BY <1>1, LedgerGrows
<1>4. SubSeq(L, 1, n) = L
  BY <1>1
<1> HIDE DEF n
<1>5. /\ e.run = r /\ e.seq = n + 1 /\ e.body = NewEvent /\ e.text = BodyContent[NewEvent].text
      /\ e.prev = HeadOf(L).hash /\ e.hash = Append(e.prev, e.body)
  BY DEF n
<1> HIDE DEF e
<1>6. ChainHolds(r, M)
  <2> SUFFICES ASSUME NEW i \in 1..(n + 1)
               PROVE  /\ M[i].run = r
                      /\ M[i].seq = i
                      /\ M[i].prev = HeadOf(SubSeq(M, 1, i - 1)).hash
                      /\ M[i].hash = Append(M[i].prev, M[i].body)
                      /\ M[i].text = BodyContent[M[i].body].text
    BY <1>2 DEF ChainHolds
  <2>1. CASE i = n + 1
    <3>1. i - 1 = n /\ n \in 0..n
      BY <1>1, <2>1 DEF n
    <3>2. SubSeq(M, 1, i - 1) = L
      BY <1>3, <1>4, <3>1
    <3> QED
      BY <1>2, <1>5, <2>1, <3>2
  <2>2. CASE i # n + 1
    <3>1. i \in 1..n /\ i - 1 \in 0..n
      BY <1>1, <2>2 DEF n
    <3>2. /\ L[i].run = r
          /\ L[i].seq = i
          /\ L[i].prev = HeadOf(SubSeq(L, 1, i - 1)).hash
          /\ L[i].hash = Append(L[i].prev, L[i].body)
          /\ L[i].text = BodyContent[L[i].body].text
      BY <1>2, <3>1 DEF ChainHolds
    <3> QED
      BY <1>2, <1>3, <3>1, <3>2
  <2> QED
    BY <2>1, <2>2
<1>7. PayloadsOf(M) \subseteq PayloadsOf(L)
  <2> SUFFICES ASSUME NEW i \in 1..(n + 1), BodyContent[M[i].body].payload # NoBlob
               PROVE  BodyContent[M[i].body].payload \in PayloadsOf(L)
    BY <1>2 DEF PayloadsOf, Said, ToSet
  <2>1. i # n + 1
    BY <1>2, <1>5, AppendAssumption
  <2>2. i \in 1..n
    BY <1>1, <2>1 DEF n
  <2> QED
    BY <1>2, <2>2 DEF PayloadsOf, Said, ToSet
<1>8. CheckpointsFromLedger(M) \subseteq CheckpointsFromLedger(L)
  <2> SUFFICES ASSUME NEW c \in CheckpointsFromLedger(M) PROVE c \in CheckpointsFromLedger(L)
    OBVIOUS
  <2>1. PICK i \in 1..(n + 1) :
          /\ c = Declared(M[i]) /\ DeclaredAt(M, i)
          /\ \A j \in 1..(i - 1) : DeclaredAt(M, j) => Declared(M[j]).id # Declared(M[i]).id
    BY <1>2 DEF CheckpointsFromLedger
  <2>2. i # n + 1
    BY <1>2, <1>5, <2>1, AppendAssumption DEF DeclaredAt, Declared
  <2>3. i \in 1..n /\ \A j \in 1..(i - 1) : j \in 1..n
    BY <1>1, <2>2 DEF n
  <2>4. \A j \in 1..n : DeclaredAt(M, j) <=> DeclaredAt(L, j)
    BY <1>2 DEF DeclaredAt
  <2>5. c = Declared(L[i]) /\ DeclaredAt(L, i)
    BY <1>2, <2>1, <2>3, <2>4
  <2>6. \A j \in 1..(i - 1) : DeclaredAt(L, j) => Declared(L[j]).id # Declared(L[i]).id
    BY <1>2, <2>1, <2>3, <2>4
  <2> QED
    BY <1>2, <2>3, <2>5, <2>6 DEF CheckpointsFromLedger
<1> QED
  BY <1>6, <1>7, <1>8

-----------------------------------------------------------------------------
(* What others cannot take back.                                             *)

\* Blobs and objects only come, and bundles do not change.
Fuller ==
  /\ store.blobs \subseteq store'.blobs /\ store.objects \subseteq store'.objects
  /\ cut => cut'
  /\ FileStays

\* What a ledger has it keeps, and what was verified stays true.
LEMMA FullerKeeps ==
  ASSUME Fuller
  PROVE  /\ \A r, L : Filled(r, L) => Filled(r, L)'
         /\ \A bundle, r : Vetted(bundle, r) => Vetted(bundle, r)'
<1>1. \A c : Stated(c) => Stated(c)'
  <2>1. Bundles \subseteq Bundles'
    BY DEF Fuller, FileStays, Bundles
  <2> QED
    BY <2>1 DEF Stated
<1>2. \A ref : Found(ref) => Found(ref)'
  BY DEF Fuller, Found
<1>3. \A r, L : Filled(r, L) => Filled(r, L)'
  BY <1>1, <1>2 DEF Filled, Fuller
<1>4. \A bundle : Available(bundle, store) \subseteq Available(bundle, store')
  BY DEF Fuller, Available
<1>5. \A bundle, r : Vetted(bundle, r) => Vetted(bundle, r)'
  BY <1>4 DEF Vetted, Fuller
<1> QED
  BY <1>3, <1>5

\* A service that does not move still brings what it brought.
LEMMA OthersBring ==
  ASSUME ImportInv, Fuller, NEW t \in Services, Brings(t), pc'[t] = pc[t], job'[t] = job[t]
  PROVE  Brings(t)'
<1>1. CASE pc[t] \notin Entered
  BY <1>1 DEF Brings
<1>2. CASE pc[t] \in Entered
  <2>1. pc[t] \in ImportSteps /\ Typed /\ Importing(t)
    BY <1>2 DEF Entered, ImportSteps, ImportInv, Sound
  <2>2. BundleOf(t)' = BundleOf(t)
    BY <2>1, BundleStays DEF Fuller
  <2>3. ToWrite(t)' = ToWrite(t)
    BY <2>2 DEF ToWrite
  <2>4. \A r \in ToWrite(t) : Vetted(BundleOf(t), r)'
    <3> TAKE r \in ToWrite(t)
    <3>1. Vetted(BundleOf(t), r)
      BY <1>2 DEF Brings
    <3> DEFINE bundle == BundleOf(t)
    <3>2. ASSUME NEW b, b = bundle PROVE Vetted(b, r)'
      <4>1. Vetted(b, r)
        BY <3>1, <3>2
      <4> QED
        BY <4>1, FullerKeeps
    <3> QED
      BY <2>2, <3>2 DEF Vetted
  <2> QED
    BY <1>2, <2>2, <2>3, <2>4 DEF Brings, Fuller
<1> QED
  BY <1>1, <1>2

-----------------------------------------------------------------------------
(* The steps of an import, by what they have in common.                      *)

\* All but the first and the last.
Working(s) ==
  \/ Lock(s) \/ Recheck(s)
  \/ WriteObjects(s) \/ WriteObjectsFails(s) \/ WriteBlobs(s) \/ WriteBlobsFails(s)
  \/ MakeDir(s) \/ WriteEvents(s) \/ CreateRefs(s) \/ WriteRecord(s) \/ Sync(s)
  \/ \E step \in {"lock", "recheck", "dir", "events", "refs", "record", "sync"} : WriteFails(s, step)
  \/ Undo(s)

\* An import goes on with the runs of its bundle that it is to write.
Continues(s) ==
  /\ Moved(s) /\ pc[s] \in ImportSteps
  /\ job'[s].path = job[s].path /\ job'[s].todo = job[s].todo

\* It does, and comes to a step after its objects or blobs by writing them.
LEMMA WorkContinues ==
  ASSUME ImportInv, ImportInv', NEW s \in Services, Working(s)
  PROVE  /\ Continues(s)
         /\ pc'[s] \in Entered => pc[s] \in Entered
         /\ pc'[s] \in PastObjects => pc[s] \in PastObjects \/ WriteObjects(s)
         /\ pc'[s] \in PastBlobs => pc[s] \in PastBlobs \/ WriteBlobs(s)
<1> DEFINE Stays == Moved(s) /\ job'[s].path = job[s].path /\ job'[s].todo = job[s].todo
<1>1. Typed /\ Typed' /\ DOMAIN job[s] = JobFields
  BY DEF ImportInv, Typed
<1>2. ASSUME NEW step, NEW j, Goto(s, step, j), j.path = job[s].path, j.todo = job[s].todo
      PROVE  Stays /\ pc'[s] = step
  <2>1. Moved(s)
    BY <1>1, <1>2, ShiftsMove DEF Shifts
  <2> QED
    BY <1>1, <1>2, <2>1 DEF Goto, Go, Typed
<1>3. ASSUME NEW step, Go(s, step), job' = job PROVE Stays /\ pc'[s] = step
  <2>1. Moved(s)
    BY <1>1, <1>3, ShiftsMove DEF Shifts
  <2> QED
    BY <1>1, <1>3, <2>1 DEF Go, Typed
<1>4. ASSUME NEW result, Throw(s, result) PROVE Stays /\ pc'[s] = "undo"
  <2> DEFINE j == [job[s] EXCEPT !.result = result]
  <2>1. Goto(s, "undo", j) /\ j.path = job[s].path /\ j.todo = job[s].todo
    BY <1>1, <1>4 DEF Throw, JobFields
  <2> HIDE DEF j
  <2> QED
    BY <1>2, <2>1
<1>5. ASSUME NEW j, DOMAIN j = JobFields, j.path = job[s].path, j.todo = job[s].todo,
             NEW loop, NEW then, NextRun(s, j, loop, then)
      PROVE  Stays /\ pc'[s] \in {loop, then}
  <2>1. ASSUME NEW n, NEW step, step \in {loop, then}, Goto(s, step, [j EXCEPT !.at = n])
        PROVE  Stays /\ pc'[s] \in {loop, then}
    <3> DEFINE d == [j EXCEPT !.at = n]
    <3>1. Goto(s, step, d) /\ d.path = job[s].path /\ d.todo = job[s].todo
      BY <1>5, <2>1 DEF JobFields
    <3> HIDE DEF d
    <3>2. Stays /\ pc'[s] = step
      BY <1>2, <3>1
    <3> QED
      BY <2>1, <3>2
  <2> DEFINE later == {i \in job[s].todo : i > job[s].at}
             n1 == Min(later)
             n2 == Min(job[s].todo)
  <2>2. \/ Goto(s, loop, [j EXCEPT !.at = n1])
        \/ Goto(s, then, [j EXCEPT !.at = n2])
    BY <1>5 DEF NextRun
  <2> HIDE DEF n1, n2, later, Stays
  <2> QED
    BY <2>1, <2>2
<1>6. \A step : LET d == Done(job[s], step)
                IN  DOMAIN d = JobFields /\ d.path = job[s].path /\ d.todo = job[s].todo
  BY <1>1 DEF Done, JobFields
<1>7. CASE Lock(s)
  <2>1. pc[s] = "lock" /\ ((\E result : Throw(s, result)) \/ NextRun(s, job[s], "lock", "recheck"))
    BY <1>7 DEF Lock
  <2>2. Stays /\ pc'[s] \in {"undo", "lock", "recheck"}
    BY <1>1, <1>4, <1>5, <2>1
  <2> QED
    BY <2>1, <2>2 DEF Continues, Entered, PastObjects, PastBlobs, ImportSteps, LockedSteps
<1>8. CASE Recheck(s) \/ WriteObjects(s) \/ WriteBlobs(s)
  <2>1. \/ Recheck(s) /\ pc[s] = "recheck" /\ ((\E result : Throw(s, result)) \/ (Go(s, "objects") /\ job' = job))
        \/ WriteObjects(s) /\ pc[s] = "objects" /\ Go(s, "blobs") /\ job' = job
        \/ WriteBlobs(s) /\ pc[s] = "blobs" /\ Go(s, "dir") /\ job' = job
    BY <1>8 DEF Recheck, WriteObjects, WriteBlobs
  <2>2. /\ Stays
        /\ \/ pc[s] = "recheck" /\ pc'[s] \in {"undo", "objects"}
           \/ WriteObjects(s) /\ pc[s] = "objects" /\ pc'[s] = "blobs"
           \/ WriteBlobs(s) /\ pc[s] = "blobs" /\ pc'[s] = "dir"
    BY <1>3, <1>4, <2>1
  <2> QED
    BY <2>2 DEF Continues, Entered, PastObjects, PastBlobs, ImportSteps, LockedSteps
<1>9. CASE \/ WriteObjectsFails(s) \/ WriteBlobsFails(s)
           \/ \E step \in {"lock", "recheck", "dir", "events", "refs", "record", "sync"} : WriteFails(s, step)
  <2>1. pc[s] \in LockedSteps \cup {"lock"} /\ \E result : Throw(s, result)
    BY <1>9 DEF WriteObjectsFails, WriteBlobsFails, WriteFails, LockedSteps
  <2>2. Stays /\ pc'[s] = "undo"
    BY <1>4, <2>1
  <2> QED
    BY <2>1, <2>2 DEF Continues, Entered, PastObjects, PastBlobs, ImportSteps, LockedSteps
<1>10. CASE MakeDir(s) \/ CreateRefs(s) \/ WriteRecord(s)
  <2>1. /\ pc[s] \in PastBlobs
        /\ \/ \E result : Throw(s, result)
           \/ \E next \in PastBlobs : \E step : Goto(s, next, Done(job[s], step))
    BY <1>10 DEF MakeDir, CreateRefs, WriteRecord, PastBlobs
  <2>2. Stays /\ pc'[s] \in PastBlobs \cup {"undo"}
    BY <1>2, <1>4, <1>6, <2>1
  <2> QED
    BY <2>1, <2>2 DEF Continues, Entered, PastObjects, PastBlobs, ImportSteps, LockedSteps
<1>11. CASE WriteEvents(s)
  <2>1. /\ pc[s] \in PastBlobs
        /\ \/ \E result : Throw(s, result)
           \/ \E step : NextRun(s, Done(job[s], step), "dir", "refs")
    BY <1>11 DEF WriteEvents, PastBlobs
  <2>2. Stays /\ pc'[s] \in PastBlobs \cup {"undo"}
    BY <1>4, <1>5, <1>6, <2>1 DEF PastBlobs
  <2> QED
    BY <2>1, <2>2 DEF Continues, Entered, PastObjects, PastBlobs, ImportSteps, LockedSteps
<1>12. CASE Sync(s)
  <2>1. pc[s] \in PastBlobs /\ NextRun(s, job[s], "record", "release")
    BY <1>12 DEF Sync, PastBlobs
  <2>2. Stays /\ pc'[s] \in {"record", "release"}
    BY <1>1, <1>5, <2>1
  <2> QED
    BY <2>1, <2>2 DEF Continues, Entered, PastObjects, PastBlobs, ImportSteps, LockedSteps
<1>13. CASE Undo(s)
  <2>1. /\ pc[s] = "undo"
        /\ \/ Go(s, "release") /\ job' = job
           \/ pc' = pc /\ job' = [job EXCEPT ![s].undo = Tail(@)]
    BY <1>13 DEF Undo
  <2>2. CASE pc' = pc /\ job' = [job EXCEPT ![s].undo = Tail(@)]
    <3> DEFINE j == [job[s] EXCEPT !.undo = Tail(@)]
    <3>1. job' = [job EXCEPT ![s] = j] /\ j.path = job[s].path /\ j.todo = job[s].todo
      BY <1>1, <2>2 DEF JobFields
    <3> HIDE DEF j
    <3>2. Moved(s)
      BY <1>1, <2>2, <3>1, ShiftsMove DEF Shifts
    <3>3. Stays /\ pc'[s] = "undo"
      BY <1>1, <2>1, <2>2, <3>1, <3>2 DEF Typed
    <3> QED
      BY <2>1, <3>3 DEF Continues, Entered, PastObjects, PastBlobs, ImportSteps, LockedSteps
  <2>3. CASE Go(s, "release") /\ job' = job
    <3>1. Stays /\ pc'[s] = "release"
      BY <1>3, <2>3
    <3> QED
      BY <2>1, <3>1 DEF Continues, Entered, PastObjects, PastBlobs, ImportSteps, LockedSteps
  <2> QED
    BY <2>1, <2>2, <2>3
<1> QED
  BY <1>7, <1>8, <1>9, <1>10, <1>11, <1>12, <1>13 DEF Working

\* What a step has to satisfy.
LEMMA DataKept ==
  ASSUME ImportInv, DataInv, Fuller, Closed',
         \A t \in Services : (pc'[t] = pc[t] /\ job'[t] = job[t]) \/ Brings(t)',
         \A r \in DOMAIN store'.ledgers :
           \/ r \in DOMAIN store.ledgers /\ store'.ledgers[r] = store.ledgers[r]
           \/ Filled(r, store.ledgers[r])'
  PROVE  DataInv'
<1>1. ASSUME NEW r \in DOMAIN store'.ledgers PROVE Filled(r, store.ledgers[r])'
  <2>1. CASE r \in DOMAIN store.ledgers /\ store'.ledgers[r] = store.ledgers[r]
    <3>1. ASSUME NEW L, L = store.ledgers[r] PROVE Filled(r, L)'
      <4>1. Filled(r, L)
        BY <2>1, <3>1 DEF DataInv
      <4> QED
        BY <4>1, FullerKeeps
    <3> QED
      BY <2>1, <3>1 DEF Filled
  <2> QED
    BY <1>1, <2>1
<1>2. ASSUME NEW t \in Services PROVE Brings(t)'
  <2>1. CASE pc'[t] = pc[t] /\ job'[t] = job[t]
    BY <2>1, OthersBring DEF DataInv
  <2> QED
    BY <2>1
<1> QED
  BY <1>1, <1>2 DEF DataInv

\* An import that goes on brings what it brought, and what it has now written.
LEMMA BringsOn ==
  ASSUME ImportInv, NEW s \in Services, Brings(s), Continues(s), Fuller, file' = file,
         pc'[s] \in Entered => pc[s] \in Entered,
         pc'[s] \in PastObjects => pc[s] \in PastObjects \/ NeededObjects(s) \subseteq store'.objects,
         pc'[s] \in PastBlobs => pc[s] \in PastBlobs \/ NeededBlobs(s) \subseteq store'.blobs
  PROVE  Brings(s)'
<1> SUFFICES ASSUME pc'[s] \in Entered, NEW r \in ToWrite(s)'
             PROVE  /\ Vetted(BundleOf(s), r)'
                    /\ pc'[s] \in PastObjects => (RunObjects(BundleOf(s), r) \subseteq store.objects)'
                    /\ pc'[s] \in PastBlobs => (RunBlobs(BundleOf(s), r) \subseteq store.blobs)'
  BY DEF Brings
<1>1. /\ BundleOf(s)' = BundleOf(s) /\ ToWrite(s)' = ToWrite(s)
  BY SameBundle DEF Continues
<1>2. /\ r \in ToWrite(s) /\ Vetted(BundleOf(s), r)
      /\ pc[s] \in PastObjects => RunObjects(BundleOf(s), r) \subseteq store.objects
      /\ pc[s] \in PastBlobs => RunBlobs(BundleOf(s), r) \subseteq store.blobs
  BY <1>1 DEF Brings
<1>3. Vetted(BundleOf(s), r)'
  <2>1. ASSUME NEW b, b = BundleOf(s) PROVE Vetted(b, r)'
    <3>1. Vetted(b, r)
      BY <1>2, <2>1
    <3> QED
      BY <3>1, FullerKeeps
  <2> QED
    BY <1>1, <2>1 DEF Vetted
<1>4. pc'[s] \in PastObjects => RunObjects(BundleOf(s), r) \subseteq store'.objects
  BY <1>2 DEF NeededObjects, Fuller
<1>5. pc'[s] \in PastBlobs => RunBlobs(BundleOf(s), r) \subseteq store'.blobs
  BY <1>2 DEF NeededBlobs, Fuller
<1> QED
  BY <1>1, <1>3, <1>4, <1>5

\* A ledger that lands has all that it needs: its blobs and objects came before it.
LEMMA LandedFilled ==
  ASSUME NEW bundle, bundle \in Bundles, NEW r, Vetted(bundle, r),
         RunObjects(bundle, r) \subseteq store.objects, RunBlobs(bundle, r) \subseteq store.blobs
  PROVE  Filled(r, bundle.ledgers[r])
<1> DEFINE events == bundle.ledgers[r]
           roots == CommitRefs({x.sha : x \in RefsOfRun(bundle.refs, r)})
<1>1. /\ r \in DOMAIN bundle.ledgers /\ ChainHolds(r, events)
      /\ PayloadsOf(events) \subseteq Available(bundle, store)
      /\ \A c \in CheckpointsFromLedger(events) :
           /\ RefOf(c) \in bundle.refs /\ c.state \in Available(bundle, store)
           /\ c.state \in DOMAIN bundle.blobs => MatchesState(c)
      /\ \A ref \in RunWalk(bundle, r) :
           /\ ref.sha \in DOMAIN bundle.objects \/ ref.sha \in store.objects
           /\ ObjectContent[ref.sha].type = ref.type
  BY DEF Vetted
<1>2. \A b \in PayloadsOf(events) \cup {c.state : c \in CheckpointsFromLedger(events)} :
        b \in DOMAIN bundle.blobs => b \in RunBlobs(bundle, r)
  <2>1. ASSUME NEW b \in PayloadsOf(events), b \in DOMAIN bundle.blobs PROVE b \in RunBlobs(bundle, r)
    BY <2>1 DEF RunBlobs
  <2>2. ASSUME NEW c \in CheckpointsFromLedger(events), c.state \in DOMAIN bundle.blobs
        PROVE  c.state \in RunBlobs(bundle, r)
    BY <2>2 DEF RunBlobs
  <2> QED
    BY <2>1, <2>2
<1>3. PayloadsOf(events) \subseteq store.blobs
  BY <1>1, <1>2 DEF Available
<1>4. ASSUME NEW c \in CheckpointsFromLedger(events)
      PROVE  /\ c.state \in store.blobs /\ Stated(c)
             /\ Found([sha |-> c.commit, type |-> "commit"])
  <2>1. c.state \in store.blobs
    BY <1>1, <1>2 DEF Available
  <2>2. c.run = r
    BY <1>1, CheckpointsOfRun
  <2>3. Stated(c)
    BY <1>1, <2>2 DEF Stated, LeavesState
  <2> DEFINE ref == [sha |-> c.commit, type |-> "commit"]
  <2>4. ref \in roots
    <3> DEFINE x == RefOf(c)
    <3>1. x \in bundle.refs /\ x.run = r /\ x.sha = c.commit
      BY <1>1, <2>2 DEF RefOf
    <3> HIDE DEF x
    <3>2. c.commit \in {y.sha : y \in RefsOfRun(bundle.refs, r)}
      BY <3>1 DEF RefsOfRun
    <3> QED
      BY <3>2 DEF CommitRefs
  <2>5. ref \in RunWalk(bundle, r)
    BY <2>4, WalkCloses DEF RunWalk
  <2>6. ref.sha \in RunObjects(bundle, r) \/ ref.sha \in store.objects
    BY <1>1, <2>5 DEF RunObjects
  <2> QED
    BY <1>1, <2>1, <2>3, <2>5, <2>6 DEF Found
<1> QED
  BY <1>1, <1>3, <1>4 DEF Filled

\* So have the objects that an import writes all that they refer to.
LEMMA WrittenClosed ==
  ASSUME ImportInv, Closed, NEW s \in Services, Brings(s), pc[s] \in Entered,
         cut' = cut, store'.objects = store.objects \cup NeededObjects(s)
  PROVE  Closed'
<1> SUFFICES ASSUME ~cut, NEW sha \in store'.objects, NEW ref \in ObjectContent[sha].refs
             PROVE  Found(ref)'
  BY DEF Closed
<1>1. CASE sha \in store.objects
  <2>1. Found(ref)
    BY <1>1 DEF Closed
  <2> QED
    BY <2>1 DEF Found
<1>2. CASE sha \in NeededObjects(s)
  <2>1. PICK r \in ToWrite(s) : sha \in RunObjects(BundleOf(s), r)
    BY <1>2 DEF NeededObjects
  <2> DEFINE bundle == BundleOf(s)
             roots == CommitRefs({x.sha : x \in RefsOfRun(bundle.refs, r)})
  <2>2. Vetted(bundle, r)
    BY DEF Brings
  <2>3. sha \in DOMAIN bundle.objects /\ \E from \in RunWalk(bundle, r) : from.sha = sha
    BY <2>1 DEF RunObjects
  <2>4. ref \in RunWalk(bundle, r)
    BY <2>3, WalkCloses DEF RunWalk
  <2>5. /\ ref.sha \in DOMAIN bundle.objects \/ ref.sha \in store.objects
        /\ ObjectContent[ref.sha].type = ref.type
    BY <2>2, <2>4 DEF Vetted
  <2>6. ref.sha \in DOMAIN bundle.objects => ref.sha \in NeededObjects(s)
    BY <2>4 DEF RunObjects, NeededObjects
  <2> QED
    BY <2>5, <2>6 DEF Found
<1> QED
  BY <1>1, <1>2

\* What a step of the rollback leaves alone.
LEMMA RemovedKeeps ==
  ASSUME NEW st, IsStore(st), NEW step \in UndoSteps, NEW new, new = Removed(st, step)
  PROVE  /\ new.blobs = st.blobs /\ new.objects = st.objects
         /\ \A r \in DOMAIN new.ledgers : r \in DOMAIN st.ledgers /\ new.ledgers[r] = st.ledgers[r]
         /\ \A r : r \notin step.runs => RefsOfRun(new.refs, r) = RefsOfRun(st.refs, r)
         /\ step.what # "refs" => new.refs = st.refs
<1> DEFINE run == CHOOSE r \in step.runs : TRUE
<1>1. DOMAIN st = {"dirs", "records", "ledgers", "refs", "blobs", "objects"}
  BY DEF IsStore, EmptyStore
<1>2. \/ step.what = "record" /\ new = [st EXCEPT !.records = Without(@, run)]
      \/ step.what = "refs" /\ new = [st EXCEPT !.refs = {r \in @ : r.run \notin step.runs}]
      \/ step.what = "events" /\ new = [st EXCEPT !.ledgers = Without(@, run)]
      \/ step.what = "dir" /\ (new = st \/ new = [st EXCEPT !.dirs = @ \ {run}])
  BY Zenon DEF Removed, UndoSteps
<1> HIDE DEF run
<1>3. CASE step.what = "refs" /\ new = [st EXCEPT !.refs = {r \in @ : r.run \notin step.runs}]
  BY <1>1, <1>3 DEF RefsOfRun
<1>4. CASE step.what = "events" /\ new = [st EXCEPT !.ledgers = Without(@, run)]
  BY <1>1, <1>4 DEF Without
<1>5. CASE \/ step.what = "record" /\ new = [st EXCEPT !.records = Without(@, run)]
           \/ step.what = "dir" /\ (new = st \/ new = [st EXCEPT !.dirs = @ \ {run}])
  BY <1>1, <1>5
<1> QED
  BY <1>2, <1>3, <1>4, <1>5

\* What the steps of an import do to blobs, objects and ledgers.
LEMMA WorkStores ==
  ASSUME ImportInv, NEW s \in Services, Working(s)
  PROVE  /\ file' = file
         /\ store.blobs \subseteq store'.blobs /\ store.objects \subseteq store'.objects
         /\ cut => cut'
         /\ \/ cut'
            \/ cut' = cut /\ store'.objects = store.objects
            \/ cut' = cut /\ WriteObjects(s) /\ store'.objects = store.objects \cup NeededObjects(s)
         /\ WriteObjects(s) => NeededObjects(s) \subseteq store'.objects
         /\ WriteBlobs(s) => NeededBlobs(s) \subseteq store'.blobs
         /\ \A r \in DOMAIN store'.ledgers :
              \/ r \in DOMAIN store.ledgers /\ store'.ledgers[r] = store.ledgers[r]
              \/ pc[s] = "events" /\ r = Run(s) /\ store'.ledgers[r] = BundleOf(s).ledgers[r]
<1>1. /\ DOMAIN store = {"dirs", "records", "ledgers", "refs", "blobs", "objects"} /\ IsStore(store)
      /\ Typed /\ Importing(s)
  BY DEF ImportInv, Sound, Typed, IsStore, EmptyStore
<1>2. file' = file
  BY DEF Working, Lock, Recheck, WriteObjects, WriteObjectsFails, WriteBlobs, WriteBlobsFails, MakeDir, WriteEvents,
         CreateRefs, WriteRecord, Sync, WriteFails, Undo
<1>3. cut' = cut \/ WriteObjectsFails(s)
  BY Zenon DEF Working, Lock, Recheck, WriteObjects, WriteBlobs, WriteBlobsFails, MakeDir, WriteEvents,
         CreateRefs, WriteRecord, Sync, WriteFails, Undo, counters
<1>4. WriteObjectsFails(s) => cut'
  BY DEF WriteObjectsFails
<1> DEFINE SameLedgers == store'.ledgers = store.ledgers
           SameData == store'.blobs = store.blobs /\ store'.objects = store.objects
<1>5. CASE store' = store
  BY <1>1, <1>2, <1>3, <1>4, <1>5 DEF WriteObjects, WriteBlobs
<1>6. CASE WriteObjects(s)
  <2>1. store' = [store EXCEPT !.objects = @ \cup NeededObjects(s)] /\ ~WriteBlobs(s)
    BY <1>6 DEF WriteObjects, WriteBlobs
  <2>2. store'.objects = store.objects \cup NeededObjects(s) /\ store'.blobs = store.blobs /\ SameLedgers
    BY <1>1, <2>1
  <2> QED
    BY <1>2, <1>3, <1>4, <1>6, <2>1, <2>2
<1>7. CASE WriteBlobs(s)
  <2>1. store' = [store EXCEPT !.blobs = @ \cup NeededBlobs(s)] /\ ~WriteObjects(s)
    BY <1>7 DEF WriteObjects, WriteBlobs
  <2>2. store'.blobs = store.blobs \cup NeededBlobs(s) /\ store'.objects = store.objects /\ SameLedgers
    BY <1>1, <2>1
  <2> QED
    BY <1>2, <1>3, <1>4, <2>1, <2>2
<1>8. CASE WriteObjectsFails(s)
  <2>1. PICK some : store' = [store EXCEPT !.objects = @ \cup some]
    BY <1>8 DEF WriteObjectsFails
  <2>2. store'.objects = store.objects \cup some /\ store'.blobs = store.blobs /\ SameLedgers
    BY <1>1, <2>1
  <2>3. ~WriteObjects(s) /\ ~WriteBlobs(s)
    BY <1>8, <1>1 DEF WriteObjectsFails, WriteObjects, WriteBlobs, Throw, Goto, Go, Typed
  <2> QED
    BY <1>2, <1>4, <1>8, <2>2, <2>3
<1>9. CASE WriteBlobsFails(s)
  <2>1. PICK some : store' = [store EXCEPT !.blobs = @ \cup some]
    BY <1>9 DEF WriteBlobsFails
  <2>2. store'.blobs = store.blobs \cup some /\ store'.objects = store.objects /\ SameLedgers
    BY <1>1, <2>1
  <2>3. ~WriteObjects(s) /\ ~WriteBlobs(s)
    BY <1>9, <1>1 DEF WriteBlobsFails, WriteObjects, WriteBlobs, Throw, Goto, Go, Typed
  <2> QED
    BY <1>2, <1>3, <1>4, <2>2, <2>3
<1>10. CASE MakeDir(s) \/ CreateRefs(s) \/ WriteRecord(s)
  <2>1. store' = store \/ \E x : \/ store' = [store EXCEPT !.dirs = x]
                                 \/ store' = [store EXCEPT !.refs = x]
                                 \/ store' = [store EXCEPT !.records = x]
    BY <1>10 DEF MakeDir, CreateRefs, WriteRecord
  <2>2. SameData /\ SameLedgers
    BY <1>1, <2>1
  <2>3. pc[s] \notin {"objects", "blobs"}
    BY <1>10 DEF MakeDir, CreateRefs, WriteRecord
  <2> QED
    BY <1>2, <1>3, <1>4, <2>2, <2>3 DEF WriteObjects, WriteBlobs
<1>11. CASE WriteEvents(s) /\ store' # store
  <2>1. /\ store' = [store EXCEPT !.ledgers = With(@, Run(s), BundleOf(s).ledgers[Run(s)])]
        /\ pc[s] = "events"
    BY <1>11 DEF WriteEvents
  <2> DEFINE run == Run(s)
             L == BundleOf(s).ledgers[Run(s)]
             M == With(store.ledgers, run, L)
  <2>2. store'.ledgers = M /\ SameData
    BY <1>1, <2>1
  <2>3. DOMAIN M = DOMAIN store.ledgers \cup {run} /\ M[run] = L
        /\ \A r \in DOMAIN store.ledgers : r # run => M[r] = store.ledgers[r]
    BY DEF With
  <2> HIDE DEF M, run, L
  <2>4. \A r \in DOMAIN store'.ledgers :
              \/ r \in DOMAIN store.ledgers /\ store'.ledgers[r] = store.ledgers[r]
              \/ r = run /\ store'.ledgers[r] = L
    BY <2>2, <2>3
  <2>5. L = BundleOf(s).ledgers[run]
    BY DEF L, run
  <2> QED
    BY <1>2, <1>3, <1>4, <2>1, <2>2, <2>4, <2>5 DEF WriteObjects, WriteBlobs, run
<1>12. CASE Undo(s) /\ store' # store
  <2> DEFINE step == Head(job[s].undo)
  <2>1. store' = Removed(store, step) /\ pc[s] = "undo" /\ job[s].undo # <<>>
    BY <1>12 DEF Undo
  <2>2. step \in UndoSteps
    <3>1. job[s].undo \in Seq(UndoSteps)
      BY <1>1, <2>1 DEF Importing, ImportSteps
    <3> QED
      BY <2>1, <3>1
  <2> HIDE DEF step
  <2>3. /\ SameData
        /\ \A r \in DOMAIN store'.ledgers : r \in DOMAIN store.ledgers /\ store'.ledgers[r] = store.ledgers[r]
    BY <1>1, <2>1, <2>2, RemovedKeeps
  <2> QED
    BY <1>2, <1>3, <1>4, <2>1, <2>3 DEF WriteObjects, WriteBlobs
<1>13. Lock(s) \/ Recheck(s) \/ Sync(s) \/ (\E step : WriteFails(s, step)) => store' = store
  BY DEF Lock, Recheck, Sync, WriteFails
<1> QED
  BY <1>5, <1>6, <1>7, <1>8, <1>9, <1>10, <1>11, <1>12, <1>13 DEF Working

\* The steps of an import after it began.
LEMMA DataWork ==
  ASSUME ImportInv, ImportInv', DataInv, NEW s \in Services, Working(s)
  PROVE  DataInv'
<1>1. Fuller /\ file' = file
  BY WorkStores DEF Fuller, FileStays
<1>2. /\ Continues(s) /\ Brings(s) /\ Closed
      /\ pc'[s] \in Entered => pc[s] \in Entered
      /\ pc'[s] \in PastObjects => pc[s] \in PastObjects \/ WriteObjects(s)
      /\ pc'[s] \in PastBlobs => pc[s] \in PastBlobs \/ WriteBlobs(s)
  BY WorkContinues DEF DataInv
<1>3. /\ WriteObjects(s) => NeededObjects(s) \subseteq store'.objects
      /\ WriteBlobs(s) => NeededBlobs(s) \subseteq store'.blobs
  BY WorkStores
<1>4. Brings(s)'
  BY <1>1, <1>2, <1>3, BringsOn
<1>5. Closed'
  <2>1. CASE cut'
    BY <2>1 DEF Closed
  <2>2. CASE cut' = cut /\ store'.objects = store.objects
    BY <1>2, <2>2 DEF Closed, Found
  <2>3. CASE cut' = cut /\ WriteObjects(s) /\ store'.objects = store.objects \cup NeededObjects(s)
    <3>1. pc[s] \in Entered
      BY <2>3 DEF WriteObjects, Entered, LockedSteps
    <3> QED
      BY <1>2, <2>3, <3>1, WrittenClosed
  <2> QED
    BY <2>1, <2>2, <2>3, WorkStores
<1>6. ASSUME NEW r \in DOMAIN store'.ledgers
      PROVE  \/ r \in DOMAIN store.ledgers /\ store'.ledgers[r] = store.ledgers[r]
             \/ Filled(r, store.ledgers[r])'
  <2>1. \/ r \in DOMAIN store.ledgers /\ store'.ledgers[r] = store.ledgers[r]
        \/ pc[s] = "events" /\ r = Run(s) /\ store'.ledgers[r] = BundleOf(s).ledgers[r]
    BY WorkStores
  <2>2. CASE pc[s] = "events" /\ r = Run(s) /\ store'.ledgers[r] = BundleOf(s).ledgers[r]
    <3>1. pc[s] \in Entered /\ pc[s] \in PastObjects /\ pc[s] \in PastBlobs /\ pc[s] \in ImportSteps
      BY <2>2 DEF Entered, LockedSteps, PastObjects, PastBlobs, ImportSteps
    <3>2. /\ Importing(s) /\ Typed /\ job[s].at \in job[s].todo
      BY <3>1 DEF ImportInv, Sound, Importing
    <3>3. r \in ToWrite(s)
      BY <2>2, <3>2 DEF Run, ToWrite
    <3>4. /\ Vetted(BundleOf(s), r)
          /\ RunObjects(BundleOf(s), r) \subseteq store.objects /\ RunBlobs(BundleOf(s), r) \subseteq store.blobs
      BY <1>2, <3>1, <3>3 DEF Brings
    <3>5. BundleOf(s) \in Bundles
      BY <3>1, <3>2, ServiceAssumption DEF Importing, BundleOf, At, Bundles
    <3>6. Filled(r, BundleOf(s).ledgers[r])
      BY <3>4, <3>5, LandedFilled
    <3>7. ASSUME NEW L, L = BundleOf(s).ledgers[r] PROVE Filled(r, L)'
      <4>1. Filled(r, L)
        BY <3>6, <3>7
      <4> QED
        BY <1>1, <4>1, FullerKeeps
    <3>8. Filled(r, store.ledgers[r])'
      BY <2>2, <3>7 DEF Filled
    <3> QED
      BY <3>8
  <2> QED
    BY <2>1, <2>2
<1>7. \A t \in Services : (pc'[t] = pc[t] /\ job'[t] = job[t]) \/ Brings(t)'
  BY <1>2, <1>4 DEF Continues, Moved, Brings
<1> QED
  BY <1>1, <1>5, <1>6, <1>7, DataKept

\* A step that leaves the store, the bundle and `cut` as they are, when the
\* service that moves is not in an import after it.
LEMMA DataAside ==
  ASSUME ImportInv, DataInv, NEW s \in Services, Moved(s), store' = store, FileStays, cut' = cut,
         pc'[s] \notin Entered
  PROVE  DataInv'
<1>1. Fuller /\ Closed'
  BY DEF Fuller, DataInv, Closed, Found
<1>2. Brings(s)'
  BY DEF Brings
<1>3. \A t \in Services : (pc'[t] = pc[t] /\ job'[t] = job[t]) \/ Brings(t)'
  BY <1>2 DEF Moved, Brings
<1> QED
  BY <1>1, <1>3, DataKept

\* An import begins with a bundle that it has verified.
LEMMA DataBegins ==
  ASSUME ImportInv, ImportInv', DataInv, NEW s \in Services, Import(s)
  PROVE  DataInv'
<1>1. Typed /\ Typed' /\ (file = NoFile \/ IsBundle(file))
  BY DEF ImportInv, Typed
<1>2. file' = file /\ store' = store /\ cut' = cut /\ FileStays
  BY DEF Import, FileStays
<1>3. PICK path \in DOMAIN Received \cup (IF file = NoFile THEN {} ELSE {OutPath}) :
        LET bundle == At(path)
            verdict == Verify(bundle, store)
            failed == [NoJob EXCEPT !.runs = ToSet(bundle.manifest.runs)]
            todo == RunsToWrite(bundle, store)
        IN  \/ \E result : Begin(s, "import", [failed EXCEPT !.result = result], "idle")
            \/ /\ verdict = "ok"
               /\ Begin(s, "import", [failed EXCEPT !.path = path, !.todo = todo, !.at = Min(todo)], "lock")
  BY DEF Import
<1> DEFINE bundle == At(path)
           todo == RunsToWrite(bundle, store)
           failed == [NoJob EXCEPT !.runs = ToSet(bundle.manifest.runs)]
           j == [[failed EXCEPT !.path = path, !.todo = todo, !.at = Min(todo)] EXCEPT !.kind = "import"]
<1>4. ASSUME NEW e, Goto(s, "idle", e) PROVE DataInv'
  <2>1. Moved(s)
    BY <1>1, <1>4, ShiftsMove DEF Shifts
  <2>2. pc'[s] = "idle"
    BY <1>1, <1>4 DEF Goto, Go, Typed
  <2>3. pc'[s] \notin Entered
    BY <2>2 DEF Entered, LockedSteps
  <2> QED
    BY <1>2, <2>1, <2>3, DataAside
<1>5. ASSUME Verify(bundle, store) = "ok", Goto(s, "lock", j)
      PROVE  DataInv'
  <2>1. IsBundle(bundle)
    BY <1>1, ServiceAssumption, FilesAssumption DEF At
  <2>2. \A i \in DOMAIN bundle.manifest.runs : Vetted(bundle, bundle.manifest.runs[i])
    BY <1>5, <2>1, VerifiedVetted
  <2>3. j.path = path /\ j.todo = todo
    BY DEF NoJob
  <2>4. todo \subseteq DOMAIN bundle.manifest.runs
    BY DEF RunsToWrite
  <2> HIDE DEF j, todo
  <2>5. Moved(s)
    BY <1>1, <1>5, ShiftsMove DEF Shifts
  <2>6. pc'[s] = "lock" /\ job'[s] = j
    BY <1>1, <1>5, <2>5 DEF Goto, Go, Typed
  <2>7. BundleOf(s)' = bundle
    BY <1>2, <2>3, <2>6 DEF BundleOf, At
  <2> HIDE DEF bundle
  <2>8. Fuller /\ Closed'
    BY <1>2 DEF Fuller, DataInv, Closed, Found
  <2>9. \A r \in ToWrite(s)' : Vetted(bundle, r)
    BY <2>2, <2>3, <2>4, <2>6, <2>7 DEF ToWrite
  <2>10. \A r \in ToWrite(s)' : Vetted(BundleOf(s), r)'
    BY <2>7, <2>8, <2>9, FullerKeeps DEF Vetted
  <2>11. Brings(s)'
    BY <2>6, <2>10 DEF Brings, PastObjects, PastBlobs
  <2>12. \A t \in Services : (pc'[t] = pc[t] /\ job'[t] = job[t]) \/ Brings(t)'
    BY <2>5, <2>11 DEF Moved, Brings
  <2> QED
    BY <1>2, <2>8, <2>12, DataKept
<1> QED
  BY <1>3, <1>4, <1>5 DEF Begin

\* The other calls, the end of an import, and the death of a process.
LEMMA DataOutside ==
  ASSUME ImportInv, ImportInv', DataInv, NEW s \in Services,
         \/ Export(s) \/ Release(s) \/ Crash(s)
         \/ Reindex(s) \/ List(s) \/ ReadRun(s) \/ Load(s) \/ Rebuild(s) \/ ReindexFails(s)
  PROVE  DataInv'
<1>1. Typed /\ Typed'
  BY DEF ImportInv
<1>2. CASE Crash(s)
  <2>1. Go(s, "dead") /\ job' = job /\ store' = store /\ FileStays /\ cut' = cut
    BY <1>2 DEF Crash, FileStays
  <2>2. Moved(s) /\ pc'[s] = "dead"
    BY <1>1, <2>1, Goes DEF PcSteps
  <2> QED
    BY <2>1, <2>2, DataAside DEF Entered, LockedSteps
<1>3. CASE ~Crash(s)
  <2>1. store' = store /\ FileStays
    BY <1>1, <1>3, OutsideShape
  <2>2. PICK step \in {"idle"} \cup ExportSteps \cup ReindexSteps :
          (\E j : Goto(s, step, j)) \/ (Go(s, step) /\ job' = job)
    BY <1>1, <1>3, OutsideShape
  <2>3. Moved(s)
    BY <1>1, <2>2, ShiftsMove DEF Shifts
  <2>4. pc'[s] = step /\ step \notin ImportSteps
    BY <1>1, <2>2, WritingSteps DEF Goto, Go, Typed
  <2>5. cut' = cut
    BY <1>3, Zenon DEF Export, Plan, Answer, Declare, DeclareFails, Create, CreateFails, Fill, FillFails, Link,
         LinkFails, Finish, FinishFails, Release, Reindex, List, ReadRun, Load, Rebuild, ReindexFails, counters
  <2> QED
    BY <2>1, <2>3, <2>4, <2>5, DataAside DEF Entered, ImportSteps
<1> QED
  BY <1>2, <1>3

\* What an engine changes.
LEMMA EngineStores ==
  ASSUME ImportInv, EngineAppends
  PROVE  /\ pc' = pc /\ job' = job /\ lock' = lock /\ file' = file
         /\ faults' = faults /\ died' = died /\ cut' = cut
         /\ store'.blobs = store.blobs /\ store'.objects = store.objects
         /\ store'.dirs = store.dirs /\ store'.refs = store.refs /\ store'.records = store.records
         /\ \/ store'.ledgers = store.ledgers
            \/ \E r \in DOMAIN store.records :
                 /\ lock[r] = NoService
                 /\ DOMAIN store'.ledgers = DOMAIN store.ledgers \cup {r}
                 /\ store'.ledgers[r] = Seal(r, EventLog(store, r), NewEvent)
                 /\ \A q \in DOMAIN store.ledgers \ {r} : store'.ledgers[q] = store.ledgers[q]
<1>1. /\ pc' = pc /\ job' = job /\ lock' = lock /\ file' = file
      /\ faults' = faults /\ died' = died /\ cut' = cut
  BY DEF EngineAppends
<1>2. CASE store' = store
  BY <1>1, <1>2
<1>3. CASE StoreAppend
  <2>1. PICK r \in DOMAIN store.records :
          /\ lock[r] = NoService
          /\ store' = [store EXCEPT !.ledgers = With(@, r, Seal(r, EventLog(store, r), NewEvent))]
    BY <1>3 DEF StoreAppend
  <2> DEFINE L == Seal(r, EventLog(store, r), NewEvent)
             f == With(store.ledgers, r, L)
  <2>2. DOMAIN store = {"dirs", "records", "ledgers", "refs", "blobs", "objects"}
    BY DEF ImportInv, Typed, IsStore, EmptyStore
  <2>3. /\ store'.ledgers = f
        /\ store'.blobs = store.blobs /\ store'.objects = store.objects
        /\ store'.dirs = store.dirs /\ store'.refs = store.refs /\ store'.records = store.records
    <3> HIDE DEF f
    <3>1. store' = [store EXCEPT !.ledgers = f]
      BY <2>1 DEF f
    <3> QED
      BY <2>2, <3>1
  <2>4. /\ DOMAIN f = DOMAIN store.ledgers \cup {r} /\ f[r] = L
        /\ \A q \in DOMAIN store.ledgers \ {r} : f[q] = store.ledgers[q]
    <3> HIDE DEF L
    <3> QED
      BY DEF With
  <2> HIDE DEF f
  <2> QED
    BY <1>1, <2>1, <2>3, <2>4
<1> QED
  BY <1>2, <1>3 DEF EngineAppends

\* A log is chained, and the store has what it needs, though it be missing.
LEMMA FilledLog ==
  ASSUME DataInv, NEW r
  PROVE  Filled(r, EventLog(store, r))
<1>1. Filled(r, <<>>)
  <2>1. DOMAIN <<>> = {} /\ ToSet(<<>>) = {}
    BY DEF ToSet
  <2> QED
    BY <2>1 DEF Filled, ChainHolds, PayloadsOf, Said, CheckpointsFromLedger
<1> QED
  BY <1>1 DEF EventLog, DataInv

\* Engines append what needs nothing.
LEMMA DataEngine ==
  ASSUME ImportInv, DataInv, EngineAppends
  PROVE  DataInv'
<1>1. Fuller /\ Closed'
  BY EngineStores DEF Fuller, FileStays, DataInv, Closed, Found
<1>2. \A t \in Services : (pc'[t] = pc[t] /\ job'[t] = job[t]) \/ Brings(t)'
  BY EngineStores
<1>3. ASSUME NEW r \in DOMAIN store'.ledgers
      PROVE  \/ r \in DOMAIN store.ledgers /\ store'.ledgers[r] = store.ledgers[r]
             \/ Filled(r, store.ledgers[r])'
  <2> DEFINE L == EventLog(store, r)
             M == Seal(r, L, NewEvent)
  <2>1. \/ r \in DOMAIN store.ledgers /\ store'.ledgers[r] = store.ledgers[r]
        \/ store'.ledgers[r] = M
    BY EngineStores
  <2>2. Filled(r, L) /\ IsLedger(L)
    BY FilledLog, LogIsLedger DEF ImportInv, Typed
  <2> HIDE DEF L
  <2>3. /\ ChainHolds(r, M) /\ PayloadsOf(M) \subseteq PayloadsOf(L)
        /\ CheckpointsFromLedger(M) \subseteq CheckpointsFromLedger(L)
    BY <2>2, SealedLedger DEF Filled
  <2> HIDE DEF M
  <2>4. Filled(r, M)
    BY <2>2, <2>3 DEF Filled
  <2>5. ASSUME NEW N, N = M PROVE Filled(r, N)'
    <3>1. Filled(r, N)
      BY <2>4, <2>5
    <3> QED
      BY <1>1, <3>1, FullerKeeps
  <2>6. store'.ledgers[r] = M => Filled(r, store.ledgers[r])'
    BY <2>5 DEF Filled
  <2> QED
    BY <2>1, <2>6
<1> QED
  BY <1>1, <1>2, <1>3, DataKept

\* At first there is nothing.
LEMMA DataInit == Init => DataInv
<1> SUFFICES ASSUME Init PROVE DataInv
  OBVIOUS
<1>1. store.ledgers = <<>> /\ store.objects = {} /\ DOMAIN <<>> = {}
  BY DEF Init, EmptyStore
<1>2. \A s \in Services : pc[s] = "idle"
  BY DEF Init
<1> QED
  BY <1>1, <1>2 DEF DataInv, Closed, Brings, Entered, LockedSteps

\* Every step keeps it.
LEMMA DataNext == ImportInv /\ ImportInv' /\ DataInv /\ [Next]_vars => DataInv'
<1> SUFFICES ASSUME ImportInv, ImportInv', DataInv, [Next]_vars PROVE DataInv'
  OBVIOUS
<1>1. ASSUME NEW s \in Services, ImportRuns(s) PROVE DataInv'
  <2>1. Import(s) \/ Working(s) \/ Release(s)
    BY <1>1 DEF ImportRuns, Working
  <2> QED
    BY <2>1, DataBegins, DataWork, DataOutside
<1>2. ASSUME NEW s \in Services, Progress(s) \/ Reindex(s) \/ Crash(s) PROVE DataInv'
  BY <1>1, <1>2, DataOutside DEF Progress
<1>3. CASE EngineAppends
  BY <1>3, DataEngine
<1>4. CASE UNCHANGED vars
  <2>1. Fuller /\ Closed' /\ store' = store
    BY <1>4 DEF vars, Fuller, FileStays, DataInv, Closed, Found
  <2>2. \A t \in Services : (pc'[t] = pc[t] /\ job'[t] = job[t]) \/ Brings(t)'
    BY <1>4 DEF vars
  <2> QED
    BY <2>1, <2>2, DataKept
<1> QED
  BY <1>2, <1>3, <1>4 DEF Next

-----------------------------------------------------------------------------
(* The order of the writes and of the rollback.                              *)

\* What runs other than those of R hold stays as it is.
Only(R) ==
  \A r \in Runs \ R :
    /\ \A what \in Contents : There(store', what, r) <=> There(store, what, r)
    /\ RefsOfRun(store'.refs, r) = RefsOfRun(store.refs, r)
    /\ EventLog(store', r) = EventLog(store, r)

\* A ref of a run's checkpoint is of that run.
LEMMA RefsStay ==
  ASSUME DataInv, NEW r, RefsOfRun(store'.refs, r) = RefsOfRun(store.refs, r),
         NEW c \in CheckpointsFromLedger(EventLog(store, r)), RefOf(c) \in store.refs
  PROVE  RefOf(c) \in store'.refs
<1>1. c.run = r
  BY FilledLog, CheckpointsOfRun DEF Filled
<1> DEFINE x == RefOf(c)
<1>2. x.run = r /\ x \in store.refs
  BY <1>1 DEF RefOf
<1> HIDE DEF x
<1>3. x \in store'.refs
  BY <1>2 DEF RefsOfRun
<1> QED
  BY <1>3 DEF x

\* The runs keep their order.
LEMMA OrderRuns ==
  ASSUME UndoInv, DataInv, OrderInv, Counts, NEW R, Only(R),
         faults' <= 1 => \A r \in R \cap Runs : OrderedAt(store', r)
  PROVE  Ordered'
<1> SUFFICES ASSUME faults' <= 1, NEW r \in Runs \ R PROVE OrderedAt(store', r)
  BY DEF Ordered, OrderedAt, There
<1>1. OrderedAt(store, r)
  BY DEF Counts, Counted, UndoInv, OrderInv, Ordered
<1>2. /\ \A what \in Contents : There(store', what, r) <=> There(store, what, r)
      /\ RefsOfRun(store'.refs, r) = RefsOfRun(store.refs, r)
      /\ EventLog(store', r) = EventLog(store, r)
  BY DEF Only
<1>3. "refs" \in Contents /\ "events" \in Contents /\ "record" \in Contents
  BY DEF Contents, Parts
<1>4. ASSUME There(store', "record", r), NEW c \in CheckpointsFromLedger(EventLog(store', r))
      PROVE  RefOf(c) \in store'.refs
  <2>1. c \in CheckpointsFromLedger(EventLog(store, r)) /\ RefOf(c) \in store.refs
    BY <1>1, <1>2, <1>3, <1>4 DEF OrderedAt
  <2> QED
    BY <1>2, <2>1, RefsStay
<1> QED
  BY <1>1, <1>2, <1>3, <1>4 DEF OrderedAt

\* What a step does to a service that does not move, and does not hold what changes.
LEMMA OrderOthers ==
  ASSUME ImportInv, UndoInv, OrderInv, FileStays, Counts, NEW R, Only(R),
         NEW t \in Services, pc'[t] = pc[t], job'[t] = job[t],
         \A r \in Runs : (lock'[r] = t <=> lock[r] = t) /\ (r \in R => lock[r] # t)
  PROVE  Withdraws(t)' /\ Refers(t)'
<1>1. CASE pc[t] \notin Writing
  BY <1>1 DEF Withdraws, Refers, Writing
<1>2. CASE pc[t] \in Writing
  <2>1. pc[t] \in ImportSteps /\ Typed /\ Importing(t) /\ Holding(t)
    BY <1>2, WritingSteps DEF ImportInv, Sound
  <2>2. BundleOf(t)' = BundleOf(t)
    BY <2>1, BundleStays
  <2>3. ToWrite(t)' = ToWrite(t) /\ ToWrite(t) \subseteq Runs
    BY <2>1, <2>2, WritesRuns DEF ToWrite
  <2>4. Withdraws(t)'
    <3> SUFFICES ASSUME faults' <= 1, NEW r \in ToWrite(t), lock[r] = t
                 PROVE  \/ \A what \in Contents : ~Undoes(job[t].undo, what, r)
                        \/ \A what \in Contents : There(store', what, r) => Undoes(job[t].undo, what, r)
      BY <2>3 DEF Withdraws
    <3>1. faults <= 1
      BY DEF Counts, Counted, UndoInv
    <3>2. \/ \A what \in Contents : ~Undoes(job[t].undo, what, r)
          \/ \A what \in Contents : There(store, what, r) => Undoes(job[t].undo, what, r)
      BY <1>2, <3>1 DEF OrderInv, Withdraws
    <3>3. \A what \in Contents : There(store', what, r) <=> There(store, what, r)
      BY <2>3 DEF Only
    <3> QED
      BY <3>2, <3>3
  <2>5. Refers(t)'
    <3> SUFFICES ASSUME pc[t] \in {"record", "sync"}, NEW r \in ToWrite(t)
                 PROVE  RefsOfRun(BundleOf(t).refs, r) \subseteq store'.refs
      BY <2>2, <2>3 DEF Refers
    <3>1. lock[r] = t
      BY <2>1, WritesRuns DEF Holding, LockedSteps
    <3>2. RefsOfRun(store'.refs, r) = RefsOfRun(store.refs, r)
      BY <2>3, <3>1 DEF Only
    <3>3. RefsOfRun(BundleOf(t).refs, r) \subseteq store.refs
      BY DEF OrderInv, Refers
    <3> QED
      BY <3>2, <3>3 DEF RefsOfRun
  <2> QED
    BY <2>4, <2>5
<1> QED
  BY <1>1, <1>2

\* What a step of s has to satisfy.
LEMMA OrderKept ==
  ASSUME ImportInv, UndoInv, DataInv, OrderInv, NEW s \in Services, Moved(s), FileStays, LocksOf(s), Counts,
         NEW R, Only(R), \A r \in R : lock[r] = s,
         faults' <= 1 => \A r \in R \cap Runs : OrderedAt(store', r),
         Withdraws(s)', Refers(s)'
  PROVE  OrderInv'
<1>1. Ordered'
  BY OrderRuns
<1>2. ASSUME NEW t \in Services \ {s} PROVE Withdraws(t)' /\ Refers(t)'
  <2>1. /\ pc'[t] = pc[t] /\ job'[t] = job[t]
        /\ \A r \in Runs : (lock'[r] = t <=> lock[r] = t) /\ (r \in R => lock[r] # t)
    BY DEF Moved, LocksOf
  <2> QED
    BY <2>1, OrderOthers
<1>3. \A t \in Services : Withdraws(t)' /\ Refers(t)'
  BY <1>2 DEF Withdraws, Refers
<1> QED
  BY <1>1, <1>3 DEF OrderInv

\* Runs whose ledger, record and refs stay are as they were.
LEMMA OnlyIf ==
  ASSUME NEW R,
         \A r \in Runs \ R :
           /\ r \in DOMAIN store'.ledgers <=> r \in DOMAIN store.ledgers
           /\ r \in DOMAIN store.ledgers => store'.ledgers[r] = store.ledgers[r]
           /\ r \in DOMAIN store'.records <=> r \in DOMAIN store.records
           /\ RefsOfRun(store'.refs, r) = RefsOfRun(store.refs, r)
  PROVE  Only(R)
BY DEF Only, Contents, Parts, There, EventLog

\* A step that leaves ledgers, records and refs alone, and what has to be undone of them.
LEMMA OrderQuiet ==
  ASSUME ImportInv, UndoInv, DataInv, OrderInv, NEW s \in Services, Continues(s), file' = file, LocksOf(s), Counts,
         store'.ledgers = store.ledgers, store'.records = store.records, store'.refs = store.refs,
         pc'[s] \in {"record", "sync"} => pc[s] \in {"record", "sync"},
         faults' <= 1 /\ pc'[s] \in Writing =>
           \/ \A what, r : ~Undoes(job'[s].undo, what, r)
           \/ /\ pc[s] \in Writing /\ lock' = lock
              /\ \A what \in Contents : \A r : Undoes(job'[s].undo, what, r) <=> Undoes(job[s].undo, what, r)
  PROVE  OrderInv'
<1>1. FileStays /\ Moved(s) /\ pc[s] \in ImportSteps
  BY DEF FileStays, Continues
<1>2. BundleOf(s)' = BundleOf(s) /\ ToWrite(s)' = ToWrite(s) /\ ToWrite(s) \subseteq Runs
  BY <1>1, SameBundle, WritesRuns DEF Continues
<1>3. Only({})
  BY OnlyIf
<1>4. Withdraws(s)'
  <2> SUFFICES ASSUME faults' <= 1, pc'[s] \in Writing, NEW r \in ToWrite(s), lock'[r] = s
               PROVE  \/ \A what \in Contents : ~Undoes(job'[s].undo, what, r)
                      \/ \A what \in Contents : There(store', what, r) => Undoes(job'[s].undo, what, r)
    BY <1>2 DEF Withdraws
  <2>1. CASE \A what, q : ~Undoes(job'[s].undo, what, q)
    BY <2>1
  <2>2. CASE /\ pc[s] \in Writing /\ lock' = lock
             /\ \A what \in Contents : \A q : Undoes(job'[s].undo, what, q) <=> Undoes(job[s].undo, what, q)
    <3>1. faults <= 1
      BY DEF Counts, Counted, UndoInv
    <3>2. \/ \A what \in Contents : ~Undoes(job[s].undo, what, r)
          \/ \A what \in Contents : There(store, what, r) => Undoes(job[s].undo, what, r)
      BY <2>2, <3>1 DEF OrderInv, Withdraws
    <3>3. \A what \in Contents : There(store', what, r) <=> There(store, what, r)
      BY <1>2, <1>3 DEF Only
    <3> QED
      BY <2>2, <3>2, <3>3
  <2> QED
    BY <2>1, <2>2
<1>5. Refers(s)'
  BY <1>2 DEF OrderInv, Refers
<1> QED
  BY <1>1, <1>3, <1>4, <1>5, OrderKept

\* The steps of an import before it writes to a run.
LEMMA OrderEarly ==
  ASSUME ImportInv, ImportInv', UndoInv, DataInv, OrderInv, NEW s \in Services,
         \/ Lock(s) \/ Recheck(s)
         \/ WriteObjects(s) \/ WriteObjectsFails(s) \/ WriteBlobs(s) \/ WriteBlobsFails(s)
         \/ WriteFails(s, "lock") \/ WriteFails(s, "recheck")
  PROVE  OrderInv'
<1>1. /\ Typed /\ DOMAIN job[s] = JobFields
      /\ DOMAIN store = {"dirs", "records", "ledgers", "refs", "blobs", "objects"}
  BY DEF ImportInv, Typed, IsStore, EmptyStore
<1>2. /\ file' = file /\ pc[s] \in {"lock", "recheck", "objects", "blobs"}
      /\ (faults' = faults /\ died' = died) \/ (Fault /\ died' = died)
      /\ lock' = lock \/ (lock[Run(s)] = NoService /\ lock' = [lock EXCEPT ![Run(s)] = s])
  BY DEF Lock, Recheck, WriteObjects, WriteObjectsFails, WriteBlobs, WriteBlobsFails, WriteFails, counters
<1>3. /\ store'.ledgers = store.ledgers /\ store'.records = store.records /\ store'.refs = store.refs
  <2>1. \/ store' = store
        \/ \E x : store' = [store EXCEPT !.objects = x]
        \/ \E x : store' = [store EXCEPT !.blobs = x]
    BY DEF Lock, Recheck, WriteObjects, WriteObjectsFails, WriteBlobs, WriteBlobsFails, WriteFails
  <2> QED
    BY <1>1, <2>1
<1>4. Continues(s) /\ pc[s] \in ImportSteps /\ pc'[s] \notin {"record", "sync"} /\ job'[s].undo = job[s].undo
  <2>1. Continues(s) /\ (pc'[s] \in PastBlobs => WriteBlobs(s))
    BY <1>2, WorkContinues DEF Working, PastBlobs
  <2>2. WriteBlobs(s) => pc'[s] = "dir"
    BY <1>1 DEF WriteBlobs, Go, Typed
  <2>3. ASSUME NEW step, NEW x, NEW j, j = [job[s] EXCEPT !.result = x], Goto(s, step, j)
        PROVE  job'[s].undo = job[s].undo
    BY <1>1, <2>3 DEF Goto, Go, Typed, JobFields
  <2>4. ASSUME NEW step, NEW x, NEW j, j = [job[s] EXCEPT !.at = x], Goto(s, step, j)
        PROVE  job'[s].undo = job[s].undo
    BY <1>1, <2>4 DEF Goto, Go, Typed, JobFields
  <2>5. \/ job' = job \/ (\E result : Throw(s, result))
        \/ NextRun(s, job[s], "lock", "recheck")
    BY DEF Lock, Recheck, WriteObjects, WriteObjectsFails, WriteBlobs, WriteBlobsFails, WriteFails
  <2>6. (\E result : Throw(s, result)) => job'[s].undo = job[s].undo
    BY <2>3 DEF Throw
  <2>7. NextRun(s, job[s], "lock", "recheck") => job'[s].undo = job[s].undo
    BY <2>4 DEF NextRun
  <2> QED
    BY <2>1, <2>2, <2>5, <2>6, <2>7 DEF PastBlobs, Continues
<1>5. \A what, r : ~Undoes(job'[s].undo, what, r)
  <2>1. job[s].undo = <<>>
    BY <1>2, <1>4 DEF UndoInv, Stacked
  <2> QED
    BY <1>4, <2>1 DEF Undoes
<1>6. LocksOf(s) /\ Counts
  <2>1. Run(s) \in Runs
    BY <1>4, WritesRuns, ImportsBundle, Positions DEF ImportInv, Sound, Importing, Run, RunAt
  <2> QED
    BY <1>1, <1>2, <2>1, OwnLocks, Counting
<1> QED
  BY <1>2, <1>3, <1>4, <1>5, <1>6, OrderQuiet

\* A write that throws, or fails.
LEMMA OrderThrows ==
  ASSUME ImportInv, ImportInv', UndoInv, DataInv, OrderInv, NEW s \in Services,
         pc[s] \in {"dir", "events", "refs", "record", "sync"}, Continues(s),
         NEW result, Throw(s, result), store' = store, file' = file, lock' = lock, Counts
  PROVE  OrderInv'
<1>1. Typed /\ DOMAIN job[s] = JobFields
  BY DEF ImportInv, Typed
<1> DEFINE j == [job[s] EXCEPT !.result = result]
<1>2. j.undo = job[s].undo /\ Goto(s, "undo", j)
  BY <1>1 DEF JobFields, Throw
<1> HIDE DEF j
<1>3. pc'[s] = "undo" /\ job'[s].undo = job[s].undo
  BY <1>1, <1>2 DEF Goto, Go, Typed
<1>4. LocksOf(s) /\ pc[s] \in Writing
  BY <1>1, OwnLocks DEF Writing
<1> QED
  BY <1>3, <1>4, OrderQuiet

\* A run's directory; on to the next record, or all are written.
LEMMA OrderAside ==
  ASSUME ImportInv, ImportInv', UndoInv, DataInv, OrderInv, NEW s \in Services, MakeDir(s) \/ Sync(s)
  PROVE  OrderInv'
<1>1. /\ pc[s] \in {"dir", "sync"} /\ file' = file /\ lock' = lock /\ faults' = faults /\ died' = died
      /\ Continues(s)
  BY WorkContinues DEF Working, MakeDir, Sync, counters
<1>2. /\ Typed /\ DOMAIN job[s] = JobFields /\ job[s].undo \in Seq(UndoSteps) /\ Run(s) \in Runs
      /\ DOMAIN store = {"dirs", "records", "ledgers", "refs", "blobs", "objects"}
  BY <1>1, WriteFacts DEF IsStore, EmptyStore
<1>3. /\ LocksOf(s) /\ Counts /\ pc[s] \in Writing
  BY <1>1, <1>2, OwnLocks, Counting DEF Writing
<1>4. CASE MakeDir(s)
  <2> DEFINE step == [what |-> "dir", runs |-> {Run(s)}]
             j == Done(job[s], step)
             U == job[s].undo
  <2>1. store' = [store EXCEPT !.dirs = @ \cup {Run(s)}] /\ Goto(s, "events", j)
    BY <1>4 DEF MakeDir
  <2>2. step \in UndoSteps /\ step.what = "dir"
    BY <1>2 DEF UndoSteps
  <2> HIDE DEF step
  <2>3. j.undo = <<step>> \o U
    BY <1>2 DEF Done, JobFields
  <2> HIDE DEF j
  <2>4. pc'[s] = "events" /\ job'[s] = j
    BY <1>2, <2>1 DEF Goto, Go, Typed
  <2>5. \A what \in Contents : \A r : Undoes(j.undo, what, r) <=> Undoes(U, what, r)
    <3> HIDE DEF U
    <3>1. \A what, r : Undoes(j.undo, what, r) <=> (step.what = what /\ r \in step.runs) \/ Undoes(U, what, r)
      BY <1>2, <2>2, <2>3, PushUndo DEF U
    <3> QED
      BY <2>2, <3>1 DEF Contents
  <2>6. store'.ledgers = store.ledgers /\ store'.records = store.records /\ store'.refs = store.refs
    BY <1>2, <2>1
  <2> QED
    BY <1>1, <1>3, <2>4, <2>5, <2>6, OrderQuiet
<1>5. CASE Sync(s)
  <2>1. store' = store /\ NextRun(s, job[s], "record", "release") /\ pc[s] = "sync"
    BY <1>5 DEF Sync
  <2>2. ASSUME NEW step, NEW x, NEW j, j = [job[s] EXCEPT !.at = x], Goto(s, step, j)
        PROVE  job'[s].undo = job[s].undo
    BY <1>2, <2>2 DEF Goto, Go, Typed, JobFields
  <2>3. job'[s].undo = job[s].undo
    BY <2>1, <2>2 DEF NextRun
  <2> QED
    BY <1>1, <1>3, <2>1, <2>3, OrderQuiet
<1> QED
  BY <1>4, <1>5

\* A write of what a directory holds.
LEMMA OrderWrites ==
  ASSUME ImportInv, UndoInv, DataInv, OrderInv, NEW s \in Services, Continues(s), pc[s] \in {"events", "refs", "record"},
         file' = file, lock' = lock, faults' = faults, died' = died,
         NEW step \in UndoSteps, job'[s].undo = <<step>> \o job[s].undo, Adds(step), step.what \in Contents,
         step.runs \subseteq ToWrite(s), Only(step.runs),
         \A r \in step.runs : faults <= 1 =>
           /\ \/ \E what \in Contents : Undoes(job[s].undo, what, r)
              \/ \A what \in Contents : ~There(store, what, r)
           /\ OrderedAt(store', r),
         Refers(s)'
  PROVE  OrderInv'
<1> DEFINE U == job[s].undo
           V == job'[s].undo
<1>1. /\ FileStays /\ Moved(s) /\ pc[s] \in ImportSteps /\ Counts /\ Holding(s) /\ Typed
      /\ pc[s] \in LockedSteps /\ pc[s] \in Writing
      /\ U \in Seq(UndoSteps)
  BY Counting, WriteFacts DEF FileStays, Continues, ImportInv, Sound, LockedSteps, Writing
<1>2. /\ BundleOf(s)' = BundleOf(s) /\ ToWrite(s)' = ToWrite(s) /\ ToWrite(s) \subseteq Runs
      /\ ToWrite(s) = {RunAt(s, i) : i \in job[s].todo}
  BY <1>1, SameBundle, WritesRuns DEF Continues
<1>3. LocksOf(s) /\ \A r \in step.runs : lock[r] = s
  BY <1>1, <1>2, OwnLocks DEF Holding
<1>4. \A what, r : Undoes(V, what, r) <=> (step.what = what /\ r \in step.runs) \/ Undoes(U, what, r)
  <2> HIDE DEF U, V
  <2> QED
    BY <1>1, PushUndo DEF U, V
<1>5. Withdraws(s)'
  <2> SUFFICES ASSUME faults <= 1, NEW r \in ToWrite(s), lock[r] = s
               PROVE  \/ \A what \in Contents : ~Undoes(V, what, r)
                      \/ \A what \in Contents : There(store', what, r) => Undoes(V, what, r)
    BY <1>2 DEF Withdraws
  <2>1. \/ \A what \in Contents : ~Undoes(U, what, r)
        \/ \A what \in Contents : There(store, what, r) => Undoes(U, what, r)
    BY <1>1 DEF OrderInv, Withdraws
  <2>2. r \in Runs /\ Contents \subseteq Parts
    BY <1>2 DEF Contents
  <2>3. \A what \in Contents : There(store', what, r) => There(store, what, r) \/ (what = step.what /\ r \in step.runs)
    BY <2>2 DEF Adds
  <2>4. CASE r \notin step.runs
    BY <1>4, <2>1, <2>3, <2>4
  <2>5. CASE r \in step.runs
    <3>1. \A what \in Contents : There(store, what, r) => Undoes(U, what, r)
      BY <2>1, <2>5
    <3> QED
      BY <1>4, <2>3, <2>5, <3>1
  <2> QED
    BY <2>4, <2>5
<1> QED
  BY <1>1, <1>3, <1>5, OrderKept

\* A run's ledger: there is nothing yet that comes after it.
LEMMA OrderEvents ==
  ASSUME ImportInv, ImportInv', UndoInv, DataInv, OrderInv, NEW s \in Services, WriteEvents(s)
  PROVE  OrderInv'
<1> DEFINE step == [what |-> "events", runs |-> {Run(s)}]
           d == Done(job[s], step)
           L == BundleOf(s).ledgers[Run(s)]
<1>1. /\ pc[s] = "events" /\ file' = file /\ lock' = lock /\ faults' = faults /\ died' = died
      /\ \/ Throw(s, "EEXIST") /\ store' = store
         \/ /\ Run(s) \notin DOMAIN store.ledgers /\ store' = [store EXCEPT !.ledgers = With(@, Run(s), L)]
            /\ NextRun(s, d, "dir", "refs")
  BY DEF WriteEvents, counters
<1>2. /\ Typed /\ IsStore(store) /\ DOMAIN job[s] = JobFields /\ Continues(s) /\ Counts
      /\ Run(s) \in Runs /\ Run(s) \in ToWrite(s)
      /\ DOMAIN store = {"dirs", "records", "ledgers", "refs", "blobs", "objects"}
  BY <1>1, WriteFacts, WorkContinues, Counting DEF Working, IsStore, EmptyStore
<1>3. step \in UndoSteps /\ step.what = "events" /\ step.runs = {Run(s)}
  BY <1>2 DEF UndoSteps
<1> HIDE DEF step
<1>4. CASE Throw(s, "EEXIST") /\ store' = store
  BY <1>1, <1>2, <1>4, OrderThrows
<1>5. CASE /\ Run(s) \notin DOMAIN store.ledgers /\ store' = [store EXCEPT !.ledgers = With(@, Run(s), L)]
           /\ NextRun(s, d, "dir", "refs")
  <2>1. DOMAIN d = JobFields /\ d.undo = <<step>> \o job[s].undo
    BY <1>2 DEF Done, JobFields
  <2> HIDE DEF d
  <2>2. ASSUME NEW next \in {"dir", "refs"}, NEW x, NEW j, j = [d EXCEPT !.at = x], Goto(s, next, j)
        PROVE  job'[s].undo = d.undo /\ pc'[s] \in {"dir", "refs"}
    BY <1>2, <2>1, <2>2 DEF Goto, Go, Typed, JobFields
  <2>3. job'[s].undo = d.undo /\ pc'[s] \in {"dir", "refs"}
    BY <1>5, <2>2 DEF NextRun
  <2>4. Adds(step)
    <3>1. \E r, x : step.runs = {r} /\ store' = [store EXCEPT !.ledgers = With(@, r, x)]
      BY <1>3, <1>5
    <3> QED
      BY <1>2, <1>3, <3>1, AddsParts
  <2> HIDE DEF L
  <2>5. /\ store'.ledgers = With(store.ledgers, Run(s), L)
        /\ store'.records = store.records /\ store'.refs = store.refs
    BY <1>2, <1>5
  <2>6. Only(step.runs)
    BY <1>3, <2>5, OnlyIf DEF With
  <2>7. faults <= 1 =>
          /\ \A what \in Contents : ~There(store, what, Run(s))
          /\ OrderedAt(store', Run(s))
    <3> SUFFICES ASSUME faults <= 1
                 PROVE  /\ \A what \in Contents : ~There(store, what, Run(s))
                        /\ OrderedAt(store', Run(s))
      OBVIOUS
    <3>1. OrderedAt(store, Run(s)) /\ ~There(store, "events", Run(s))
      BY <1>2, <1>5 DEF OrderInv, Ordered, There
    <3>2. ~There(store, "refs", Run(s)) /\ ~There(store, "record", Run(s))
      BY <3>1 DEF OrderedAt
    <3>3. ~There(store', "refs", Run(s)) /\ ~There(store', "record", Run(s))
      BY <2>5, <3>2 DEF There
    <3> QED
      BY <3>1, <3>2, <3>3 DEF Contents, Parts, OrderedAt
  <2>8. Refers(s)'
    BY <2>3 DEF Refers
  <2>9. step.what \in Contents
    BY <1>3 DEF Contents, Parts
  <2> QED
    BY <1>1, <1>2, <1>3, <2>1, <2>3, <2>4, <2>6, <2>7, <2>8, <2>9, OrderWrites
<1> QED
  BY <1>1, <1>4, <1>5

\* All refs in one transaction: the ledgers are there, and no records.
LEMMA OrderRefs ==
  ASSUME ImportInv, ImportInv', UndoInv, DataInv, OrderInv, NEW s \in Services, CreateRefs(s)
  PROVE  OrderInv'
<1> DEFINE step == [what |-> "refs", runs |-> ToWrite(s)]
           j == Done(job[s], step)
<1>1. /\ pc[s] = "refs" /\ file' = file /\ lock' = lock /\ faults' = faults /\ died' = died
      /\ \/ Throw(s, "ERR_GIT") /\ store' = store
         \/ /\ store' = [store EXCEPT !.refs = @ \cup {r \in BundleOf(s).refs : r.run \in ToWrite(s)}]
            /\ Goto(s, "record", j)
  BY DEF CreateRefs, counters
<1>2. /\ Typed /\ Landed(s) /\ Reached(s) /\ IsStore(store) /\ DOMAIN job[s] = JobFields /\ Continues(s) /\ Counts
      /\ ToWrite(s) = {RunAt(s, i) : i \in job[s].todo} /\ ToWrite(s) \subseteq Runs /\ pc[s] \in ImportSteps
      /\ DOMAIN store = {"dirs", "records", "ledgers", "refs", "blobs", "objects"}
  BY <1>1, WriteFacts, WorkContinues, Counting DEF Working, IsStore, EmptyStore
<1>3. step \in UndoSteps /\ step.what = "refs" /\ step.runs = ToWrite(s)
  BY <1>2 DEF UndoSteps
<1> HIDE DEF step
<1>4. CASE Throw(s, "ERR_GIT") /\ store' = store
  BY <1>1, <1>2, <1>4, OrderThrows
<1>5. CASE /\ store' = [store EXCEPT !.refs = @ \cup {r \in BundleOf(s).refs : r.run \in ToWrite(s)}]
           /\ Goto(s, "record", j)
  <2>1. j.path = job[s].path /\ j.todo = job[s].todo /\ j.undo = <<step>> \o job[s].undo
    BY <1>2 DEF Done, JobFields
  <2> HIDE DEF j
  <2>2. pc'[s] = "record" /\ job'[s] = j
    BY <1>2, <1>5 DEF Goto, Go, Typed
  <2>3. Adds(step)
    <3>1. \E X : store' = [store EXCEPT !.refs = @ \cup {x \in X : x.run \in step.runs}]
      BY <1>3, <1>5
    <3> QED
      BY <1>2, <1>3, <3>1, AddsParts
  <2>4. /\ store'.refs = store.refs \cup {r \in BundleOf(s).refs : r.run \in ToWrite(s)}
        /\ store'.ledgers = store.ledgers /\ store'.records = store.records
    BY <1>2, <1>5
  <2>5. Only(step.runs)
    <3>1. \A r : r \notin ToWrite(s) => RefsOfRun(store'.refs, r) = RefsOfRun(store.refs, r)
      BY <2>4 DEF RefsOfRun
    <3> QED
      BY <1>3, <2>4, <3>1, OnlyIf
  <2>6. ASSUME NEW r \in step.runs, faults <= 1
        PROVE  (\E what \in Contents : Undoes(job[s].undo, what, r)) /\ OrderedAt(store', r)
    <3>1. PICK i \in job[s].todo : r = RunAt(s, i)
      BY <1>2, <1>3, <2>6
    <3>2. Undoes(job[s].undo, "events", r) /\ "events" \in Contents
      BY <1>1, <1>2, <3>1 DEF Reached, Contents, Parts
    <3>3. r \in Runs /\ There(store', "events", r)
      BY <1>1, <1>2, <2>4, <3>1 DEF Landed, There
    <3>4. OrderedAt(store, r) /\ (There(store', "record", r) <=> There(store, "record", r))
          /\ EventLog(store', r) = EventLog(store, r)
      BY <2>4, <2>6, <3>3 DEF OrderInv, Ordered, There, EventLog
    <3> QED
      BY <2>4, <3>2, <3>3, <3>4 DEF OrderedAt
  <2>7. Refers(s)'
    <3>1. BundleOf(s)' = BundleOf(s) /\ ToWrite(s)' = ToWrite(s)
      BY <1>1, <1>2, <2>1, <2>2, SameBundle
    <3>2. \A r \in ToWrite(s) : RefsOfRun(BundleOf(s).refs, r) \subseteq store'.refs
      BY <2>4 DEF RefsOfRun
    <3> QED
      BY <3>1, <3>2 DEF Refers
  <2>8. step.what \in Contents
    BY <1>3 DEF Contents, Parts
  <2> QED
    BY <1>1, <1>2, <1>3, <2>1, <2>2, <2>3, <2>5, <2>6, <2>7, <2>8, OrderWrites
<1> QED
  BY <1>1, <1>4, <1>5

\* A run's record: the ledger is the bundle's, whose refs are there.
LEMMA OrderRecord ==
  ASSUME ImportInv, ImportInv', UndoInv, DataInv, OrderInv, NEW s \in Services, WriteRecord(s)
  PROVE  OrderInv'
<1> DEFINE step == [what |-> "record", runs |-> {Run(s)}]
           j == Done(job[s], step)
           x == BundleOf(s).records[Run(s)]
<1>1. /\ pc[s] = "record" /\ file' = file /\ lock' = lock /\ faults' = faults /\ died' = died
      /\ \/ Throw(s, "EEXIST") /\ store' = store
         \/ /\ store' = [store EXCEPT !.records = With(@, Run(s), x)]
            /\ Goto(s, "sync", j)
  BY DEF WriteRecord, counters
<1>2. /\ Typed /\ Landed(s) /\ Reached(s) /\ IsStore(store) /\ DOMAIN job[s] = JobFields /\ Continues(s) /\ Counts
      /\ job[s].at \in job[s].todo /\ Run(s) = RunAt(s, job[s].at)
      /\ Run(s) \in Runs /\ Run(s) \in ToWrite(s) /\ pc[s] \in ImportSteps
      /\ DOMAIN store = {"dirs", "records", "ledgers", "refs", "blobs", "objects"}
  BY <1>1, WriteFacts, WorkContinues, Counting DEF Working, IsStore, EmptyStore
<1>3. step \in UndoSteps /\ step.what = "record" /\ step.runs = {Run(s)}
  BY <1>2 DEF UndoSteps
<1> HIDE DEF step
<1>4. CASE Throw(s, "EEXIST") /\ store' = store
  BY <1>1, <1>2, <1>4, OrderThrows
<1>5. CASE /\ store' = [store EXCEPT !.records = With(@, Run(s), x)]
           /\ Goto(s, "sync", j)
  <2>1. j.path = job[s].path /\ j.todo = job[s].todo /\ j.undo = <<step>> \o job[s].undo
    BY <1>2 DEF Done, JobFields
  <2> HIDE DEF j
  <2>2. pc'[s] = "sync" /\ job'[s] = j
    BY <1>2, <1>5 DEF Goto, Go, Typed
  <2>3. Adds(step)
    <3>1. \E r, y : step.runs = {r} /\ store' = [store EXCEPT !.records = With(@, r, y)]
      BY <1>3, <1>5
    <3> QED
      BY <1>2, <1>3, <3>1, AddsParts
  <2> HIDE DEF x
  <2>4. /\ store'.records = With(store.records, Run(s), x)
        /\ store'.ledgers = store.ledgers /\ store'.refs = store.refs
    BY <1>2, <1>5
  <2>5. Only(step.runs)
    BY <1>3, <2>4, OnlyIf DEF With
  <2>6. Undoes(job[s].undo, "events", Run(s)) /\ "events" \in Contents
    BY <1>1, <1>2 DEF Reached, Contents, Parts
  <2>7. OrderedAt(store', Run(s))
    <3>1. There(store', "events", Run(s)) /\ EventLog(store', Run(s)) = BundleOf(s).ledgers[Run(s)]
      BY <1>1, <1>2, <2>4 DEF Landed, There, EventLog
    <3>2. ASSUME NEW c \in CheckpointsFromLedger(BundleOf(s).ledgers[Run(s)]) PROVE RefOf(c) \in store.refs
      <4>1. Vetted(BundleOf(s), Run(s))
        BY <1>1, <1>2 DEF DataInv, Brings, Entered, LockedSteps
      <4>2. RefOf(c) \in BundleOf(s).refs /\ c.run = Run(s)
        BY <3>2, <4>1, CheckpointsOfRun DEF Vetted
      <4> DEFINE ref == RefOf(c)
      <4>3. ref \in BundleOf(s).refs /\ ref.run = Run(s)
        BY <4>2 DEF RefOf
      <4> HIDE DEF ref
      <4>4. ref \in RefsOfRun(BundleOf(s).refs, Run(s))
        BY <4>3 DEF RefsOfRun
      <4>5. RefsOfRun(BundleOf(s).refs, Run(s)) \subseteq store.refs
        BY <1>1, <1>2 DEF OrderInv, Refers
      <4> QED
        BY <4>4, <4>5 DEF ref
    <3> QED
      BY <2>4, <3>1, <3>2 DEF OrderedAt
  <2>8. Refers(s)'
    <3>1. BundleOf(s)' = BundleOf(s) /\ ToWrite(s)' = ToWrite(s)
      BY <1>1, <1>2, <2>1, <2>2, SameBundle
    <3> QED
      BY <1>1, <2>4, <3>1 DEF OrderInv, Refers
  <2>9. step.what \in Contents
    BY <1>3 DEF Contents, Parts
  <2> QED
    BY <1>1, <1>2, <1>3, <2>1, <2>2, <2>3, <2>5, <2>6, <2>7, <2>8, <2>9, OrderWrites
<1> QED
  BY <1>1, <1>4, <1>5

\* The rollback, latest first: what goes has nothing after it.
LEMMA OrderUndo ==
  ASSUME ImportInv, ImportInv', UndoInv, DataInv, OrderInv, NEW s \in Services, Undo(s)
  PROVE  OrderInv'
<1> DEFINE U == job[s].undo
           V == Tail(U)
           step == Head(U)
           j == [job[s] EXCEPT !.undo = V]
<1>1. /\ pc[s] = "undo" /\ file' = file /\ lock' = lock /\ died' = died
      /\ \/ U = <<>> /\ Go(s, "release") /\ store' = store /\ job' = job /\ faults' = faults
         \/ /\ U # <<>> /\ pc' = pc /\ job' = [job EXCEPT ![s].undo = Tail(@)]
            /\ \/ store' = Removed(store, step) /\ faults' = faults
               \/ Fault /\ store' = store
  BY DEF Undo
<1>2. /\ Typed /\ Importing(s) /\ Holding(s) /\ IsStore(store) /\ DOMAIN job[s] = JobFields
      /\ Stacked(s) /\ Faultless(s) /\ Continues(s) /\ FileStays
      /\ pc[s] \in ImportSteps /\ pc[s] \in Writing
  BY <1>1, WorkContinues DEF Working, ImportInv, Sound, Typed, UndoInv, FileStays, ImportSteps, LockedSteps, Writing
<1>3. /\ ToWrite(s) \subseteq Runs /\ U \in Seq(UndoSteps) /\ Piled(U)
  BY <1>2, WritesRuns DEF Importing, Stacked
<1>4. LocksOf(s) /\ Counts
  BY <1>1, <1>2, OwnLocks, Counting
<1>5. CASE Go(s, "release") /\ store' = store
  <2>1. pc'[s] = "release"
    BY <1>2, <1>5 DEF Go, Typed
  <2> QED
    BY <1>1, <1>2, <1>4, <1>5, <2>1, OrderQuiet DEF Writing
<1>6. CASE U # <<>> /\ pc' = pc /\ job' = [job EXCEPT ![s].undo = Tail(@)]
  <2>1. j.path = job[s].path /\ j.todo = job[s].todo /\ j.undo = V /\ job' = [job EXCEPT ![s] = j]
    BY <1>2, <1>6 DEF JobFields
  <2> HIDE DEF j
  <2>2. pc'[s] = "undo" /\ job'[s] = j
    BY <1>1, <1>2, <1>6, <2>1 DEF Typed
  <2>3. /\ BundleOf(s)' = BundleOf(s) /\ ToWrite(s)' = ToWrite(s)
    BY <1>1, <1>2, <2>1, <2>2, SameBundle
  <2>4. /\ step \in UndoSteps /\ step = U[1] /\ 1 \in DOMAIN U
        /\ \A what, r : Undoes(U, what, r) <=> (step.what = what /\ r \in step.runs) \/ Undoes(V, what, r)
        /\ \A what, r : r \in step.runs /\ Undoes(V, what, r) => Rank[what] < Rank[step.what]
    <3> HIDE DEF U
    <3>1. step = Head(U) /\ V = Tail(U)
      OBVIOUS
    <3> HIDE DEF V, step
    <3>2. step \in UndoSteps /\ step = U[1] /\ 1 \in DOMAIN U
      BY <1>3, <1>6, <3>1, PopUndo
    <3>3. \A what, r : Undoes(U, what, r) <=> (step.what = what /\ r \in step.runs) \/ Undoes(V, what, r)
      BY <1>3, <1>6, <3>1, PopUndo
    <3>4. \A what, r : r \in step.runs /\ Undoes(V, what, r) => Rank[what] < Rank[step.what]
      BY <1>3, <1>6, <3>1, PopUndo
    <3> QED
      BY <3>2, <3>3, <3>4
  <2> HIDE DEF V, step
  <2>5. /\ step.runs \subseteq ToWrite(s) /\ (step.what # "refs" => \E r \in Runs : step.runs = {r})
        /\ \A r \in step.runs : lock[r] = s
    BY <1>2, <2>4 DEF Stacked, Holding
  <2>6. faults # 0 /\ faults \in Nat
    BY <1>1, <1>2, <1>6 DEF Faultless, UndoInv, Counted
  <2>7. CASE Fault /\ store' = store
    <3>1. ~(faults' <= 1)
      BY <2>6, <2>7 DEF Fault
    <3> QED
      BY <1>1, <1>2, <1>4, <2>2, <2>7, <3>1, OrderQuiet
  <2>8. CASE store' = Removed(store, step) /\ faults' = faults
    <3>1. \A r \in Runs, what \in Parts :
           There(store', what, r) <=>
             /\ There(store, what, r)
             /\ what = step.what /\ r \in step.runs =>
                  what = "dir" /\ (There(store, "events", r) \/ There(store, "record", r))
      BY <1>2, <2>4, <2>5, <2>8, RemovedParts
    <3>2. /\ \A r \in DOMAIN store'.ledgers : r \in DOMAIN store.ledgers /\ store'.ledgers[r] = store.ledgers[r]
          /\ \A r : r \notin step.runs => RefsOfRun(store'.refs, r) = RefsOfRun(store.refs, r)
          /\ step.what # "refs" => store'.refs = store.refs
      BY <1>2, <2>4, <2>8, RemovedKeeps
    <3>3. Only(step.runs)
      <4> SUFFICES ASSUME NEW r \in Runs \ step.runs
                   PROVE  /\ r \in DOMAIN store'.ledgers <=> r \in DOMAIN store.ledgers
                          /\ r \in DOMAIN store.ledgers => store'.ledgers[r] = store.ledgers[r]
                          /\ r \in DOMAIN store'.records <=> r \in DOMAIN store.records
                          /\ RefsOfRun(store'.refs, r) = RefsOfRun(store.refs, r)
        BY OnlyIf
      <4>1. /\ There(store', "events", r) <=> There(store, "events", r)
            /\ There(store', "record", r) <=> There(store, "record", r)
        BY <3>1 DEF Parts
      <4>2. /\ r \in DOMAIN store'.ledgers <=> r \in DOMAIN store.ledgers
            /\ r \in DOMAIN store'.records <=> r \in DOMAIN store.records
        BY <4>1 DEF There
      <4> QED
        BY <3>2, <4>2
    <3>4. ASSUME faults <= 1, NEW r \in ToWrite(s), lock[r] = s
          PROVE  \/ \A what \in Contents : ~Undoes(V, what, r)
                 \/ \A what \in Contents : There(store', what, r) => Undoes(V, what, r)
      <4>1. \/ \A what \in Contents : ~Undoes(U, what, r)
            \/ \A what \in Contents : There(store, what, r) => Undoes(U, what, r)
        BY <1>2, <3>4 DEF OrderInv, Withdraws
      <4>2. r \in Runs /\ Contents \subseteq Parts
        BY <1>3 DEF Contents
      <4>3. \A what \in Contents : There(store', what, r) =>
              There(store, what, r) /\ ~(what = step.what /\ r \in step.runs)
        BY <3>1, <4>2 DEF Contents
      <4> QED
        BY <2>4, <4>1, <4>3
    <3>5. Withdraws(s)'
      BY <1>1, <2>1, <2>2, <2>3, <2>8, <3>4 DEF Withdraws
    <3>6. Refers(s)'
      BY <2>2 DEF Refers
    <3>7. ASSUME faults <= 1, NEW r \in step.runs PROVE OrderedAt(store', r)
      <4>1. r \in Runs /\ r \in ToWrite(s) /\ lock[r] = s
        BY <1>3, <2>5, <3>7
      <4>2. OrderedAt(store, r)
        BY <3>7, <4>1 DEF OrderInv, Ordered
      <4>3. ASSUME NEW what \in Contents, There(store', what, r), step.what \in Contents
            PROVE  Rank[what] < Rank[step.what]
        <5>1. Undoes(U, step.what, r)
          BY <2>4, <3>7
        <5>2. \A x \in Contents : There(store', x, r) => Undoes(V, x, r)
          <6>1. \/ \A x \in Contents : ~Undoes(V, x, r)
                \/ \A x \in Contents : There(store', x, r) => Undoes(V, x, r)
            BY <3>4, <3>7, <4>1
          <6>2. \A x \in Contents : There(store, x, r) => Undoes(U, x, r)
            BY <1>2, <3>7, <4>1, <4>3, <5>1 DEF OrderInv, Withdraws
          <6>3. \A x \in Contents : There(store', x, r) => There(store, x, r) /\ x # step.what
            BY <3>1, <3>7, <4>1 DEF Contents
          <6> QED
            BY <2>4, <6>2, <6>3
        <5> QED
          BY <2>4, <3>7, <4>3, <5>2
      <4>4. Contents = {"events", "refs", "record"}
        BY DEF Contents, Parts
      <4>5. \A what \in Contents : There(store', what, r) => There(store, what, r)
        BY <3>1, <4>1 DEF Contents
      <4>6. \A what \in Contents : There(store, what, r) /\ what # step.what => There(store', what, r)
        BY <3>1, <4>1 DEF Contents
      <4>7. EventLog(store', r) = EventLog(store, r) \/ step.what = "events"
        <5>1. step.what # "events" => (r \in DOMAIN store.ledgers => r \in DOMAIN store'.ledgers)
          BY <4>4, <4>6 DEF There
        <5> QED
          BY <3>2, <5>1 DEF EventLog
      <4>8. CASE step.what = "events"
        <5>1. ~There(store', "refs", r) /\ ~There(store', "record", r)
          BY <4>3, <4>4, <4>8, Ranks
        <5> QED
          BY <5>1 DEF OrderedAt
      <4>9. CASE step.what = "refs"
        <5>1. ~There(store', "record", r)
          BY <4>3, <4>4, <4>9, Ranks
        <5> QED
          BY <4>2, <4>4, <4>5, <4>6, <4>9, <5>1 DEF OrderedAt
      <4>10. CASE step.what \in {"dir", "record"}
        BY <3>2, <4>2, <4>4, <4>5, <4>6, <4>7, <4>10 DEF OrderedAt
      <4> QED
        BY <2>4, <4>8, <4>9, <4>10 DEF UndoSteps
    <3> QED
      BY <1>2, <1>4, <2>5, <2>8, <3>3, <3>5, <3>6, <3>7, OrderKept DEF Continues
  <2> QED
    BY <1>1, <1>6, <2>7, <2>8 DEF step
<1> QED
  BY <1>1, <1>5, <1>6

\* Engines append to a visible run what needs no ref.
LEMMA OrderEngine ==
  ASSUME ImportInv, UndoInv, DataInv, OrderInv, EngineAppends
  PROVE  OrderInv'
<1>1. /\ pc' = pc /\ job' = job /\ lock' = lock /\ FileStays /\ faults' = faults /\ died' = died
      /\ store'.refs = store.refs /\ store'.records = store.records
  BY EngineStores DEF FileStays
<1>2. Counts
  BY <1>1, Counting
<1>3. PICK R \in SUBSET Runs :
        /\ \A r \in R : lock[r] = NoService /\ store'.ledgers[r] = Seal(r, EventLog(store, r), NewEvent)
        /\ DOMAIN store'.ledgers = DOMAIN store.ledgers \cup R
        /\ \A q \in DOMAIN store.ledgers \ R : store'.ledgers[q] = store.ledgers[q]
  <2>1. CASE store'.ledgers = store.ledgers
    <3>1. {} \in SUBSET Runs
      OBVIOUS
    <3> QED
      BY <2>1, <3>1
  <2>2. ASSUME NEW r \in DOMAIN store.records, lock[r] = NoService,
               DOMAIN store'.ledgers = DOMAIN store.ledgers \cup {r},
               store'.ledgers[r] = Seal(r, EventLog(store, r), NewEvent),
               \A q \in DOMAIN store.ledgers \ {r} : store'.ledgers[q] = store.ledgers[q]
        PROVE  \E R \in SUBSET Runs :
                 /\ \A q \in R : lock[q] = NoService /\ store'.ledgers[q] = Seal(q, EventLog(store, q), NewEvent)
                 /\ DOMAIN store'.ledgers = DOMAIN store.ledgers \cup R
                 /\ \A q \in DOMAIN store.ledgers \ R : store'.ledgers[q] = store.ledgers[q]
    <3>1. {r} \in SUBSET Runs
      BY DEF ImportInv, Typed, IsStore
    <3> WITNESS {r} \in SUBSET Runs
    <3> QED
      BY <2>2
  <2> QED
    BY <2>1, <2>2, EngineStores
<1>4. Only(R)
  BY <1>1, <1>3, OnlyIf
<1>5. ASSUME faults <= 1, NEW r \in R PROVE OrderedAt(store', r)
  <2> DEFINE L == EventLog(store, r)
             M == Seal(r, L, NewEvent)
  <2>1. Filled(r, L) /\ IsLedger(L)
    BY FilledLog, LogIsLedger DEF ImportInv, Typed
  <2>2. OrderedAt(store, r)
    BY <1>3, <1>5 DEF OrderInv, Ordered
  <2>3. There(store', "events", r) /\ EventLog(store', r) = M
    BY <1>3 DEF There, EventLog
  <2>4. /\ There(store', "record", r) <=> There(store, "record", r)
    BY <1>1 DEF There
  <2>5. There(store, "record", r) => \A c \in CheckpointsFromLedger(L) : RefOf(c) \in store.refs
    BY <2>2 DEF OrderedAt
  <2> HIDE DEF L
  <2>6. CheckpointsFromLedger(M) \subseteq CheckpointsFromLedger(L)
    BY <2>1, SealedLedger DEF Filled
  <2> HIDE DEF M
  <2> QED
    BY <1>1, <2>3, <2>4, <2>5, <2>6 DEF OrderedAt
<1>6. Ordered'
  BY <1>1, <1>2, <1>4, <1>5, OrderRuns
<1>7. ASSUME NEW t \in Services PROVE Withdraws(t)' /\ Refers(t)'
  <2>1. \A r \in Runs : (lock'[r] = t <=> lock[r] = t) /\ (r \in R => lock[r] # t)
    BY <1>1, <1>3, ServiceAssumption
  <2> QED
    BY <1>1, <1>2, <1>4, <2>1, OrderOthers
<1> QED
  BY <1>6, <1>7 DEF OrderInv

\* A service that is not writing after a step that leaves the store alone.
LEMMA OrderOutside ==
  ASSUME ImportInv, ImportInv', UndoInv, DataInv, OrderInv, NEW s \in Services,
         \/ Import(s) \/ Crash(s) \/ Export(s) \/ Release(s)
         \/ Reindex(s) \/ List(s) \/ ReadRun(s) \/ Load(s) \/ Rebuild(s) \/ ReindexFails(s)
  PROVE  OrderInv'
<1>1. Typed /\ Typed'
  BY DEF ImportInv
<1>2. /\ Moved(s) /\ FileStays /\ store' = store /\ pc'[s] \notin Writing
      /\ (faults' = faults /\ died' = died) \/ (Fault /\ died \subseteq died')
      /\ \/ lock' = lock \/ lock' = Unlock(s)
         \/ \E r : lock[r] = NoService /\ lock' = [lock EXCEPT ![r] = s]
  <2>1. CASE Crash(s)
    <3>1. /\ Go(s, "dead") /\ job' = job /\ store' = store /\ FileStays
          /\ Fault /\ died \subseteq died' /\ lock' = Unlock(s)
      BY <2>1 DEF Crash, FileStays
    <3>2. Moved(s) /\ pc'[s] = "dead"
      BY <1>1, <3>1, Goes DEF PcSteps
    <3> QED
      BY <3>1, <3>2 DEF Writing
  <2>2. CASE Import(s)
    <3>1. store' = store /\ FileStays /\ faults' = faults /\ died' = died /\ lock' = lock
      BY <2>2 DEF Import, FileStays
    <3>2. PICK step \in {"idle", "lock"} : \E j : Goto(s, step, j)
      <4>1. \E j : Goto(s, "idle", j) \/ Goto(s, "lock", j)
        BY <2>2 DEF Import, Begin
      <4> QED
        BY <4>1
    <3>3. Moved(s)
      BY <1>1, <3>2, ShiftsMove DEF Shifts
    <3>4. pc'[s] = step
      BY <1>1, <3>2 DEF Goto, Go, Typed
    <3> QED
      BY <3>1, <3>3, <3>4 DEF Writing
  <2>3. CASE ~Crash(s) /\ ~Import(s)
    <3>1. /\ store' = store /\ FileStays
          /\ (faults' = faults /\ died' = died) \/ (Fault /\ died' = died)
          /\ \/ lock' = lock \/ lock' = Unlock(s)
             \/ \E r : lock[r] = NoService /\ lock' = [lock EXCEPT ![r] = s]
      BY <1>1, <2>3, OutsideShape
    <3>2. PICK step \in {"idle"} \cup ExportSteps \cup ReindexSteps :
            (\E j : Goto(s, step, j)) \/ (Go(s, step) /\ job' = job)
      BY <1>1, <2>3, OutsideShape
    <3>3. Moved(s)
      BY <1>1, <3>2, ShiftsMove DEF Shifts
    <3>4. pc'[s] = step /\ step \notin Writing
      BY <1>1, <3>2, WritingSteps DEF Goto, Go, Typed
    <3> QED
      BY <3>1, <3>3, <3>4
  <2> QED
    BY <2>1, <2>2, <2>3
<1>3. LocksOf(s) /\ Counts
  <2>1. ASSUME NEW r, lock' = [lock EXCEPT ![r] = s], lock[r] = NoService PROVE LocksOf(s)
    BY <1>1, <2>1, ServiceAssumption DEF LocksOf, Typed
  <2> QED
    BY <1>1, <1>2, <2>1, OwnLocks, Counting
<1>4. Only({})
  BY <1>2, OnlyIf
<1>5. Withdraws(s)' /\ Refers(s)'
  BY <1>2 DEF Withdraws, Refers, Writing
<1> QED
  BY <1>2, <1>3, <1>4, <1>5, OrderKept

\* A write fails.
LEMMA OrderFails ==
  ASSUME ImportInv, ImportInv', UndoInv, DataInv, OrderInv, NEW s \in Services,
         NEW step \in {"dir", "events", "refs", "record", "sync"}, WriteFails(s, step)
  PROVE  OrderInv'
<1>1. /\ pc[s] = step /\ Throw(s, "ERR_IO") /\ Fault
      /\ store' = store /\ file' = file /\ lock' = lock /\ died' = died
  BY DEF WriteFails
<1>2. Counts
  BY <1>1, Counting
<1>3. Continues(s)
  <2>1. Working(s)
    BY DEF Working
  <2> QED
    BY <2>1, WorkContinues
<1> QED
  BY <1>1, <1>2, <1>3, OrderThrows

\* At first there is nothing.
LEMMA OrderInit == Init => OrderInv
<1> SUFFICES ASSUME Init PROVE OrderInv
  OBVIOUS
<1>1. store.ledgers = <<>> /\ store.records = <<>> /\ store.refs = {} /\ DOMAIN <<>> = {}
  BY DEF Init, EmptyStore
<1>2. \A s \in Services : pc[s] = "idle"
  BY DEF Init
<1>3. \A r : ~There(store, "refs", r) /\ ~There(store, "record", r)
  BY <1>1 DEF There, RefsOfRun
<1> QED
  BY <1>2, <1>3 DEF OrderInv, Ordered, OrderedAt, Withdraws, Refers, Writing

\* Every step keeps the order.
LEMMA OrderNext == ImportInv /\ ImportInv' /\ UndoInv /\ DataInv /\ OrderInv /\ [Next]_vars => OrderInv'
<1> SUFFICES ASSUME ImportInv, ImportInv', UndoInv, DataInv, OrderInv, [Next]_vars PROVE OrderInv'
  OBVIOUS
<1>1. ASSUME NEW s \in Services, ImportRuns(s) PROVE OrderInv'
  <2>1. \/ Import(s) \/ Lock(s) \/ Recheck(s)
        \/ WriteObjects(s) \/ WriteObjectsFails(s) \/ WriteBlobs(s) \/ WriteBlobsFails(s)
        \/ WriteFails(s, "lock") \/ WriteFails(s, "recheck")
        \/ MakeDir(s) \/ WriteEvents(s) \/ CreateRefs(s) \/ WriteRecord(s) \/ Sync(s)
        \/ \E step \in {"dir", "events", "refs", "record", "sync"} : WriteFails(s, step)
        \/ Undo(s) \/ Release(s)
    BY <1>1 DEF ImportRuns
  <2> QED
    BY <2>1, OrderEarly, OrderAside, OrderEvents, OrderRefs, OrderRecord, OrderFails, OrderUndo, OrderOutside
<1>2. ASSUME NEW s \in Services, Progress(s) \/ Reindex(s) \/ Crash(s) PROVE OrderInv'
  BY <1>1, <1>2, OrderOutside DEF Progress
<1>3. CASE EngineAppends
  BY <1>3, OrderEngine
<1>4. CASE UNCHANGED vars
  <2>1. /\ store' = store /\ FileStays /\ lock' = lock /\ pc' = pc /\ job' = job /\ faults' = faults /\ died' = died
    BY <1>4 DEF vars, FileStays
  <2>2. Only({}) /\ Counts
    BY <2>1, OnlyIf, Counting
  <2>3. Ordered'
    BY <2>2, OrderRuns
  <2>4. \A t \in Services : Withdraws(t)' /\ Refers(t)'
    BY <2>1, <2>2, OrderOthers
  <2> QED
    BY <2>3, <2>4 DEF OrderInv
<1> QED
  BY <1>2, <1>3, <1>4 DEF Next

\* A run is visible only whole: run.json is written after all that the run needs, by
\* whom had verified it (importBundle), and a rollback removes it first; then its
\* blobs and objects stay, and engines append what needs nothing more.
THEOREM VisibleRunsWhole == Spec => []VisibleRunWhole
<1>1. ImportInv /\ UndoInv /\ DataInv /\ OrderInv => VisibleRunWhole
  <2> SUFFICES ASSUME ImportInv, UndoInv, DataInv, OrderInv, faults <= 1, NEW r \in DOMAIN store.records
               PROVE  /\ r \in store.dirs
                      /\ ChainHolds(r, EventLog(store, r))
                      /\ PayloadsOf(EventLog(store, r)) \subseteq store.blobs
                      /\ \A c \in CheckpointsFromLedger(EventLog(store, r)) :
                           /\ RefOf(c) \in store.refs /\ c.state \in store.blobs
                           /\ MatchesState(c) \/ \E bundle \in Bundles : LeavesState(bundle, c)
                      /\ cut \/ Restorable(r)
    BY DEF VisibleRunWhole
  <2>1. r \in Runs /\ There(store, "record", r)
    BY DEF ImportInv, Typed, IsStore, There
  <2>2. r \in store.dirs
    BY <2>1 DEF UndoInv, DirFirst, There
  <2>3. Filled(r, EventLog(store, r))
    BY FilledLog
  <2>4. \A c \in CheckpointsFromLedger(EventLog(store, r)) : RefOf(c) \in store.refs
    BY <2>1 DEF OrderInv, Ordered, OrderedAt
  <2>5. ASSUME ~cut PROVE Restorable(r)
    <3> DEFINE roots == CommitRefs({c.commit : c \in CheckpointsFromLedger(EventLog(store, r))})
               W == Walk(Objects, roots)
               Good == {ref \in W : Found(ref)}
    <3>1. roots \subseteq W /\ \A ref \in W : ref.sha \in Objects => ObjectContent[ref.sha].refs \subseteq W
      BY WalkCloses
    <3>2. \A ref \in roots : Found(ref)
      BY <2>3, <2>5 DEF CommitRefs, Filled
    <3>3. \A ref \in Good : ref.sha \in Objects => ObjectContent[ref.sha].refs \subseteq Good
      <4>1. \A sha \in store.objects : \A ref \in ObjectContent[sha].refs : Found(ref)
        BY <2>5 DEF DataInv, Closed
      <4> HIDE DEF W
      <4> QED
        BY <3>1, <4>1 DEF Found
    <3>4. W \subseteq Good
      <4> HIDE DEF Good
      <4>1. roots \subseteq Good
        BY <3>1, <3>2 DEF Good
      <4> HIDE DEF roots
      <4> QED
        BY <3>3, <4>1, WalkReaches DEF W
    <3>5. \A ref \in W : ref.sha \in store.objects /\ ObjectContent[ref.sha].type = ref.type
      <4> HIDE DEF W
      <4> QED
        BY <3>4 DEF Found
    <3> QED
      BY <3>5 DEF Restorable
  <2> QED
    BY <2>2, <2>3, <2>4, <2>5 DEF Filled, Stated
<1>2. Spec => []ImportInv
  BY ImportInvariant
<1>3. Init => UndoInv /\ DataInv /\ OrderInv
  BY UndoInit, DataInit, OrderInit
<1>4. ImportInv /\ ImportInv' /\ UndoInv /\ [Next]_vars => UndoInv'
  BY UndoNext
<1>5. ImportInv /\ ImportInv' /\ DataInv /\ [Next]_vars => DataInv'
  BY DataNext
<1>6. ImportInv /\ ImportInv' /\ UndoInv /\ DataInv /\ OrderInv /\ [Next]_vars => OrderInv'
  BY OrderNext
<1> QED
  BY <1>1, <1>2, <1>3, <1>4, <1>5, <1>6, PTL DEF Spec

-----------------------------------------------------------------------------
(* Export and import fit together: what an export writes verifies in a store *)
(* that has nothing, or is refused for what it lacks or what was redacted.    *)

\* A bundle verifies in an empty store as RoundTrip says.
Trips(bundle) ==
  LET verdict == Verify(bundle, EmptyStore)
      redacted == "marker" \in Texts(bundle)
  IN  /\ verdict \in {"ok", "ERR_INCOMPLETE", "ERR_TAMPERED"}
      /\ redacted => verdict = "ERR_TAMPERED"
      /\ verdict = "ERR_TAMPERED" => redacted \/ Stale(bundle)
      /\ verdict = "ERR_INCOMPLETE" => Incomplete(bundle)
      /\ verdict = "ok" => ~Incomplete(bundle) /\ ~Stale(bundle)

\* The events that a plan is about: a ledger only grows at its end.
PlannedEvents(st, plan) == SubSeq(EventLog(st, plan.run), 1, plan.head.seq)

\* A plan is about checkpoints of its events, with their states and, if their refs
\* are planned, all that these lead to; and about all that its events need.
Holds(plan, events) ==
  /\ ChainHolds(plan.run, events)
  /\ \A i \in DOMAIN events : events[i].text # "marker"
  /\ \A b \in plan.blobs : BlobContent[b].text # "marker"
  /\ \A o \in plan.objects : ObjectContent[o].text # "marker"
  /\ plan.ledger => PayloadsOf(events) \subseteq plan.blobs
  /\ \E cs \in SUBSET CheckpointsFromLedger(events) :
       /\ plan.checkpoints = {[run |-> c.run, id |-> c.id] : c \in cs}
       /\ \A c \in cs : c.state \in plan.blobs
       /\ plan.refs = {} \/ plan.refs = {RefOf(c) : c \in cs}
  /\ \A ref \in Walk(plan.objects, CommitRefs({r.sha : r \in plan.refs})) :
       ref.sha \in plan.objects /\ ObjectContent[ref.sha].type = ref.type
Exportable(st, plan) ==
  /\ st.records[plan.run] # "malformed"
  /\ Holds(plan, PlannedEvents(st, plan))

\* The invariant.
TripInv ==
  /\ Genuine(source)
  /\ \A s \in Services :
       /\ pc[s] \in {"confirm", "declare", "create", "fill"} => Exportable(source, job[s].plan)
       /\ pc[s] = "link" => Trips(job[s].draft)
  /\ file # NoFile => Trips(file)

\* The events at the start of a ledger.
LEMMA Prefix ==
  ASSUME NEW L, IsLedger(L), NEW k \in 0..Len(L), NEW P, P = SubSeq(L, 1, k)
  PROVE  /\ IsLedger(P) /\ Len(P) = k /\ DOMAIN P = 1..k /\ DOMAIN L = 1..Len(L) /\ Len(L) \in Nat
         /\ \A i \in 1..k : P[i] = L[i]
         /\ \A j \in 0..k : SubSeq(P, 1, j) = SubSeq(L, 1, j)
<1>1. L \in Seq(ToSet(L)) /\ Len(L) \in Nat /\ DOMAIN L = 1..Len(L)
  BY DEF IsLedger
<1>2. P = [i \in 1..k |-> L[i]] /\ P \in Seq(ToSet(L)) /\ Len(P) = k
  BY <1>1
<1>3. DOMAIN P = 1..k /\ \A i \in 1..k : P[i] = L[i]
  BY <1>2
<1>4. IsLedger(P)
  <2>1. P = [i \in 1..k |-> P[i]] /\ k \in Nat
    BY <1>2, <1>3
  <2> QED
    BY <2>1, IsLedgerIf
<1>5. \A j \in 0..k : SubSeq(P, 1, j) = SubSeq(L, 1, j)
  <2> TAKE j \in 0..k
  <2>1. SubSeq(P, 1, j) = [i \in 1..j |-> P[i]] /\ SubSeq(L, 1, j) = [i \in 1..j |-> L[i]]
    BY <1>1, <1>2
  <2>2. \A i \in 1..j : P[i] = L[i]
    BY <1>3
  <2> QED
    BY <2>1, <2>2
<1> QED
  BY <1>1, <1>2, <1>3, <1>4, <1>5

\* They are chained, and declare the checkpoints that the ledger does so far.
LEMMA PrefixDeclares ==
  ASSUME NEW r, NEW L, IsLedger(L), ChainHolds(r, L), NEW k \in 0..Len(L), NEW P, P = SubSeq(L, 1, k)
  PROVE  /\ ChainHolds(r, P)
         /\ \A c \in CheckpointsFromLedger(L) : c.seq <= k => c \in CheckpointsFromLedger(P)
<1>1. /\ DOMAIN P = 1..k /\ DOMAIN L = 1..Len(L) /\ Len(L) \in Nat
      /\ \A i \in 1..k : P[i] = L[i]
      /\ \A j \in 0..k : SubSeq(P, 1, j) = SubSeq(L, 1, j)
  BY Prefix
<1>2. ChainHolds(r, P)
  <2> SUFFICES ASSUME NEW i \in 1..k
               PROVE  /\ P[i].run = r
                      /\ P[i].seq = i
                      /\ P[i].prev = HeadOf(SubSeq(P, 1, i - 1)).hash
                      /\ P[i].hash = Append(P[i].prev, P[i].body)
                      /\ P[i].text = BodyContent[P[i].body].text
    BY <1>1 DEF ChainHolds
  <2>1. i \in DOMAIN L /\ i - 1 \in 0..k
    BY <1>1
  <2> QED
    BY <1>1, <2>1 DEF ChainHolds
<1>3. ASSUME NEW c \in CheckpointsFromLedger(L), c.seq <= k PROVE c \in CheckpointsFromLedger(P)
  <2>1. PICK i \in DOMAIN L :
          /\ c = Declared(L[i]) /\ DeclaredAt(L, i)
          /\ \A j \in 1..(i - 1) : DeclaredAt(L, j) => Declared(L[j]).id # Declared(L[i]).id
    BY DEF CheckpointsFromLedger
  <2>2. c.seq = i
    BY <2>1 DEF ChainHolds, DeclaredAt
  <2>3. i \in 1..k /\ \A j \in 1..(i - 1) : j \in 1..k
    BY <1>1, <1>3, <2>2
  <2>4. \A j \in 1..k : DeclaredAt(P, j) <=> DeclaredAt(L, j)
    BY <1>1 DEF DeclaredAt
  <2>5. c = Declared(P[i]) /\ DeclaredAt(P, i)
    BY <1>1, <2>1, <2>3, <2>4
  <2>6. \A j \in 1..(i - 1) : DeclaredAt(P, j) => Declared(P[j]).id # Declared(P[i]).id
    BY <1>1, <2>1, <2>3, <2>4
  <2> QED
    BY <1>1, <2>3, <2>5, <2>6 DEF CheckpointsFromLedger
<1> QED
  BY <1>2, <1>3

\* A ledger declares an id once, and finitely many.
LEMMA DeclaredOnce ==
  ASSUME NEW L, IsLedger(L)
  PROVE  /\ \A c, d \in CheckpointsFromLedger(L) : c.id = d.id => c = d
         /\ IsFiniteSet(CheckpointsFromLedger(L))
<1>1. DOMAIN L = 1..Len(L) /\ Len(L) \in Nat
  BY DEF IsLedger
<1>2. ASSUME NEW c \in CheckpointsFromLedger(L), NEW d \in CheckpointsFromLedger(L), c.id = d.id
      PROVE  c = d
  <2>1. PICK i \in DOMAIN L :
          /\ c = Declared(L[i]) /\ DeclaredAt(L, i)
          /\ \A j \in 1..(i - 1) : DeclaredAt(L, j) => Declared(L[j]).id # Declared(L[i]).id
    BY DEF CheckpointsFromLedger
  <2>2. PICK m \in DOMAIN L :
          /\ d = Declared(L[m]) /\ DeclaredAt(L, m)
          /\ \A j \in 1..(m - 1) : DeclaredAt(L, j) => Declared(L[j]).id # Declared(L[m]).id
    BY DEF CheckpointsFromLedger
  <2>3. i \notin 1..(m - 1) /\ m \notin 1..(i - 1)
    BY <1>2, <2>1, <2>2
  <2>4. i = m
    BY <1>1, <2>3
  <2> QED
    BY <2>1, <2>2, <2>4
<1>3. IsFiniteSet(CheckpointsFromLedger(L))
  <2> DEFINE at == {i \in DOMAIN L :
                      /\ DeclaredAt(L, i)
                      /\ \A j \in 1..(i - 1) : DeclaredAt(L, j) => Declared(L[j]).id # Declared(L[i]).id}
  <2>1. CheckpointsFromLedger(L) = {Declared(L[i]) : i \in at}
    BY DEF CheckpointsFromLedger
  <2>2. at \subseteq 1..Len(L)
    BY <1>1
  <2> HIDE DEF at
  <2>3. IsFiniteSet(1..Len(L))
    BY <1>1, FS_Interval
  <2>4. IsFiniteSet(at)
    BY <2>2, <2>3, FS_Subset
  <2> DEFINE f == [i \in at |-> Declared(L[i])]
  <2>5. f \in Surjection(at, CheckpointsFromLedger(L))
    BY <2>1 DEF Surjection
  <2> QED
    BY <2>4, <2>5, FS_Surjection
<1> QED
  BY <1>2, <1>3

\* What the refs of a genuine store lead to is of the right types, if it is all
\* there.
LEMMA ClosureTyped ==
  ASSUME NEW st, Genuine(st), NEW refs \in SUBSET st.refs,
         NEW objects, objects = Closure({r.sha : r \in refs}), objects \subseteq st.objects
  PROVE  \A ref \in Walk(objects, CommitRefs({r.sha : r \in refs})) :
           ref.sha \in objects /\ ObjectContent[ref.sha].type = ref.type
<1> DEFINE roots == CommitRefs({r.sha : r \in refs})
           W == Walk(Objects, roots)
           all == roots \cup UNION {ObjectContent[o].refs : o \in objects}
           Good == {ref \in all : ref.sha \in objects /\ ObjectContent[ref.sha].type = ref.type}
<1>1. objects = {r.sha : r \in W}
  BY DEF Closure
<1>2. /\ roots \subseteq W
      /\ \A ref \in W : ref.sha \in Objects => ObjectContent[ref.sha].refs \subseteq W
  BY WalkCloses
<1>3. roots \subseteq Good
  <2> SUFFICES ASSUME NEW ref \in roots PROVE ref \in Good
    OBVIOUS
  <2>1. PICK r \in refs : ref = [sha |-> r.sha, type |-> "commit"]
    BY DEF CommitRefs
  <2>2. r.sha \in objects
    <3>1. ref \in W /\ ref.sha = r.sha
      BY <1>2, <2>1
    <3> QED
      BY <1>1, <3>1
  <2>3. ObjectContent[r.sha].type = "commit"
    BY <2>2 DEF Genuine
  <2> QED
    BY <2>1, <2>2, <2>3
<1> HIDE DEF roots, W
<1>4. ASSUME NEW ref \in Good, ref.sha \in objects, NEW to \in ObjectContent[ref.sha].refs
      PROVE  to.sha \in objects /\ ObjectContent[to.sha].type = to.type
  <2>1. PICK w \in W : w.sha = ref.sha
    BY <1>1, <1>4
  <2>2. ref.sha \in Objects
    BY <1>4 DEF Genuine
  <2>3. to \in W
    BY <1>2, <1>4, <2>1, <2>2
  <2>4. to.sha \in objects
    BY <1>1, <2>3
  <2>5. ref.sha \in st.objects /\ to.sha \in st.objects
    BY <1>4, <2>4
  <2> QED
    BY <1>4, <2>4, <2>5 DEF Genuine
<1>5. \A ref \in Good : ref.sha \in objects => ObjectContent[ref.sha].refs \subseteq Good
  <2> SUFFICES ASSUME NEW ref \in Good, ref.sha \in objects, NEW to \in ObjectContent[ref.sha].refs
               PROVE  to \in Good
    OBVIOUS
  <2>1. to.sha \in objects /\ ObjectContent[to.sha].type = to.type
    BY <1>4
  <2>2. to \in all
    OBVIOUS
  <2> QED
    BY <2>1, <2>2
<1>6. Walk(objects, roots) \subseteq Good
  <2> HIDE DEF Good
  <2> QED
    BY <1>3, <1>5, WalkReaches
<1> QED
  BY <1>6 DEF roots

\* The bytes of a plan: as they are, or a marker.
LEMMA PlannedBytes ==
  ASSUME NEW plan, NEW hit, NEW text, text # "marker"
  PROVE  Content(plan, hit, text) = text <=> Content(plan, hit, text) # "marker"
BY DEF Content, Redacted

\* What an export plans is exportable.
LEMMA PlanHolds ==
  ASSUME NEW st, IsStore(st), HoldsEvents(st), Genuine(st), NEW target, NEW include,
         ExportError(st, target, include) = "ok"
  PROVE  Exportable(st, ExportPlan(st, target, include))
<1> DEFINE log == EventLog(st, target.run)
           events == Planned(st, target).events
           cs == Planned(st, target).checkpoints
           plan == ExportPlan(st, target, include)
           cursor == (CHOOSE c \in Chosen(st, target) : TRUE).seq
<1>1. /\ target.run \in DOMAIN st.records /\ st.records[target.run] # "malformed" /\ ChainHolds(target.run, log)
      /\ target.checkpoint # "all" => Chosen(st, target) # {}
      /\ PayloadsOf(events) \subseteq st.blobs
      /\ include.workspace => Closure({c.commit : c \in cs}) \subseteq st.objects
  BY DEF ExportError
<1>2. IsLedger(log)
  BY LogIsLedger
<1>3. /\ \A c \in Durable(st, target.run) :
           c \in CheckpointsFromLedger(log) /\ RefOf(c) \in st.refs /\ c.state \in st.blobs
      /\ cs \subseteq Durable(st, target.run)
  BY DEF Durable, Planned
<1>4. /\ events = SubSeq(log, 1, Len(events)) /\ Len(events) \in 0..Len(log)
      /\ cs \subseteq CheckpointsFromLedger(events)
  <2>1. CASE target.checkpoint = "all"
    <3>1. events = log /\ cs = Durable(st, target.run)
      BY <2>1 DEF Planned
    <3>2. Len(log) \in Nat /\ log = SubSeq(log, 1, Len(log))
      BY <1>2 DEF IsLedger
    <3> QED
      BY <1>3, <3>1, <3>2
  <2>2. CASE target.checkpoint # "all"
    <3>1. cursor \in DOMAIN log
      BY <1>1, <2>2, ChosenInLog
    <3>2. events = SubSeq(log, 1, cursor) /\ cs = {c \in Durable(st, target.run) : c.seq <= cursor}
      BY <2>2 DEF Planned
    <3> HIDE DEF log, cursor, events, cs
    <3>3. cursor \in 0..Len(log)
      BY <1>2, <3>1 DEF IsLedger
    <3>4. Len(events) = cursor
      BY <1>2, <3>2, <3>3, Prefix
    <3>5. cs \subseteq CheckpointsFromLedger(events)
      BY <1>1, <1>2, <1>3, <3>2, <3>3, PrefixDeclares
    <3> QED
      BY <3>2, <3>3, <3>4, <3>5
  <2> QED
    BY <2>1, <2>2
<1>5. /\ plan.run = target.run /\ plan.head = HeadOf(events) /\ plan.ledger = include.ledger
      /\ plan.checkpoints = {[run |-> c.run, id |-> c.id] : c \in cs}
      /\ plan.blobs = PlannedBlobs(st, Planned(st, target), include)
      /\ plan.objects = (IF include.workspace THEN Closure({c.commit : c \in cs}) ELSE {})
      /\ plan.refs = (IF include.workspace THEN {RefOf(c) : c \in cs} ELSE {})
  BY DEF ExportPlan
<1>6. /\ \A c \in cs : c.state \in plan.blobs
      /\ plan.ledger => PayloadsOf(events) \subseteq plan.blobs
      /\ plan.blobs \subseteq {c.state : c \in cs} \cup PayloadsOf(events) \cup st.blobs
  BY <1>5 DEF PlannedBlobs
<1> HIDE DEF log, events, cs, plan
<1>7. plan.head.seq = Len(events)
  BY <1>2, <1>4, <1>5, Prefix, HeadSeq DEF IsLedger
<1>8. PlannedEvents(st, plan) = events
  BY <1>4, <1>5, <1>7 DEF PlannedEvents, log
<1>9. ChainHolds(plan.run, events)
  BY <1>1, <1>2, <1>4, <1>5, PrefixDeclares
<1>10. \A i \in DOMAIN events : events[i].text # "marker"
  <2>1. \A i \in DOMAIN log : log[i].text # "marker"
    BY DEF Genuine, EventLog, log
  <2> QED
    BY <1>2, <1>4, <2>1, Prefix
<1>11. plan.blobs \subseteq st.blobs
  BY <1>1, <1>3, <1>6
<1>12. plan.objects \subseteq st.objects
  BY <1>1, <1>5
<1>13. \A ref \in Walk(plan.objects, CommitRefs({r.sha : r \in plan.refs})) :
         ref.sha \in plan.objects /\ ObjectContent[ref.sha].type = ref.type
  <2>1. plan.refs \subseteq st.refs
    BY <1>3, <1>5
  <2>2. CASE include.workspace
    <3>1. {r.sha : r \in plan.refs} = {c.commit : c \in cs}
      <4>1. \A c : RefOf(c).sha = c.commit
        BY DEF RefOf
      <4>2. plan.refs = {RefOf(c) : c \in cs}
        BY <1>5, <2>2
      <4> QED
        BY <4>1, <4>2
    <3>2. plan.objects = Closure({r.sha : r \in plan.refs})
      BY <1>5, <2>2, <3>1
    <3> QED
      BY <1>12, <2>1, <3>2, ClosureTyped
  <2>3. CASE ~include.workspace
    <3>1. plan.refs = {} /\ plan.objects = {}
      BY <1>5, <2>3
    <3>2. CommitRefs({r.sha : r \in plan.refs}) = {}
      BY <3>1 DEF CommitRefs
    <3>3. Walk(plan.objects, {}) \subseteq {}
      BY WalkReaches
    <3> QED
      BY <3>2, <3>3
  <2> QED
    BY <2>2, <2>3
<1>14. cs \in SUBSET CheckpointsFromLedger(events)
  BY <1>4
<1>15. plan.refs = {} \/ plan.refs = {RefOf(c) : c \in cs}
  BY <1>5
<1>16. Holds(plan, events)
  <2>1. \A b \in plan.blobs : BlobContent[b].text # "marker"
    BY <1>11 DEF Genuine
  <2>2. \A o \in plan.objects : ObjectContent[o].text # "marker"
    BY <1>12 DEF Genuine
  <2>3. \A c \in cs : c.state \in plan.blobs
    BY <1>6
  <2> QED
    BY <1>5, <1>6, <1>9, <1>10, <1>13, <1>14, <1>15, <2>1, <2>2, <2>3 DEF Holds
<1>17. st.records[plan.run] # "malformed"
  BY <1>1, <1>5
<1> QED
  BY <1>8, <1>16, <1>17 DEF Exportable, plan

\* The ledger that is read again is the one that was planned.
LEMMA PlannedOf ==
  ASSUME NEW st, IsStore(st), NEW plan, PlanFits(st, plan), LedgerMatches(st, plan)
  PROVE  PlannedLedger(st, plan) = PlannedEvents(st, plan)
<1> DEFINE all == EventLog(st, plan.run)
           some == {i \in DOMAIN all : all[i].seq <= plan.head.seq}
           n == Cardinality(some)
           log == PlannedLedger(st, plan)
<1>1. IsLedger(all)
  BY LogIsLedger
<1>2. n \in 0..Len(all)
  <2>1. Len(all) \in Nat /\ DOMAIN all = 1..Len(all)
    BY <1>1 DEF IsLedger
  <2>2. IsFiniteSet(1..Len(all)) /\ Cardinality(1..Len(all)) = Len(all)
    <3>1. 1 \in Int /\ Len(all) \in Int
      BY <2>1
    <3>2. IsFiniteSet(1..Len(all)) /\ Cardinality(1..Len(all)) = IF 1 > Len(all) THEN 0 ELSE Len(all) - 1 + 1
      BY <3>1, FS_Interval
    <3> QED
      BY <2>1, <3>2
  <2>3. some \subseteq 1..Len(all)
    BY <2>1
  <2> HIDE DEF some
  <2>4. IsFiniteSet(some) /\ Cardinality(some) <= Cardinality(1..Len(all))
    BY <2>2, <2>3, FS_Subset
  <2>5. Cardinality(some) \in Nat
    BY <2>4, FS_CardinalityType
  <2> QED
    BY <2>1, <2>2, <2>4, <2>5
<1>3. log = SubSeq(all, 1, n) /\ HeadOf(log) = plan.head
  BY DEF PlannedLedger, LedgerMatches
<1> HIDE DEF all, n, log
<1>4. Len(log) = n /\ IsLedger(log)
  BY <1>1, <1>2, <1>3, Prefix
<1>5. plan.head.seq = n
  BY <1>3, <1>4, HeadSeq DEF IsLedger
<1> QED
  BY <1>3, <1>5 DEF PlannedEvents, all, log

\* A ledger that grew changes nothing of what was planned, and what is sealed is as
\* genuine.
LEMMA GrowthExports ==
  ASSUME NEW st, IsStore(st), NEW new, Grew(st, new), NEW plan, PlanFits(st, plan), Exportable(st, plan)
  PROVE  Exportable(new, plan)
<1> DEFINE L == EventLog(st, plan.run)
           M == EventLog(new, plan.run)
           n == plan.head.seq
<1>1. IsLedger(L) /\ n \in 0..Len(L)
  BY LogIsLedger DEF PlanFits
<1>2. M = L \/ \E e : M = Append(L, e)
  BY DEF Grew
<1> HIDE DEF L, M, n
<1>3. SubSeq(M, 1, n) = SubSeq(L, 1, n)
  BY <1>1, <1>2, LedgerGrows
<1>4. PlannedEvents(new, plan) = PlannedEvents(st, plan)
  BY <1>3 DEF PlannedEvents, L, M, n
<1>5. new.records = st.records
  BY DEF Grew
<1> QED
  BY <1>4, <1>5 DEF Exportable
LEMMA SealGenuine ==
  ASSUME NEW st, IsStore(st), Genuine(st), NEW run, NEW body, BodyContent[body].text # "marker",
         NEW new, new = SealedIn(st, run, body)
  PROVE  Genuine(new)
<1> DEFINE log == EventLog(st, run)
           e == [run |-> run, seq |-> Len(log) + 1, body |-> body, text |-> BodyContent[body].text,
                 prev |-> HeadOf(log).hash, hash |-> Append(HeadOf(log).hash, body)]
           L == Append(log, e)
<1>1. DOMAIN st = {"dirs", "records", "ledgers", "refs", "blobs", "objects"}
  BY DEF IsStore, EmptyStore
<1>2. Seal(run, log, body) = L
  BY DEF Seal
<1>3. e.text # "marker"
  OBVIOUS
<1>4. IsLedger(log)
  BY LogIsLedger
<1>5. \A i \in DOMAIN log : log[i].text # "marker"
  BY DEF Genuine, EventLog
<1> HIDE DEF e
<1>6. new = [st EXCEPT !.ledgers = With(@, run, L)]
  BY <1>2 DEF SealedIn
<1> HIDE DEF log
<1>7. \A i \in DOMAIN L : (i \in DOMAIN log /\ L[i] = log[i]) \/ L[i] = e
  <2> DEFINE S == ToSet(log) \cup {e}
  <2>1. log \in Seq(S) /\ e \in S
    BY <1>4 DEF IsLedger
  <2> HIDE DEF S
  <2> QED
    BY <2>1
<1> HIDE DEF L
<1>8. new.ledgers = With(st.ledgers, run, L)
  BY <1>1, <1>6
<1>9. new.refs = st.refs /\ new.blobs = st.blobs /\ new.objects = st.objects
  BY <1>1, <1>6
<1>10. \A r \in DOMAIN new.ledgers : (r \in DOMAIN st.ledgers /\ new.ledgers[r] = st.ledgers[r]) \/ new.ledgers[r] = L
  BY <1>8 DEF With
<1>11. \A i \in DOMAIN L : L[i].text # "marker"
  BY <1>3, <1>5, <1>7
<1>12. \A r \in DOMAIN new.ledgers : \A i \in DOMAIN new.ledgers[r] : new.ledgers[r][i].text # "marker"
  <2> TAKE r \in DOMAIN new.ledgers
  <2>1. CASE r \in DOMAIN st.ledgers /\ new.ledgers[r] = st.ledgers[r]
    BY <2>1 DEF Genuine
  <2> QED
    BY <1>10, <1>11, <2>1
<1> QED
  BY <1>9, <1>12 DEF Genuine

\* The verdict on a bundle of one run that lists what it holds.
Verdict(bundle, st, run) ==
  IF \/ \E b \in DOMAIN bundle.blobs : ~HashesTo(bundle.blobs[b], b, BlobContent)
     \/ \E o \in DOMAIN bundle.objects : ~HashesTo(bundle.objects[o], o, ObjectContent)
  THEN "ERR_TAMPERED"
  ELSE IF RunError(bundle, st, run) # "ok" THEN RunError(bundle, st, run)
  ELSE IF bundle.manifest.checkpoints
            # {[run |-> c.run, id |-> c.id] : c \in CheckpointsFromLedger(bundle.ledgers[run])}
  THEN "ERR_INVALID_BUNDLE"
  ELSE GraphError(bundle, st)
LEMMA VerdictOfOne ==
  ASSUME NEW bundle, NEW run, NEW st,
         bundle.manifest.runs = <<run>>, bundle.foreign = FALSE,
         DOMAIN bundle.blobs = bundle.manifest.blobs, bundle.refs = bundle.manifest.refs,
         DOMAIN bundle.records \subseteq {run}, DOMAIN bundle.ledgers \subseteq {run},
         \A r \in bundle.refs : r.run = run
  PROVE  Verify(bundle, st) = Verdict(bundle, st, run)
<1> DEFINE manifest == bundle.manifest
           mentioned == DOMAIN bundle.records \cup DOMAIN bundle.ledgers \cup {r.run : r \in bundle.refs}
           bad == {i \in DOMAIN manifest.runs : RunError(bundle, st, manifest.runs[i]) # "ok"}
           declared == UNION {CheckpointsFromLedger(bundle.ledgers[r]) : r \in ToSet(manifest.runs)}
           blobs == \E b \in DOMAIN bundle.blobs : ~HashesTo(bundle.blobs[b], b, BlobContent)
           objects == \E o \in DOMAIN bundle.objects : ~HashesTo(bundle.objects[o], o, ObjectContent)
<1>1. DOMAIN manifest.runs = {1} /\ manifest.runs[1] = run
  OBVIOUS
<1>2. ToSet(manifest.runs) = {run}
  BY <1>1 DEF ToSet
<1>3. Distinct(manifest.runs)
  BY <1>1 DEF Distinct
<1>4. mentioned \subseteq {run}
  OBVIOUS
<1>5. declared = CheckpointsFromLedger(bundle.ledgers[run])
  BY <1>2
<1>6. bad = IF RunError(bundle, st, run) # "ok" THEN {1} ELSE {}
  BY <1>1
<1>7. Min({1}) = 1
  BY LeastOf
<1>8. bad # {} <=> RunError(bundle, st, run) # "ok"
  BY <1>6
<1>9. bad # {} => RunError(bundle, st, manifest.runs[Min(bad)]) = RunError(bundle, st, run)
  BY <1>1, <1>6, <1>7
<1>10. Verify(bundle, st) =
         IF bundle.foreign \/ ToSet(manifest.runs) = {} \/ ~Distinct(manifest.runs) THEN "ERR_INVALID_BUNDLE"
         ELSE IF blobs THEN "ERR_TAMPERED"
         ELSE IF DOMAIN bundle.blobs # manifest.blobs THEN "ERR_INVALID_BUNDLE"
         ELSE IF objects THEN "ERR_TAMPERED"
         ELSE IF bundle.refs # manifest.refs THEN "ERR_INVALID_BUNDLE"
         ELSE IF ~(mentioned \subseteq ToSet(manifest.runs)) THEN "ERR_INVALID_BUNDLE"
         ELSE IF bad # {} THEN RunError(bundle, st, manifest.runs[Min(bad)])
         ELSE IF manifest.checkpoints # {[run |-> c.run, id |-> c.id] : c \in declared} THEN "ERR_INVALID_BUNDLE"
         ELSE GraphError(bundle, st)
  BY DEF Verify
<1> HIDE DEF bad, mentioned, declared, blobs, objects
<1>11. Verify(bundle, st) =
         IF blobs \/ objects THEN "ERR_TAMPERED"
         ELSE IF RunError(bundle, st, run) # "ok" THEN RunError(bundle, st, run)
         ELSE IF manifest.checkpoints # {[run |-> c.run, id |-> c.id] : c \in declared} THEN "ERR_INVALID_BUNDLE"
         ELSE GraphError(bundle, st)
  BY <1>2, <1>3, <1>4, <1>8, <1>9, <1>10
<1> QED
  BY <1>5, <1>11 DEF blobs, objects, Verdict

\* With its ledger, and no marker in it, a bundle of a plan verifies, lacks a ref or
\* holds the state of another checkpoint.
LEMMA WholeVerdict ==
  ASSUME NEW plan, NEW events, IsLedger(events), Holds(plan, events), plan.ledger,
         NEW bundle,
         bundle.manifest.runs = <<plan.run>>, bundle.manifest.checkpoints = plan.checkpoints,
         plan.run \in DOMAIN bundle.records, bundle.records[plan.run] # "malformed",
         plan.run \in DOMAIN bundle.ledgers, bundle.ledgers[plan.run] = events,
         DOMAIN bundle.blobs = plan.blobs, DOMAIN bundle.objects = plan.objects, bundle.refs = plan.refs
  PROVE  LET declared == CheckpointsFromLedger(events)
             error == RunError(bundle, EmptyStore, plan.run)
         IN  \/ error = "ERR_INCOMPLETE" /\ \E c \in declared : RefOf(c) \notin bundle.refs
             \/ error = "ERR_TAMPERED" /\ \E c \in declared : RefOf(c) \in bundle.refs /\ ~MatchesState(c)
             \/ /\ error = "ok" /\ \A c \in declared : RefOf(c) \in bundle.refs /\ MatchesState(c)
                /\ plan.checkpoints = {[run |-> c.run, id |-> c.id] : c \in declared}
                /\ GraphError(bundle, EmptyStore) = "ok"
<1> DEFINE run == plan.run
           declared == CheckpointsFromLedger(events)
<1>1. /\ ChainHolds(run, events) /\ PayloadsOf(events) \subseteq plan.blobs
      /\ Available(bundle, EmptyStore) = plan.blobs
  BY DEF Holds, Available, EmptyStore
<1>2. PICK cs \in SUBSET declared :
        /\ plan.checkpoints = {[run |-> c.run, id |-> c.id] : c \in cs}
        /\ \A c \in cs : c.state \in plan.blobs
        /\ plan.refs = {} \/ plan.refs = {RefOf(c) : c \in cs}
  BY DEF Holds
<1>3. \A c \in declared : c.run = run
  BY <1>1, CheckpointsOfRun
<1>4. \A c, d \in declared : c.id = d.id => c = d
  BY DeclaredOnce
<1>5. IsFiniteSet(declared)
  BY DeclaredOnce
<1>6. \A c : RefOf(c).run = c.run /\ RefOf(c).id = c.id
  BY DEF RefOf
<1> HIDE DEF declared
<1>7. ASSUME NEW c \in declared, NEW r \in bundle.refs, r.run = c.run, r.id = c.id
      PROVE  c \in cs /\ r = RefOf(c) /\ bundle.refs = {RefOf(d) : d \in cs}
  <2>1. plan.refs = {RefOf(d) : d \in cs}
    BY <1>2, <1>7
  <2>2. PICK d \in cs : r = RefOf(d)
    BY <1>7, <2>1
  <2>3. d.id = c.id
    BY <1>6, <1>7, <2>2
  <2>4. d = c
    BY <1>4, <1>7, <2>3
  <2> QED
    BY <2>1, <2>2, <2>4
<1> DEFINE Error(c) == CheckpointError(bundle, EmptyStore, c)
           error == RunError(bundle, EmptyStore, run)
<1>8. \A c \in declared :
        Error(c) = IF RefOf(c) \notin bundle.refs THEN "ERR_INCOMPLETE"
                   ELSE IF ~MatchesState(c) THEN "ERR_TAMPERED" ELSE "ok"
  <2> TAKE c \in declared
  <2>1. CASE RefOf(c) \notin bundle.refs
    <3>1. BundledRefs(bundle, c) = {}
      BY <1>7, <2>1 DEF BundledRefs
    <3> QED
      BY <2>1, <3>1 DEF CheckpointError
  <2>2. CASE RefOf(c) \in bundle.refs
    <3>1. BundledRefs(bundle, c) # {} /\ c \in cs
      BY <1>6, <1>7, <2>2 DEF BundledRefs
    <3>2. c.state \in DOMAIN bundle.blobs /\ c.state \in Available(bundle, EmptyStore)
      BY <1>1, <1>2, <3>1
    <3> QED
      BY <2>2, <3>1, <3>2 DEF CheckpointError
  <2> QED
    BY <2>1, <2>2
<1>10. \/ \E c \in declared : Error(c) # "ok" /\ error = Error(c)
       \/ /\ \A c \in declared : Error(c) = "ok"
          /\ error = IF Cardinality(RefsOfRun(bundle.refs, run)) # Cardinality(declared)
                     THEN "ERR_INVALID_BUNDLE" ELSE "ok"
  <2>1. bundle.ledgers[run] = events
    OBVIOUS
  <2> QED
    BY <1>1, <2>1, CheckpointsVerdict DEF declared
<1> HIDE DEF Error, error
<1>11. CASE \E c \in declared : Error(c) # "ok" /\ error = Error(c)
  <2>1. PICK c \in declared : Error(c) # "ok" /\ error = Error(c)
    BY <1>11
  <2>2. \/ error = "ERR_INCOMPLETE" /\ RefOf(c) \notin bundle.refs
        \/ error = "ERR_TAMPERED" /\ RefOf(c) \in bundle.refs /\ ~MatchesState(c)
    BY <1>8, <2>1
  <2> QED
    BY <2>2 DEF declared, error
<1>12. \A c \in declared : Error(c) = "ok" => RefOf(c) \in bundle.refs /\ MatchesState(c)
  BY <1>8
<1>9. CASE /\ \A c \in declared : Error(c) = "ok"
           /\ error = IF Cardinality(RefsOfRun(bundle.refs, run)) # Cardinality(declared)
                      THEN "ERR_INVALID_BUNDLE" ELSE "ok"
  <2>1. \A c \in declared : c \in cs
    BY <1>6, <1>7, <1>9, <1>12
  <2>2. cs = declared
    BY <2>1
  <2>3. bundle.refs = {RefOf(c) : c \in declared}
    <3>1. CASE declared = {}
      BY <1>2, <2>2, <3>1
    <3>2. CASE declared # {}
      <4>1. PICK c \in declared : TRUE
        BY <3>2
      <4> QED
        BY <1>6, <1>7, <1>9, <1>12, <2>2, <4>1
    <3> QED
      BY <3>1, <3>2
  <2>5. RefsOfRun(bundle.refs, run) = {RefOf(c) : c \in declared}
    BY <1>3, <1>6, <2>3 DEF RefsOfRun
  <2>6. Cardinality(RefsOfRun(bundle.refs, run)) = Cardinality(declared)
    <3> DEFINE f == [c \in declared |-> RefOf(c)]
               T == {RefOf(c) : c \in declared}
    <3>1. f \in [declared -> T] /\ \A c, d \in declared : f[c] = f[d] => c = d
      BY <1>4, <1>6
    <3>2. \A ref \in T : \E c \in declared : f[c] = ref
      OBVIOUS
    <3> HIDE DEF f, T
    <3>3. f \in Bijection(declared, T)
      BY <3>1, <3>2 DEF Bijection, Injection, Surjection, IsInjective
    <3>4. ExistsBijection(declared, T)
      BY <3>3 DEF ExistsBijection
    <3>5. Cardinality(T) = Cardinality(declared)
      BY <1>5, <3>4, FS_Bijection
    <3> QED
      BY <2>5, <3>5 DEF T
  <2>7. error = "ok"
    BY <1>9, <2>6
  <2>8. plan.checkpoints = {[run |-> c.run, id |-> c.id] : c \in declared}
    BY <1>2, <2>2
  <2>9. GraphError(bundle, EmptyStore) = "ok"
    <3>1. RunWalk(bundle, run) = Walk(plan.objects, CommitRefs({r.sha : r \in plan.refs}))
      <4>1. RefsOfRun(bundle.refs, run) = plan.refs
        BY <2>3, <2>5
      <4> QED
        BY <4>1 DEF RunWalk
    <3>2. \A ref \in RunWalk(bundle, run) : ref.sha \in DOMAIN bundle.objects /\ ObjectContent[ref.sha].type = ref.type
      BY <3>1 DEF Holds
    <3>3. UNION {RunWalk(bundle, r) : r \in ToSet(bundle.manifest.runs)} = RunWalk(bundle, run)
      <4>1. ToSet(bundle.manifest.runs) = {run}
        BY DEF ToSet
      <4> QED
        BY <4>1
    <3> QED
      BY <3>2, <3>3 DEF GraphError
  <2> QED
    BY <1>9, <1>12, <2>7, <2>8, <2>9 DEF declared, error
<1> QED
  BY <1>9, <1>10, <1>11

\* What is written makes the trip.
LEMMA WrittenTrips ==
  ASSUME NEW st, IsStore(st), HoldsEvents(st), NEW plan, PlanFits(st, plan), Exportable(st, plan),
         plan.ledger => LedgerMatches(st, plan)
  PROVE  Trips(WrittenBundle(st, plan))
<1> DEFINE run == plan.run
           events == PlannedEvents(st, plan)
           log == PlannedLedger(st, plan)
           Line(i) == [log[i] EXCEPT !.text = Content(plan, i \in plan.hits.lines, @)]
           bundle == WrittenBundle(st, plan)
           L == bundle.ledgers[run]
           verdict == Verify(bundle, EmptyStore)
           error == RunError(bundle, EmptyStore, run)
           redacted == "marker" \in Texts(bundle)
           incomplete == Incomplete(bundle)
           stale == Stale(bundle)
<1>1. /\ IsLedger(events) /\ \A i \in DOMAIN events : IsEvent(events[i])
  <2> DEFINE all == EventLog(st, run)
             k == plan.head.seq
  <2>1. IsLedger(all) /\ k \in 0..Len(all)
    BY LogIsLedger DEF PlanFits
  <2>2. \A i \in DOMAIN all : IsEvent(all[i])
    BY DEF HoldsEvents, EventLog
  <2>3. events = SubSeq(all, 1, k)
    BY DEF PlannedEvents
  <2> HIDE DEF all, k, events
  <2>4. /\ IsLedger(events) /\ DOMAIN events = 1..k /\ DOMAIN all = 1..Len(all) /\ Len(all) \in Nat
        /\ \A i \in 1..k : events[i] = all[i]
    BY <2>1, <2>3, Prefix
  <2>5. \A i \in 1..k : i \in DOMAIN all
    BY <2>1, <2>4
  <2> QED
    BY <2>2, <2>4, <2>5
<1>2. plan.ledger => log = events
  BY PlannedOf
<1>3. /\ bundle.manifest.runs = <<run>> /\ bundle.manifest.checkpoints = plan.checkpoints
      /\ bundle.manifest.blobs = plan.blobs /\ bundle.manifest.refs = plan.refs
      /\ bundle.foreign = FALSE /\ bundle.refs = plan.refs
      /\ DOMAIN bundle.records = {run}
      /\ bundle.records[run] = Content(plan, plan.hits.record, st.records[run])
      /\ DOMAIN bundle.ledgers = IF plan.ledger THEN {run} ELSE {}
      /\ plan.ledger => L = [i \in DOMAIN log |-> Line(i)]
      /\ DOMAIN bundle.blobs = plan.blobs /\ DOMAIN bundle.objects = plan.objects
      /\ \A b \in plan.blobs :
           bundle.blobs[b] = [of |-> b, text |-> Content(plan, b \in plan.hits.shas, BlobContent[b].text)]
      /\ \A o \in plan.objects :
           bundle.objects[o] = [of |-> o, text |-> Content(plan, o \in plan.hits.shas, ObjectContent[o].text)]
  BY DEF WrittenBundle
<1> SUFFICES Trips(bundle)
  OBVIOUS
<1> HIDE DEF bundle, events, log
<1>4. Holds(plan, events) /\ st.records[run] # "malformed"
  BY DEF Exportable, events
<1>5. bundle.records[run] # "malformed"
  BY <1>3, <1>4 DEF Content, Redacted
<1>6. /\ \A b \in plan.blobs : HashesTo(bundle.blobs[b], b, BlobContent) <=> bundle.blobs[b].text # "marker"
      /\ \A o \in plan.objects : HashesTo(bundle.objects[o], o, ObjectContent) <=> bundle.objects[o].text # "marker"
  <2>1. ASSUME NEW b \in plan.blobs
        PROVE  HashesTo(bundle.blobs[b], b, BlobContent) <=> bundle.blobs[b].text # "marker"
    <3>1. BlobContent[b].text # "marker"
      BY <1>4 DEF Holds
    <3> DEFINE text == Content(plan, b \in plan.hits.shas, BlobContent[b].text)
    <3>2. bundle.blobs[b] = [of |-> b, text |-> text]
      BY <1>3, Zenon
    <3>3. text = BlobContent[b].text <=> text # "marker"
      BY <3>1, PlannedBytes
    <3> HIDE DEF text
    <3> QED
      BY <3>2, <3>3 DEF HashesTo
  <2>2. ASSUME NEW o \in plan.objects
        PROVE  HashesTo(bundle.objects[o], o, ObjectContent) <=> bundle.objects[o].text # "marker"
    <3>1. ObjectContent[o].text # "marker"
      BY <1>4 DEF Holds
    <3> DEFINE text == Content(plan, o \in plan.hits.shas, ObjectContent[o].text)
    <3>2. bundle.objects[o] = [of |-> o, text |-> text]
      BY <1>3, Zenon
    <3>3. text = ObjectContent[o].text <=> text # "marker"
      BY <3>1, PlannedBytes
    <3> HIDE DEF text
    <3> QED
      BY <3>2, <3>3 DEF HashesTo
  <2> QED
    BY <2>1, <2>2
<1>7. plan.ledger =>
        /\ DOMAIN L = DOMAIN events
        /\ \A i \in DOMAIN events :
             /\ L[i].body = events[i].body
             /\ L[i].text = events[i].text \/ L[i].text = "marker"
             /\ L[i].text # "marker" => L[i] = events[i]
             /\ events[i].text # "marker"
  <2> SUFFICES ASSUME plan.ledger, NEW i \in DOMAIN events
               PROVE  /\ DOMAIN L = DOMAIN events
                      /\ L[i].body = events[i].body
                      /\ L[i].text = events[i].text \/ L[i].text = "marker"
                      /\ L[i].text # "marker" => L[i] = events[i]
                      /\ events[i].text # "marker"
    BY <1>2, <1>3
  <2>1. events[i].text # "marker"
    BY <1>4 DEF Holds
  <2>2. DOMAIN L = DOMAIN events /\ L[i] = [events[i] EXCEPT !.text = Content(plan, i \in plan.hits.lines, @)]
    BY <1>2, <1>3
  <2> DEFINE e == events[i]
             text == Content(plan, i \in plan.hits.lines, e.text)
  <2>3. e = [run |-> e.run, seq |-> e.seq, body |-> e.body, text |-> e.text, prev |-> e.prev, hash |-> e.hash]
    BY <1>1 DEF IsEvent
  <2> HIDE DEF e, text
  <2>4. L[i] = [e EXCEPT !.text = text] /\ text = Content(plan, i \in plan.hits.lines, e.text)
    BY <2>2 DEF e, text
  <2>5. text = e.text \/ text = "marker"
    BY <2>1, <2>4, PlannedBytes DEF e
  <2>6. L[i].body = e.body /\ L[i].text = text /\ (text = e.text => L[i] = e)
    BY <2>3, <2>4
  <2> QED
    BY <2>1, <2>2, <2>5, <2>6 DEF e
<1> HIDE DEF L
<1>8. "marker" \in Texts(bundle) <=>
        \/ \E b \in plan.blobs : bundle.blobs[b].text = "marker"
        \/ \E o \in plan.objects : bundle.objects[o].text = "marker"
        \/ plan.ledger /\ \E i \in DOMAIN L : L[i].text = "marker"
  BY <1>3 DEF Texts, ToSet, L
<1>9. \A r \in bundle.refs : r.run = run
  <2>1. \A c \in CheckpointsFromLedger(events) : c.run = run
    BY <1>4, CheckpointsOfRun DEF Holds
  <2>2. \A r \in plan.refs : \E c \in CheckpointsFromLedger(events) : r = RefOf(c)
    BY <1>4 DEF Holds
  <2> QED
    BY <1>3, <2>1, <2>2 DEF RefOf
<1>10. verdict = IF (\E b \in plan.blobs : bundle.blobs[b].text = "marker")
                    \/ (\E o \in plan.objects : bundle.objects[o].text = "marker")
                 THEN "ERR_TAMPERED"
                 ELSE IF error # "ok" THEN error
                 ELSE IF plan.checkpoints # {[run |-> c.run, id |-> c.id] : c \in CheckpointsFromLedger(L)}
                 THEN "ERR_INVALID_BUNDLE"
                 ELSE GraphError(bundle, EmptyStore)
  <2>1. verdict = Verdict(bundle, EmptyStore, run)
    <3>1. /\ bundle.manifest.runs = <<run>> /\ bundle.foreign = FALSE
          /\ DOMAIN bundle.blobs = bundle.manifest.blobs /\ bundle.refs = bundle.manifest.refs
          /\ DOMAIN bundle.records \subseteq {run} /\ DOMAIN bundle.ledgers \subseteq {run}
      BY <1>3
    <3> QED
      BY <1>9, <3>1, VerdictOfOne
  <2> QED
    BY <1>3, <1>6, <2>1 DEF L, Verdict
<1>11. /\ redacted /\ verdict = "ERR_TAMPERED" => Trips(bundle)
       /\ ~redacted /\ incomplete /\ verdict = "ERR_INCOMPLETE" => Trips(bundle)
       /\ ~redacted /\ stale /\ verdict = "ERR_TAMPERED" => Trips(bundle)
       /\ ~redacted /\ ~incomplete /\ ~stale /\ verdict = "ok" => Trips(bundle)
  BY DEF Trips
<1> HIDE DEF verdict
<1>12. /\ incomplete <=> ~plan.ledger \/ \E c \in CheckpointsFromLedger(L) : RefOf(c) \notin bundle.refs
       /\ stale <=> plan.ledger /\ \E c \in CheckpointsFromLedger(L) : RefOf(c) \in bundle.refs /\ ~MatchesState(c)
  BY <1>3 DEF L, Incomplete, Stale
<1> HIDE DEF incomplete, stale
<1>13. CASE redacted
  <2>1. CASE (\E b \in plan.blobs : bundle.blobs[b].text = "marker")
             \/ (\E o \in plan.objects : bundle.objects[o].text = "marker")
    BY <1>10, <1>13, <1>11, <2>1
  <2>2. CASE plan.ledger /\ \E i \in DOMAIN L : L[i].text = "marker"
    <3>1. PICK i \in DOMAIN L : L[i].text = "marker"
      BY <2>2
    <3>2. events[i].text = BodyContent[events[i].body].text
      BY <1>4, <1>7, <2>2 DEF Holds, ChainHolds
    <3>3. L[i].text # BodyContent[L[i].body].text
      BY <1>7, <2>2, <3>1, <3>2
    <3>4. ~ChainHolds(run, L)
      BY <3>3 DEF ChainHolds
    <3>5. error = "ERR_TAMPERED"
      BY <1>3, <1>5, <2>2, <3>4 DEF RunError, L
    <3>6. verdict = "ERR_TAMPERED"
      BY <1>10, <3>5
    <3> QED
      BY <1>13, <1>11, <3>6
  <2> QED
    BY <1>8, <1>13, <2>1, <2>2
<1>14. CASE ~redacted
  <2>1. verdict = IF error # "ok" THEN error
                  ELSE IF plan.checkpoints # {[run |-> c.run, id |-> c.id] : c \in CheckpointsFromLedger(L)}
                  THEN "ERR_INVALID_BUNDLE"
                  ELSE GraphError(bundle, EmptyStore)
    BY <1>8, <1>10, <1>14
  <2>2. CASE ~plan.ledger
    <3>1. error = "ERR_INCOMPLETE"
      BY <1>3, <2>2 DEF RunError
    <3> QED
      BY <1>12, <1>14, <1>11, <2>1, <2>2, <3>1
  <2>3. CASE plan.ledger
    <3>1. L = events
      <4>1. \A i \in DOMAIN events : L[i] = events[i]
        BY <1>7, <1>8, <1>14, <2>3
      <4>2. L = [i \in DOMAIN events |-> L[i]]
        BY <1>2, <1>3, <2>3 DEF L
      <4>3. events = [i \in DOMAIN events |-> events[i]]
        BY <1>1 DEF IsLedger
      <4> QED
        BY <4>1, <4>2, <4>3
    <3> DEFINE declared == CheckpointsFromLedger(events)
    <3>2. \/ error = "ERR_INCOMPLETE" /\ \E c \in declared : RefOf(c) \notin bundle.refs
          \/ error = "ERR_TAMPERED" /\ \E c \in declared : RefOf(c) \in bundle.refs /\ ~MatchesState(c)
          \/ /\ error = "ok" /\ \A c \in declared : RefOf(c) \in bundle.refs /\ MatchesState(c)
             /\ plan.checkpoints = {[run |-> c.run, id |-> c.id] : c \in declared}
             /\ GraphError(bundle, EmptyStore) = "ok"
      BY <1>1, <1>3, <1>4, <1>5, <2>3, <3>1, WholeVerdict DEF L
    <3>3. \/ verdict = "ERR_INCOMPLETE" /\ incomplete
          \/ verdict = "ERR_TAMPERED" /\ stale
          \/ verdict = "ok" /\ ~incomplete /\ ~stale
      BY <1>12, <2>1, <2>3, <3>1, <3>2
    <3> QED
      BY <1>14, <1>11, <3>3
  <2> QED
    BY <2>2, <2>3
<1> QED
  BY <1>13, <1>14

\* A step of an export, by what it leaves: s is at `step` with the locals j.
LEMMA ExportTrips ==
  ASSUME Typed, SafeInv, TripInv, NEW s \in Services, NEW step \in PcSteps, NEW j,
         Goto(s, step, j) \/ (Go(s, step) /\ UNCHANGED job /\ j = job[s]),
         source' = source \/ Grew(source, source'), Genuine(source'),
         step \in {"confirm", "declare", "create", "fill"} => Exportable(source', j.plan),
         step = "link" => Trips(j.draft),
         file' = file \/ Trips(file')
  PROVE  TripInv'
<1>1. pc'[s] = step /\ job'[s] = j /\ \A t \in Services \ {s} : pc'[t] = pc[t] /\ job'[t] = job[t]
  BY DEF Typed, Goto, Go
<1>2. ASSUME NEW t \in Services
      PROVE  /\ pc'[t] \in {"confirm", "declare", "create", "fill"} => Exportable(source', job'[t].plan)
             /\ pc'[t] = "link" => Trips(job'[t].draft)
  <2>1. CASE t = s
    BY <1>1, <2>1
  <2>2. CASE t # s
    <3>1. pc[t] \in {"confirm", "declare", "create", "fill"} =>
            Exportable(source, job[t].plan) /\ PlanFits(source, job[t].plan)
      BY DEF TripInv, SafeInv
    <3>2. pc[t] \in {"confirm", "declare", "create", "fill"} => Exportable(source', job[t].plan)
      BY <3>1, GrowthExports DEF Typed
    <3>3. pc[t] = "link" => Trips(job[t].draft)
      BY DEF TripInv
    <3> QED
      BY <1>1, <2>2, <3>2, <3>3
  <2> QED
    BY <2>1, <2>2
<1>3. file' # NoFile => Trips(file')
  BY DEF TripInv
<1> QED
  BY <1>2, <1>3 DEF TripInv

\* The steps of an export keep the invariant.
LEMMA ExportKeepsTrips ==
  ASSUME ImportInv, SafeInv, TripInv, NEW s \in Services, Export(s)
  PROVE  TripInv'
<1>1. /\ Typed /\ DOMAIN job[s] = JobFields /\ IsStore(source) /\ HoldsEvents(source) /\ Genuine(source)
      /\ {"idle"} \cup ExportSteps \subseteq PcSteps
  BY DEF ImportInv, Typed, SafeInv, TripInv, PcSteps
<1>2. ASSUME NEW result, End(s, result), source' = source \/ Grew(source, source'), Genuine(source'), file' = file
      PROVE  TripInv'
  <2>1. PICK j : Goto(s, "idle", j)
    BY <1>2 DEF End
  <2> QED
    BY <1>1, <1>2, <2>1, ExportTrips
<1>3. CASE Plan(s)
  <2>1. PICK target \in Targets, include \in Options :
          LET error == ExportError(source, target, include)
          IN  IF error = "ok"
              THEN Begin(s, "export", [NoJob EXCEPT !.plan = ExportPlan(source, target, include)], "confirm")
              ELSE Begin(s, "export", [NoJob EXCEPT !.result = error], "idle")
    BY <1>3 DEF Plan
  <2>2. source' = source /\ file' = file
    BY <1>3 DEF Plan
  <2> DEFINE plan == ExportPlan(source, target, include)
             j == [[NoJob EXCEPT !.plan = plan] EXCEPT !.kind = "export"]
             e == [[NoJob EXCEPT !.result = ExportError(source, target, include)] EXCEPT !.kind = "export"]
  <2>3. j.plan = plan
    BY DEF NoJob
  <2>4. \/ Goto(s, "confirm", j) /\ ExportError(source, target, include) = "ok"
        \/ Goto(s, "idle", e)
    BY <2>1 DEF Begin
  <2> HIDE DEF plan, j, e
  <2>5. CASE Goto(s, "confirm", j) /\ ExportError(source, target, include) = "ok"
    <3>1. Exportable(source, plan)
      BY <1>1, <2>5, PlanHolds DEF plan
    <3> QED
      BY <1>1, <2>2, <2>3, <2>5, <3>1, ExportTrips DEF ExportSteps
  <2>6. CASE Goto(s, "idle", e)
    BY <1>1, <2>2, <2>6, ExportTrips
  <2> QED
    BY <2>4, <2>5, <2>6
<1>4. CASE Answer(s)
  <2>1. source' = source /\ file' = file /\ Exportable(source, job[s].plan)
    BY <1>4 DEF Answer, TripInv
  <2>2. \/ (Go(s, "declare") \/ Go(s, "create")) /\ job' = job
        \/ End(s, "aborted")
    BY <1>4, Zenon DEF Answer
  <2>3. CASE Go(s, "declare") /\ job' = job
    BY <1>1, <2>1, <2>3, ExportTrips DEF ExportSteps
  <2>4. CASE Go(s, "create") /\ job' = job
    BY <1>1, <2>1, <2>4, ExportTrips DEF ExportSteps
  <2> QED
    BY <1>1, <1>2, <2>1, <2>2, <2>3, <2>4
<1>5. CASE Declare(s)
  <2> DEFINE run == job[s].plan.run
  <2>1. /\ file' = file /\ PlanFits(source, job[s].plan) /\ Exportable(source, job[s].plan)
        /\ (Go(s, "create") /\ job' = job) \/ End(s, "ERR_IO")
        /\ source' = [source EXCEPT !.ledgers = With(@, run, Seal(run, EventLog(source, run), UnsafeEvent))]
    BY <1>5 DEF Declare, SafeInv, TripInv
  <2>2. Grew(source, source') /\ Genuine(source')
    <3>1. source' = SealedIn(source, run, UnsafeEvent)
      BY <2>1 DEF SealedIn
    <3> HIDE DEF run
    <3>2. Genuine(source')
      BY <1>1, <3>1, SealGenuine, SourceAssumption
    <3> QED
      BY <1>1, <3>1, <3>2, SealGrows
  <2>3. Exportable(source', job[s].plan)
    BY <1>1, <2>1, <2>2, GrowthExports
  <2>4. CASE Go(s, "create") /\ job' = job
    BY <1>1, <2>1, <2>2, <2>3, <2>4, ExportTrips DEF ExportSteps
  <2> QED
    BY <1>2, <2>1, <2>2, <2>4
<1>6. CASE Create(s)
  <2> DEFINE j == [job[s] EXCEPT !.partial = TRUE]
  <2>1. source' = source /\ file' = file /\ Goto(s, "fill", j) /\ Exportable(source, job[s].plan)
    BY <1>6 DEF Create, TripInv
  <2>2. j.plan = job[s].plan
    BY <1>1 DEF JobFields
  <2> HIDE DEF j
  <2> QED
    BY <1>1, <2>1, <2>2, ExportTrips DEF ExportSteps
<1>7. CASE Fill(s)
  <2> DEFINE j == [job[s] EXCEPT !.draft = WrittenBundle(source, job[s].plan)]
  <2>1. source' = source /\ file' = file /\ PlanFits(source, job[s].plan) /\ Exportable(source, job[s].plan)
    BY <1>7 DEF Fill, SafeInv, TripInv
  <2>2. \/ Goto(s, "link", j) /\ (job[s].plan.ledger => LedgerMatches(source, job[s].plan))
        \/ End(s, "ERR_CORRUPT_STORE")
    BY <1>7 DEF Fill
  <2>3. j.draft = WrittenBundle(source, job[s].plan)
    BY <1>1 DEF JobFields
  <2> HIDE DEF j
  <2>4. CASE Goto(s, "link", j) /\ (job[s].plan.ledger => LedgerMatches(source, job[s].plan))
    <3>1. Trips(j.draft)
      BY <1>1, <2>1, <2>3, <2>4, WrittenTrips
    <3> QED
      BY <1>1, <2>1, <2>4, <3>1, ExportTrips DEF ExportSteps
  <2> QED
    BY <1>1, <1>2, <2>1, <2>2, <2>4
<1>8. CASE Link(s)
  <2> DEFINE j == [job[s] EXCEPT !.draft = NoFile]
  <2>1. source' = source /\ Trips(job[s].draft)
    BY <1>8 DEF Link, TripInv
  <2>2. \/ End(s, "ERR_OUTPUT_EXISTS") /\ file' = file
        \/ file' = job[s].draft /\ Goto(s, "finish", j)
    BY <1>8 DEF Link
  <2> HIDE DEF j
  <2>3. CASE file' = job[s].draft /\ Goto(s, "finish", j)
    BY <1>1, <2>1, <2>3, ExportTrips DEF ExportSteps
  <2> QED
    BY <1>1, <1>2, <2>1, <2>2, <2>3
<1>9. CASE DeclareFails(s) \/ CreateFails(s) \/ FillFails(s) \/ LinkFails(s) \/ Finish(s) \/ FinishFails(s)
  <2>1. source' = source /\ file' = file /\ \E result : End(s, result)
    BY <1>9, Zenon DEF DeclareFails, CreateFails, FillFails, LinkFails, Finish, FinishFails
  <2> QED
    BY <1>1, <1>2, <2>1
<1> QED
  BY <1>3, <1>4, <1>5, <1>6, <1>7, <1>8, <1>9 DEF Export

\* Nothing is written at first, and every step keeps the invariant.
LEMMA TripInit == Init => TripInv
<1> SUFFICES ASSUME Init PROVE TripInv
  OBVIOUS
<1>1. source \in Stores /\ file = NoFile /\ \A s \in Services : pc[s] = "idle"
  BY DEF Init
<1> QED
  BY <1>1, SourceAssumption DEF TripInv
LEMMA TripNext == ImportInv /\ SafeInv /\ TripInv /\ [Next]_vars => TripInv'
<1> SUFFICES ASSUME ImportInv, SafeInv, TripInv, [Next]_vars PROVE TripInv'
  OBVIOUS
<1>1. Typed
  BY DEF ImportInv
<1>2. CASE UNCHANGED vars
  <2>1. source' = source /\ file' = file /\ pc' = pc /\ job' = job
    BY <1>2 DEF vars
  <2> QED
    BY <2>1 DEF TripInv
<1>3. ASSUME NEW s \in Services, Progress(s) \/ Reindex(s) \/ Crash(s) PROVE TripInv'
  <2>1. CASE Export(s)
    BY <2>1, ExportKeepsTrips
  <2>2. CASE ~Export(s)
    <3>1. Elsewhere(s)
      BY <1>1, <1>3, <2>2, OtherCalls DEF Progress
    <3> QED
      BY <3>1 DEF TripInv, Elsewhere, ExportSteps
  <2> QED
    BY <2>1, <2>2
<1>4. CASE EngineAppends
  <2>1. file' = file /\ pc' = pc /\ job' = job
    BY <1>4 DEF EngineAppends
  <2>2. source' = source \/ (Grew(source, source') /\ Genuine(source'))
    <3>1. CASE source' = source
      BY <3>1
    <3>2. CASE SourceAppend
      <4>1. PICK r : source' = SealedIn(source, r, NewEvent)
        BY <3>2 DEF SourceAppend, SealedIn
      <4>2. IsStore(source) /\ HoldsEvents(source) /\ Genuine(source)
        BY <1>1 DEF Typed, SafeInv, TripInv
      <4>3. Genuine(source')
        BY <4>1, <4>2, SealGenuine, SourceAssumption
      <4> QED
        BY <4>1, <4>2, <4>3, SealGrows
    <3> QED
      BY <1>4, <3>1, <3>2 DEF EngineAppends
  <2>3. ASSUME NEW s \in Services, pc[s] \in {"confirm", "declare", "create", "fill"}
        PROVE  Exportable(source', job[s].plan)
    <3>1. Exportable(source, job[s].plan) /\ PlanFits(source, job[s].plan)
      BY <2>3 DEF TripInv, SafeInv
    <3> QED
      BY <1>1, <2>2, <3>1, GrowthExports DEF Typed
  <2> QED
    BY <2>1, <2>2, <2>3 DEF TripInv
<1> QED
  BY <1>2, <1>3, <1>4, Zenon DEF Next

\* An export and an import fit together: what was written verifies in a store that
\* has nothing, or is refused for what it lacks or what a redaction changed.
THEOREM RoundTrips == Spec => []RoundTrip
<1>1. TripInv => RoundTrip
  BY Zenon DEF TripInv, Trips, RoundTrip
<1>2. Spec => []ImportInv
  BY ImportInvariant
<1>3. Init => SafeInv /\ TripInv
  BY SafeInit, TripInit
<1>4. ImportInv /\ SafeInv /\ TripInv /\ [Next]_vars => (SafeInv /\ TripInv)'
  BY SafeNext, TripNext
<1> QED
  BY <1>1, <1>2, <1>3, <1>4, PTL DEF Spec
=============================================================================
