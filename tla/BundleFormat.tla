---------------------------- MODULE BundleFormat ----------------------------
(***************************************************************************)
(* What a bundle (src/bundle) holds, what an export puts into it, and what   *)
(* an import demands of it before it writes: the pure half of Bundle.        *)
(*                                                                           *)
(* A sha stands for the content it was computed from (BlobContent,           *)
(* ObjectContent), and an event's hash for the bodies up to it, so a check of *)
(* a hash is a comparison of contents.  Text is all that matters of wording:   *)
(* it is clean, holds something Redaction detects, or a marker in its place;  *)
(* a run record may also be malformed.                                       *)
(***************************************************************************)
EXTENDS Naturals, Sequences, FiniteSets, FiniteSetsExt, SequencesExt

CONSTANTS Runs,           \* run ids
          Blobs,          \* addresses of CAS blobs
          NoBlob,         \* an event without payload_ref
          BlobContent,    \* [Blobs -> [kind, text, links, state]]
          Bodies,         \* what an event says
          BodyContent,    \* [Bodies -> [type, text, links, payload, checkpoint]]
          Objects,        \* ids of git objects
          ObjectContent   \* [Objects -> [type, text, refs, excluded]]

ASSUME BundleAssumption ==
  /\ NoBlob \notin Blobs
  /\ DOMAIN BlobContent = Blobs
  /\ DOMAIN ObjectContent = Objects
  /\ DOMAIN BodyContent = Bodies

NoCheckpoint == [id |-> "none"]
NoState == [id |-> "none"]

Redacted(text) == IF text = "secret" THEN "marker" ELSE text

-----------------------------------------------------------------------------
(* Ledgers.  In a body, links are the {sha256, size} values inside an inline *)
(* payload, payload is the blob of an over-limit one, and checkpoint what    *)
(* checkpoint.created records.  An event also holds its text, as it is in    *)
(* the file.                                                                 *)

Genesis == <<>>
HeadOf(events) == IF events = <<>> THEN [seq |-> 0, hash |-> Genesis]
                  ELSE [seq |-> Len(events), hash |-> Last(events).hash]

Seal(run, events, body) ==
  Append(events, [run |-> run, seq |-> Len(events) + 1,
                  body |-> body, text |-> BodyContent[body].text,
                  prev |-> HeadOf(events).hash,
                  hash |-> Append(HeadOf(events).hash, body)])

\* verifyChain, and the checks of parseLedger on each line.
ChainHolds(run, events) ==
  \A i \in DOMAIN events :
    /\ events[i].run = run
    /\ events[i].seq = i
    /\ events[i].prev = HeadOf(SubSeq(events, 1, i - 1)).hash
    /\ events[i].hash = Append(events[i].prev, events[i].body)
    /\ events[i].text = BodyContent[events[i].body].text

\* checkpointsFromLedger: a valid record for the event's run and seq; the
\* first declaration of an id wins.
Declared(event) == BodyContent[event.body].checkpoint
DeclaredAt(events, i) ==
  /\ Declared(events[i]) # NoCheckpoint
  /\ Declared(events[i]).run = events[i].run
  /\ Declared(events[i]).seq = events[i].seq
CheckpointsFromLedger(events) ==
  {Declared(events[i]) : i \in
     {i \in DOMAIN events :
        /\ DeclaredAt(events, i)
        /\ \A j \in 1..(i - 1) :
             DeclaredAt(events, j)
               => Declared(events[j]).id # Declared(events[i]).id}}

RefOf(c) == [run |-> c.run, id |-> c.id, sha |-> c.commit]

-----------------------------------------------------------------------------
(* Stores.  [dirs, records, ledgers, refs, blobs, objects]: run directories, *)
(* run.json and events.jsonl by run, refs, CAS blobs and git objects.        *)

EmptyStore == [dirs |-> {}, records |-> <<>>, ledgers |-> <<>>, refs |-> {},
               blobs |-> {}, objects |-> {}]

Without(f, x) == [y \in DOMAIN f \ {x} |-> f[y]]
With(f, x, v) == [y \in DOMAIN f \cup {x} |-> IF y = x THEN v ELSE f[y]]

\* readEventLog: a missing file is an empty log.
EventLog(store, run) ==
  IF run \in DOMAIN store.ledgers THEN store.ledgers[run] ELSE <<>>

\* The checkpoints whose ref and state blob are there.
Durable(store, run) ==
  {c \in CheckpointsFromLedger(EventLog(store, run)) :
     RefOf(c) \in store.refs /\ c.state \in store.blobs}

\* Everything reachable from a set of references [sha, type], going on only
\* from objects of `known`: what no set without it has all that it leads to.
Leads(known, refs) == UNION {ObjectContent[sha].refs : sha \in known \cap {r.sha : r \in refs}}
Walk(known, roots) ==
  LET found == UNION {ObjectContent[sha].refs : sha \in known}
  IN  roots \cup {r \in found : \A more \in SUBSET (found \ {r}) :
                                 ~(Leads(known, roots \cup more) \subseteq more)}

CommitRefs(shas) == {[sha |-> s, type |-> "commit"] : s \in shas}
Closure(shas) == {r.sha : r \in Walk(Objects, CommitRefs(shas))}

-----------------------------------------------------------------------------
(* Export.  `target` is [run, checkpoint], checkpoint "all" for a whole run; *)
(* `include` is [workspace, ledger, artifacts, unsafe].                      *)

Chosen(store, target) ==
  {c \in Durable(store, target.run) : c.id = target.checkpoint}

\* The events and checkpoints of a target: all, or those up to a checkpoint.
Planned(store, target) ==
  LET log == EventLog(store, target.run)
      durable == Durable(store, target.run)
      cursor == (CHOOSE c \in Chosen(store, target) : TRUE).seq
  IN  IF target.checkpoint = "all"
      THEN [events |-> log, checkpoints |-> durable]
      ELSE [events |-> SubSeq(log, 1, cursor),
            checkpoints |-> {c \in durable : c.seq <= cursor}]

Said(events) == {BodyContent[e.body] : e \in ToSet(events)}
PayloadsOf(events) == {body.payload : body \in Said(events)} \ {NoBlob}

\* Mutant: over-limit payloads are taken for artifacts.
PlannedBlobsNoPayloads(store, plan, include) ==
  LET links == UNION ({BlobContent[b].links : b \in PayloadsOf(plan.events)}
                      \cup {body.links : body \in Said(plan.events)})
  IN  {c.state : c \in plan.checkpoints}
        \cup (IF include.artifacts THEN (links \cup PayloadsOf(plan.events)) \cap store.blobs ELSE {})

\* State blobs; the over-limit payloads if the ledger is included; and the
\* stored blobs that included payloads name, if artifacts are.  An inline
\* payload's links count even without the ledger.
PlannedBlobs(store, plan, include) ==
  LET payloads == IF include.ledger THEN PayloadsOf(plan.events) ELSE {}
      links == UNION ({BlobContent[b].links : b \in payloads}
                      \cup {body.links : body \in Said(plan.events)})
  IN  {c.state : c \in plan.checkpoints}
        \cup payloads
        \cup (IF include.artifacts THEN links \cap store.blobs ELSE {})

\* The state blob of a checkpoint says whose it is: what an export compares, and
\* what an import does.
NamesState(c) ==
  /\ BlobContent[c.state].kind = "state"
  /\ BlobContent[c.state].state.run = c.run /\ BlobContent[c.state].state.id = c.id
MatchesState(c) ==
  /\ BlobContent[c.state].kind = "state"
  /\ BlobContent[c.state].state = [run |-> c.run, id |-> c.id, commit |-> c.commit, seq |-> c.seq]

\* Why planExport throws, or "ok".
ExportError(store, target, include) ==
  LET plan == Planned(store, target)
      shas == Closure({c.commit : c \in plan.checkpoints})
  IN  IF target.run \notin DOMAIN store.records THEN "ERR_NOT_FOUND"
      ELSE IF store.records[target.run] = "malformed" THEN "ERR_CORRUPT_STORE"
      ELSE IF ~ChainHolds(target.run, EventLog(store, target.run)) THEN "ERR_CORRUPT_STORE"
      ELSE IF target.checkpoint # "all" /\ Chosen(store, target) = {} THEN "ERR_NOT_FOUND"
      ELSE IF \E c \in plan.checkpoints : ~NamesState(c) THEN "ERR_CORRUPT_STORE"
      ELSE IF ~(PayloadsOf(plan.events) \subseteq store.blobs) THEN "ERR_CORRUPT_STORE"
      ELSE IF include.workspace /\ ~(shas \subseteq store.objects) THEN "ERR_GIT"
      ELSE IF include.workspace /\ (\E s \in shas : ObjectContent[s].excluded)
           THEN "ERR_EXCLUDED_PATH"
      ELSE "ok"

\* planExport: what the bundle will hold, and the hits of the scan: in the
\* run record, in lines of the ledger, in blobs and in git blobs.
ExportPlan(store, target, include) ==
  LET plan == Planned(store, target)
      blobs == PlannedBlobs(store, plan, include)
      objects == IF include.workspace THEN Closure({c.commit : c \in plan.checkpoints}) ELSE {}
  IN  [run |-> target.run, unsafe |-> include.unsafe,
       head |-> HeadOf(plan.events), ledger |-> include.ledger,
       checkpoints |-> {[run |-> c.run, id |-> c.id] : c \in plan.checkpoints},
       blobs |-> blobs, objects |-> objects,
       refs |-> IF include.workspace THEN {RefOf(c) : c \in plan.checkpoints} ELSE {},
       hits |-> [record |-> store.records[target.run] = "secret",
                 lines |-> {i \in DOMAIN plan.events : plan.events[i].text = "secret"},
                 shas |-> {b \in blobs : BlobContent[b].text = "secret"}
                          \cup {o \in objects : ObjectContent[o].text = "secret"}]]

\* plannedLedgerBytes: the events up to the planned head, re-read; events are in
\* the order of their seq.
PlannedLedger(store, plan) ==
  LET log == EventLog(store, plan.run)
  IN  SubSeq(log, 1, Cardinality({i \in DOMAIN log : log[i].seq <= plan.head.seq}))

LedgerMatches(store, plan) == HeadOf(PlannedLedger(store, plan)) = plan.head

\* Bytes as planned: as they are if unsafe, else with the hits replaced.
Content(plan, hit, text) == IF plan.unsafe \/ ~hit THEN text ELSE Redacted(text)

\* The bundle that writePlannedBundle writes.
WrittenBundle(store, plan) ==
  LET log == PlannedLedger(store, plan)
      Line(i) == [log[i] EXCEPT !.text = Content(plan, i \in plan.hits.lines, @)]
  IN  [manifest |-> [runs |-> <<plan.run>>, checkpoints |-> plan.checkpoints,
                     blobs |-> plan.blobs, refs |-> plan.refs, unsafe |-> plan.unsafe],
       foreign |-> FALSE,
       records |-> [r \in {plan.run} |-> Content(plan, plan.hits.record, store.records[r])],
       ledgers |-> [r \in IF plan.ledger THEN {plan.run} ELSE {} |->
                      [i \in DOMAIN log |-> Line(i)]],
       blobs |-> [b \in plan.blobs |->
                    [of |-> b, text |-> Content(plan, b \in plan.hits.shas, BlobContent[b].text)]],
       objects |-> [o \in plan.objects |->
                      [of |-> o, text |-> Content(plan, o \in plan.hits.shas, ObjectContent[o].text)]],
       refs |-> plan.refs]

-----------------------------------------------------------------------------
(* Import.                                                                   *)

HashesTo(bytes, sha, content) == bytes.of = sha /\ bytes.text = content[sha].text

\* Blobs that the bundle or the store has.
Available(bundle, store) == DOMAIN bundle.blobs \cup store.blobs

RefsOfRun(refs, run) == {r \in refs : r.run = run}

\* A ref of the bundle for a checkpoint, wherever it points.
BundledRefs(bundle, c) == {r \in bundle.refs : r.run = c.run /\ r.id = c.id}

\* Why verifyBundle rejects a checkpoint that a ledger declares.
CheckpointError(bundle, store, c) ==
  IF BundledRefs(bundle, c) = {} THEN "ERR_INCOMPLETE"
  ELSE IF RefOf(c) \notin bundle.refs THEN "ERR_TAMPERED"
  ELSE IF c.state \in DOMAIN bundle.blobs /\ ~MatchesState(c) THEN "ERR_TAMPERED"
  ELSE IF c.state \notin Available(bundle, store) THEN "ERR_INCOMPLETE"
  ELSE "ok"

\* Why it rejects one run's record, ledger or checkpoints, of which the first bad
\* one tells.
RunError(bundle, store, run) ==
  LET events == bundle.ledgers[run]
      declared == CheckpointsFromLedger(events)
      bad == {c \in declared : CheckpointError(bundle, store, c) # "ok"}
  IN  IF run \notin DOMAIN bundle.records \/ run \notin DOMAIN bundle.ledgers THEN "ERR_INCOMPLETE"
      ELSE IF bundle.records[run] = "malformed" THEN "ERR_TAMPERED"
      ELSE IF ~ChainHolds(run, events) THEN "ERR_TAMPERED"
      ELSE IF ~(PayloadsOf(events) \subseteq Available(bundle, store)) THEN "ERR_INCOMPLETE"
      ELSE IF bad # {}
           THEN CheckpointError(bundle, store,
                                CHOOSE c \in bad : c.seq = Min({d.seq : d \in bad}))
      ELSE IF Cardinality(RefsOfRun(bundle.refs, run)) # Cardinality(declared)
           THEN "ERR_INVALID_BUNDLE"
      ELSE "ok"

\* The references that a run's refs reach through the objects of the bundle.
RunWalk(bundle, run) ==
  Walk(DOMAIN bundle.objects, CommitRefs({r.sha : r \in RefsOfRun(bundle.refs, run)}))

\* Mutant: objects are looked for, whatever their type.
GraphErrorUntyped(bundle, store) ==
  LET walk == UNION {RunWalk(bundle, r) : r \in ToSet(bundle.manifest.runs)}
  IN  IF ~({r.sha : r \in walk} \subseteq DOMAIN bundle.objects \cup store.objects)
      THEN "ERR_INCOMPLETE"
      ELSE "ok"

\* Why verifyBundle rejects the git objects behind the refs of the runs: each
\* has the type its referrer requires, and is in the bundle or repository.
GraphError(bundle, store) ==
  LET walk == UNION {RunWalk(bundle, r) : r \in ToSet(bundle.manifest.runs)}
      bundled == {r \in walk : r.sha \in DOMAIN bundle.objects}
      external == walk \ bundled
      WrongType(refs) == \E r \in refs : ObjectContent[r.sha].type # r.type
  IN  IF WrongType(bundled) THEN "ERR_INVALID_BUNDLE"
      ELSE IF ~({r.sha : r \in external} \subseteq store.objects) THEN "ERR_INCOMPLETE"
      ELSE IF WrongType(external) THEN "ERR_INVALID_BUNDLE"
      ELSE "ok"

\* A manifest lists a run once.
Distinct(runs) == \A i, j \in DOMAIN runs : runs[i] = runs[j] => i = j

\* verifyBundle: what it throws, in the order of its checks, or "ok".
Verify(bundle, store) ==
  LET manifest == bundle.manifest
      runs == ToSet(manifest.runs)
      mentioned == DOMAIN bundle.records \cup DOMAIN bundle.ledgers
                     \cup {r.run : r \in bundle.refs}
      bad == {i \in DOMAIN manifest.runs :
                RunError(bundle, store, manifest.runs[i]) # "ok"}
      declared == UNION {CheckpointsFromLedger(bundle.ledgers[r]) : r \in runs}
  IN  IF bundle.foreign \/ runs = {} \/ ~Distinct(manifest.runs) THEN "ERR_INVALID_BUNDLE"
      ELSE IF \E b \in DOMAIN bundle.blobs : ~HashesTo(bundle.blobs[b], b, BlobContent)
           THEN "ERR_TAMPERED"
      ELSE IF DOMAIN bundle.blobs # manifest.blobs THEN "ERR_INVALID_BUNDLE"
      ELSE IF \E o \in DOMAIN bundle.objects : ~HashesTo(bundle.objects[o], o, ObjectContent)
           THEN "ERR_TAMPERED"
      ELSE IF bundle.refs # manifest.refs THEN "ERR_INVALID_BUNDLE"
      ELSE IF ~(mentioned \subseteq runs) THEN "ERR_INVALID_BUNDLE"
      ELSE IF bad # {} THEN RunError(bundle, store, manifest.runs[Min(bad)])
      ELSE IF manifest.checkpoints # {[run |-> c.run, id |-> c.id] : c \in declared}
           THEN "ERR_INVALID_BUNDLE"
      ELSE GraphError(bundle, store)

\* The blobs and objects that a verified run uses; the rest of the bundle is
\* not imported.
RunBlobs(bundle, run) ==
  LET events == bundle.ledgers[run]
      payloads == PayloadsOf(events)
      bundled == payloads \cap DOMAIN bundle.blobs
      links == UNION ({BlobContent[b].links : b \in bundled}
                      \cup {body.links : body \in Said(events)})
  IN  (links \cup payloads \cup {c.state : c \in CheckpointsFromLedger(events)})
      \cap DOMAIN bundle.blobs
RunObjects(bundle, run) ==
  {r.sha : r \in RunWalk(bundle, run)} \cap DOMAIN bundle.objects

\* runsToWrite, by the positions in the manifest: a run that the store has nothing
\* of is written; one that it has with the same head is left alone; any other is
\* refused.
Absent(store, run) == run \notin store.dirs /\ RefsOfRun(store.refs, run) = {}
SameHead(bundle, store, run) ==
  /\ run \in DOMAIN store.records
  /\ HeadOf(EventLog(store, run)) = HeadOf(bundle.ledgers[run])
Refused(bundle, store) ==
  \E r \in ToSet(bundle.manifest.runs) : ~Absent(store, r) /\ ~SameHead(bundle, store, r)
RunsToWrite(bundle, store) ==
  {i \in DOMAIN bundle.manifest.runs : Absent(store, bundle.manifest.runs[i])}
=============================================================================
