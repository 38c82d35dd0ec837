------------------------------ MODULE RunHistory ------------------------------
(***************************************************************************)
(* One run as one process of src/engine/engine.ts writes it, call after      *)
(* call: observations, checkpoints that record the pending intents of the    *)
(* moment, and restores (resume and rollback) that go back to a checkpoint   *)
(* while the ledger goes on.  It drives the derivations of ResumeIntent over *)
(* every ledger such a run can have, up to a length, and compares them with  *)
(* what they mean: the history of a position, which forgets what a restore   *)
(* abandoned.  Several processes are the subject of Engine.                  *)
(***************************************************************************)
EXTENDS ResumeIntent, FiniteSets

CONSTANTS Alphabets,       \* sets of observations, of which a run uses one
          MaxLedger,       \* bound: length of the ledger
          MaxCheckpoints   \* bound: checkpoints of the run

ASSUME RunHistoryAssumption ==
  /\ \A observations \in Alphabets : observations \subseteq Observations
  /\ MaxLedger \in Nat
  /\ MaxCheckpoints \in Nat

VARIABLES alphabet,  \* the observations this run records
          ledger,    \* the events of the run
          recorded   \* [seqs of checkpoint.created -> its pending_intent]

vars == <<alphabet, ledger, recorded>>

Checkpoints == DOMAIN recorded
HeadSeq == Len(ledger)

Marker(role, target) ==
  [role |-> role, kind |-> None, id |-> None, payload |-> None, target |-> target]

Init ==
  /\ alphabet \in Alphabets
  /\ ledger = <<>>
  /\ recorded = <<>>

\* record() of one observation.
Record(event) ==
  /\ HeadSeq < MaxLedger
  /\ ledger' = Append(ledger, event)
  /\ UNCHANGED <<alphabet, recorded>>

\* The checkpoint created at the next seq records these intents.
Recording(intents) ==
  [c \in Checkpoints \cup {HeadSeq + 1} |-> IF c \in Checkpoints THEN recorded[c] ELSE intents]

\* Mutant: the intents recorded are those of the whole ledger.
CheckpointOfHead ==
  /\ HeadSeq < MaxLedger
  /\ Cardinality(Checkpoints) < MaxCheckpoints
  /\ recorded' = Recording(DerivePendingIntent(ledger, DOMAIN ledger))
  /\ ledger' = Append(ledger, Marker("checkpoint", 0))
  /\ UNCHANGED alphabet

\* checkpoint(): the intents of the history that the workspace descends from.
Checkpoint ==
  /\ HeadSeq < MaxLedger
  /\ Cardinality(Checkpoints) < MaxCheckpoints
  /\ recorded' = Recording(PendingIntentAt(ledger, AbandonedWindows(Lineage(ledger), HeadSeq, HeadSeq)))
  /\ ledger' = Append(ledger, Marker("checkpoint", 0))
  /\ UNCHANGED alphabet

\* resume() or rollback() to the checkpoint created at seq c.
Restore(c) ==
  /\ HeadSeq < MaxLedger
  /\ ledger' = Append(ledger, Marker("restore", c))
  /\ UNCHANGED <<alphabet, recorded>>

Next ==
  \/ \E event \in alphabet : Record(event)
  \/ Checkpoint
  \/ \E c \in Checkpoints : Restore(c)

Spec == Init /\ [][Next]_vars

\* What resume() to checkpoint c would report now.
ResumeReports(c) == PendingIntentAt(ledger, AbandonedWindows(Lineage(ledger), c, HeadSeq))

\* What rollback() to checkpoint c would warn about now.
RollbackWarns(c) == DeriveSideEffects(ledger, c, HeadSeq)

-----------------------------------------------------------------------------
(* What the derivations mean *)

\* The events a workspace at each position descends from: a restore continues
\* the history of its target, and any other event the history before it.
History[p \in 0..HeadSeq] ==
  IF p = 0 THEN {}
  ELSE IF ledger[p].role = "restore" THEN History[ledger[p].target]
  ELSE History[p - 1] \cup {p}

Requests == {r \in DOMAIN ledger : ledger[r].role = "request"}

\* The acknowledgements (or failures) among these events that belong to r:
\* those of its kind and id that no later request of them comes before.
AnswersTo(r, role, among) ==
  {a \in among :
     /\ ledger[a].role = role
     /\ ledger[a].kind = ledger[r].kind
     /\ IntentId(ledger[a]) = IntentId(ledger[r])
     /\ IntentId(ledger[r]) # None
     /\ r < a
     /\ \A later \in among \cap Requests :
          /\ r < later /\ later < a
          /\ ledger[later].kind = ledger[r].kind
          => IntentId(ledger[later]) # IntentId(ledger[r])}

\* The status that these events give the request r.
StatusOf(r, among) ==
  IF AnswersTo(r, "acknowledgement", among) # {} THEN "completed"
  ELSE IF AnswersTo(r, "failure", among) # {} THEN "pending"
  ELSE "in_progress"

\* r's id is used again by a request that restores abandoned.
Reused(r, history) ==
  \E other \in Requests \ history :
    ledger[other].kind = ledger[r].kind /\ IntentId(ledger[other]) = IntentId(ledger[r])

-----------------------------------------------------------------------------
(* Properties *)

\* derivePendingIntent reports each request once, with the status of the
\* acknowledgements and failures that belong to it ("Completion is sticky";
\* only what comes after the request counts).
DerivationCorrect ==
  LET intents == DerivePendingIntent(ledger, DOMAIN ledger)
  IN /\ {intent.requested_seq : intent \in intents} = Requests
     /\ Cardinality(intents) = Cardinality(Requests)
     /\ \A intent \in intents : intent.status = StatusOf(intent.requested_seq, DOMAIN ledger)

\* A tool request that a resume takes back with the workspace is reported with
\* the outcome that its own history shows; if an abandoned request used its id,
\* at least nothing is completed that the history does not show completed.
ToolStatusOnHistory ==
  \A c \in Checkpoints : \A intent \in ResumeReports(c) :
    LET r == intent.requested_seq
    IN intent.kind = "tool" /\ r \in History[c] =>
         /\ intent.status = "completed" => StatusOf(r, History[c]) = "completed"
         /\ ~Reused(r, History[c]) => intent.status = StatusOf(r, History[c])

\* A resume says of the tool requests on its history what the checkpoint
\* recorded when it was made, however the run went on in between.
ResumeAgreesWithCheckpoint ==
  \A c \in Checkpoints :
    {intent \in ResumeReports(c) : intent.kind = "tool" /\ intent.requested_seq \in History[c]}
      = {intent \in recorded[c] : intent.kind = "tool" /\ intent.requested_seq \in History[c]}

\* No request is forgotten by a resume: only an abandoned tool request that was
\* acknowledged or failed is left out.
NothingForgotten ==
  \A c \in Checkpoints : \A r \in Requests :
    \/ \E intent \in ResumeReports(c) : intent.requested_seq = r
    \/ /\ ledger[r].kind = "tool"
       /\ r \notin History[c]
       /\ StatusOf(r, DOMAIN ledger) # "in_progress"

\* What a resume of any checkpoint reports is true of the history that it goes
\* back to, through any nesting of restores.
ResumesReportHistory ==
  ToolStatusOnHistory /\ ResumeAgreesWithCheckpoint /\ NothingForgotten

\* Every commit answers a request: the event of its id before it is a request.
WellPaired ==
  \A a \in DOMAIN ledger : ledger[a].kind = "side_effect" /\ ledger[a].role = "acknowledgement" =>
    LET before == {b \in 1..(a - 1) : ledger[b].kind = "side_effect" /\ ledger[b].payload = ledger[a].payload}
    IN ledger[a].payload # None /\ \E b \in before : ledger[b].role = "request" /\ \A other \in before : other <= b

\* Where the payloads carry the ids and every commit answers a request, the
\* warnings of a rollback pair requests with commits exactly as the pending
\* intents do: a warning has a response if and only if its intent is completed.
WarningsAgreeWithIntents ==
  (/\ WellPaired
   /\ \A seq \in DOMAIN ledger : ledger[seq].id = ledger[seq].payload)
    => \A c \in Checkpoints :
         RollbackWarns(c) =
           {[request |-> intent.requested_seq, commit |-> intent.resolved_seq] :
              intent \in {i \in DerivePendingIntent(ledger, DOMAIN ledger) :
                            i.kind = "side_effect" /\ (i.requested_seq > c \/ i.resolved_seq > c)}}
=============================================================================
