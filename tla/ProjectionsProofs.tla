--------------------------- MODULE ProjectionsProofs ---------------------------
(***************************************************************************)
(* Proofs about Projections, for any processes, replies and bounds.  A put    *)
(* that finds its blob in place does not sync the blob's directory, so what    *)
(* must be shown is that no two puts store the same projection.  A range is    *)
(* folded from the ledger, so what must be shown of it is that an event that    *)
(* is appended moves no cursor and no parent.                                 *)
(***************************************************************************)
EXTENDS Projections, FiniteSetTheorems, NaturalsInduction, TLAPS

Putting == {"put", "install", "sync", "row"}

-----------------------------------------------------------------------------
(* The inductive invariant.                                                  *)

Events == [type : {"declared", "checkpoint", "resumed"}, cp : Nat, save : Saves \cup {None}]

\* What the functions of the state are defined on, and the steps of a process.
Shapes ==
  /\ pc \in [Procs -> {"idle", "asked", "rebuild"} \cup Putting]
  /\ DOMAIN job = Procs /\ \A p \in Procs : DOMAIN job[p] = {"put", "from", "cp", "listed"}
  /\ log \in Seq(Events)
  /\ distills \in Nat

\* Checkpoints are numbered without gaps, and a projection is of one of them.
Numbered ==
  /\ \E n \in Nat : Checkpoints = 1..n
  /\ \A o \in Others : pc[o] = "asked" => job[o].cp \in Checkpoints
  /\ \A p \in Procs : pc[p] \in Putting => job[p].put.cp \in Checkpoints
  /\ \A b \in blobs : b.cp \in Checkpoints

\* A put is known by its process and, among those of a distiller, by its number.
OwnId(o, put) ==
  put.source = "distilled" /\ \E k \in 1..distills : put.id = <<"proj", k, o>>
Owned ==
  /\ pc[Writer] \in {"idle"} \cup Putting
  /\ pc[Writer] \in Putting => job[Writer].put.source = "declared"
  /\ \A o \in Others : pc[o] \in Putting => OwnId(o, job[o].put)
  /\ \A b \in blobs : b.source = "declared" \/ \E o \in Others : OwnId(o, b)
  /\ \A o \in Others : pc[o] = "asked" =>
       /\ distills # 0
       /\ \A b \in blobs : b.source = "distilled" => b.id # <<"proj", distills, o>>

\* What a put has done at each of its steps.
Stepwise ==
  /\ \A p \in Procs : pc[p] = "put" => job[p].put \notin blobs
  /\ \A p \in Procs : pc[p] = "sync" => job[p].put \in blobs
  /\ \A p \in Procs : pc[p] = "row" => job[p].put \in synced
  /\ synced \subseteq blobs

\* What a reindex listed holds everything acknowledged, but for the raced and
\* the lost.
Listed ==
  /\ acked \subseteq synced \cup lost
  /\ acked \subseteq rows \cup raced \cup lost
  /\ \A o \in Procs : pc[o] = "rebuild" => acked \subseteq job[o].listed \cup raced \cup lost

\* The old directories are on disk, and none of them was lost.
Rooted ==
  /\ OldDirs \subseteq entered
  /\ \A b \in lost : Dir(b) \notin OldDirs

ProjInv == Shapes /\ Numbered /\ Owned /\ Stepwise /\ Listed /\ Rooted

-----------------------------------------------------------------------------
(* The ledger grows by one event, and the checkpoints with it.               *)

\* Checkpoints are those of the ledger.
LEMMA SameLog == log' = log => Checkpoints' = Checkpoints
BY DEF Checkpoints

\* An appended event may be a checkpoint, and takes none away.
LEMMA Appended ==
  ASSUME Shapes, NEW event \in Events, log' = Append(log, event)
  PROVE  /\ log' \in Seq(Events)
         /\ Checkpoints' = Checkpoints \cup (IF event.type = "checkpoint" THEN {event.cp} ELSE {})
<1>1. log \in Seq(Events) /\ log' = Append(log, event)
  BY DEF Shapes
<1>2. log' \in Seq(Events) /\ Len(log') = Len(log) + 1
  BY <1>1
<1>3. /\ DOMAIN log' = DOMAIN log \cup {Len(log) + 1}
      /\ log'[Len(log) + 1] = event
      /\ \A i \in DOMAIN log : log'[i] = log[i] /\ i # Len(log) + 1
  BY <1>1, <1>2
<1>4. ASSUME NEW c PROVE c \in Checkpoints' <=> c \in Checkpoints \/ (event.type = "checkpoint" /\ c = event.cp)
  <2>1. c \in Checkpoints' <=> \E i \in DOMAIN log' : log'[i].type = "checkpoint" /\ log'[i].cp = c
    BY DEF Checkpoints
  <2>2. c \in Checkpoints <=> \E i \in DOMAIN log : log[i].type = "checkpoint" /\ log[i].cp = c
    BY DEF Checkpoints
  <2> QED
    BY <1>3, <2>1, <2>2
<1> QED
  BY <1>2, <1>4

\* The next checkpoint's number is new.
LEMMA NextNumber ==
  ASSUME Numbered
  PROVE  LET c == Cardinality(Checkpoints) + 1
         IN  c \in Nat /\ c \notin Checkpoints /\ \E n \in Nat : Checkpoints \cup {c} = 1..n
<1>1. PICK n \in Nat : Checkpoints = 1..n
  BY DEF Numbered
<1>2. Cardinality(Checkpoints) = n
  BY <1>1, FS_Interval
<1>3. n + 1 \notin 1..n /\ (1..n) \cup {n + 1} = 1..(n + 1)
  OBVIOUS
<1> QED
  BY <1>1, <1>2, <1>3

\* The events that the actions append are of these types.
LEMMA Growth ==
  ASSUME Shapes, Numbered, Next
  PROVE  /\ log' \in Seq(Events)
         /\ Checkpoints \subseteq Checkpoints'
         /\ \E n \in Nat : Checkpoints' = 1..n
<1>1. CASE \E s \in Saves : Record(s)
  <2>1. PICK s \in Saves : Append1([type |-> "declared", cp |-> 0, save |-> s])
    BY <1>1 DEF Record
  <2>2. [type |-> "declared", cp |-> 0, save |-> s] \in Events
    BY DEF Events
  <2> QED
    BY <2>1, <2>2, Appended DEF Numbered, Append1
<1>2. CASE (\E s \in Saves : SaveCheckpoint(s)) \/ OtherCheckpoint
  <2> DEFINE c == Cardinality(Checkpoints) + 1
  <2>1. PICK s \in Saves \cup {None} : Append1([type |-> "checkpoint", cp |-> c, save |-> s])
    BY <1>2 DEF SaveCheckpoint, OtherCheckpoint
  <2>2. c \in Nat /\ \E n \in Nat : Checkpoints \cup {c} = 1..n
    BY NextNumber
  <2>3. [type |-> "checkpoint", cp |-> c, save |-> s] \in Events
    BY <2>2 DEF Events
  <2> HIDE DEF c
  <2>4. log' \in Seq(Events) /\ Checkpoints' = Checkpoints \cup {c}
    BY <2>1, <2>3, Appended DEF Append1
  <2> QED
    BY <2>2, <2>4
<1>3. CASE Restore
  <2>1. PICK c \in Checkpoints : Append1([type |-> "resumed", cp |-> c, save |-> None])
    BY <1>3 DEF Restore
  <2>2. c \in Nat
    BY <2>1 DEF Numbered
  <2>3. [type |-> "resumed", cp |-> c, save |-> None] \in Events
    BY <2>2 DEF Events
  <2> QED
    BY <2>1, <2>3, Appended DEF Numbered, Append1
<1>4. CASE log' = log
  BY <1>4, SameLog DEF Shapes, Numbered
<1>5. (\E s \in Saves : Record(s) \/ SaveCheckpoint(s)) \/ OtherCheckpoint \/ Restore \/ log' = log
  BY DEF Next, CallSave, SaveRejected, Close, Distill, Answer, Reindex, Rebuild,
         PutBegin, Install, SyncDir, InsertRow, PutFails, Dies, PowerLoss
<1> QED
  BY <1>1, <1>2, <1>3, <1>4, <1>5

-----------------------------------------------------------------------------
(* Each part of the invariant is preserved.                                  *)

\* Initially there is nothing.
LEMMA InitInv == Init => ProjInv
<1> SUFFICES ASSUME Init PROVE ProjInv
  OBVIOUS
<1>1. Shapes
  BY DEF Init, Shapes, NoJob, Procs
<1>2. Checkpoints = 1..0
  BY DEF Init, Checkpoints
<1> QED
  BY <1>1, <1>2 DEF Init, ProjInv, Numbered, Owned, Stepwise, Listed, Rooted, Putting, Procs

\* A step that stores nothing and moves no process.
Quiet ==
  /\ (\E s \in Saves : CallSave(s) \/ Record(s) \/ SaveRejected(s)) \/ OtherCheckpoint \/ Restore \/ Close
  /\ UNCHANGED <<blobs, synced, entered, lost, rows, pc, job, acked, raced, distills>>

\* The cases that each of the lemmas below takes.
LEMMA Cases ==
  ASSUME Next
  PROVE  \/ Quiet
         \/ \E s \in Saves : SaveCheckpoint(s)
         \/ \E o \in Others : Distill(o) \/ Answer(o) \/ Reindex(o) \/ Rebuild(o)
         \/ \E p \in Procs : PutBegin(p) \/ Install(p) \/ SyncDir(p) \/ InsertRow(p) \/ PutFails(p) \/ Dies(p)
         \/ PowerLoss
BY DEF Next, Quiet, CallSave, Record, SaveRejected, OtherCheckpoint, Restore, Close

\* A save's put is of a new checkpoint.
LEMMA SaveCheckpointStep ==
  ASSUME ProjInv, NEW s \in Saves, SaveCheckpoint(s)
  PROVE  /\ pc' = [pc EXCEPT ![Writer] = "put"]
         /\ job'[Writer].put.cp \in Checkpoints' \ Checkpoints
         /\ job'[Writer].put.source = "declared"
         /\ \A p \in Procs \ {Writer} : job'[p] = job[p]
         /\ UNCHANGED <<blobs, synced, entered, lost, rows, acked, raced, distills>>
<1> DEFINE c == Cardinality(Checkpoints) + 1
           event == [type |-> "checkpoint", cp |-> c, save |-> s]
<1>1. c \in Nat /\ c \notin Checkpoints
  BY NextNumber DEF ProjInv
<1>2. event \in Events
  BY <1>1 DEF Events
<1>3. Append1(event) /\ job' = [job EXCEPT ![Writer].put = Declared(s, c)]
  BY DEF SaveCheckpoint
<1>4. event.type = "checkpoint" /\ event.cp = c
  OBVIOUS
<1>5. Declared(s, c).cp = c /\ Declared(s, c).source = "declared"
  BY DEF Declared
<1> HIDE DEF c, event
<1>6. c \in Checkpoints'
  BY <1>2, <1>3, <1>4, Appended DEF ProjInv, Append1
<1>7. job'[Writer].put = Declared(s, c)
  BY <1>3 DEF ProjInv, Shapes, Procs
<1> QED
  BY <1>1, <1>3, <1>5, <1>6, <1>7 DEF SaveCheckpoint, ProjInv, Shapes, Procs

\* A reply that can be read is put under the distiller's next id.
LEMMA AnswerStep ==
  ASSUME ProjInv, NEW o \in Others, Answer(o)
  PROVE  /\ pc[o] = "asked"
         /\ \/ pc' = [pc EXCEPT ![o] = "idle"]
            \/ /\ pc' = [pc EXCEPT ![o] = "put"]
               /\ job'[o].put.cp = job[o].cp
               /\ job'[o].put.source = "distilled"
               /\ job'[o].put.id = <<"proj", distills, o>>
         /\ \A p \in Procs \ {o} : job'[p] = job[p]
         /\ UNCHANGED <<log, blobs, synced, entered, lost, rows, acked, raced, distills>>
BY DEF Answer, ProjInv, Shapes, Procs

\* What a loss of power leaves.
LEMMA PowerLossStep ==
  ASSUME Stepwise, PowerLoss
  PROVE  /\ blobs' \subseteq blobs /\ synced' = blobs'
         /\ entered \subseteq entered' /\ lost \subseteq lost'
         /\ synced \subseteq synced' \cup lost'
         /\ \A b \in lost' : b \in lost \/ Dir(b) \notin entered
<1>1. PICK gone \in SUBSET ({Dir(b) : b \in blobs} \ entered), kept \in SUBSET (blobs \ synced) :
        /\ blobs' = {b \in synced \cup kept : Dir(b) \notin gone} /\ synced' = blobs'
        /\ entered' = entered \cup ({Dir(b) : b \in blobs} \ gone)
        /\ lost' = lost \cup {b \in blobs : Dir(b) \in gone}
  BY DEF PowerLoss
<1> QED
  BY <1>1 DEF Stepwise

\* The steps and locals of a process.
LEMMA StepShapes ==
  ASSUME Shapes, Numbered, Next
  PROVE  Shapes'
<1>1. CASE Quiet
  BY <1>1, Growth DEF Shapes, Quiet
<1>2. ASSUME NEW s \in Saves, SaveCheckpoint(s) PROVE Shapes'
  BY <1>2, Growth DEF Shapes, SaveCheckpoint, Procs, Putting
<1>3. ASSUME NEW o \in Others, Distill(o) PROVE Shapes'
  BY <1>3, Growth DEF Shapes, Distill, Procs, NoJob
<1>4. ASSUME NEW o \in Others, Answer(o) PROVE Shapes'
  BY <1>4, Growth DEF Shapes, Answer, Procs, Putting, NoJob
<1>5. ASSUME NEW o \in Others, Reindex(o) PROVE Shapes'
  BY <1>5, Growth DEF Shapes, Reindex, Procs
<1>6. ASSUME NEW o \in Others, Rebuild(o) PROVE Shapes'
  BY <1>6, Growth DEF Shapes, Rebuild, Procs, Putting, NoJob
<1>7. ASSUME NEW p \in Procs, PutBegin(p) PROVE Shapes'
  BY <1>7, Growth DEF Shapes, PutBegin, Procs, Putting
<1>8. ASSUME NEW p \in Procs, Install(p) PROVE Shapes'
  BY <1>8, Growth DEF Shapes, Install, Procs, Putting
<1>9. ASSUME NEW p \in Procs, SyncDir(p) PROVE Shapes'
  BY <1>9, Growth DEF Shapes, SyncDir, Procs, Putting
<1>10. ASSUME NEW p \in Procs, InsertRow(p) PROVE Shapes'
  BY <1>10, Growth DEF Shapes, InsertRow, Procs, Putting, NoJob
<1>11. ASSUME NEW p \in Procs, PutFails(p) PROVE Shapes'
  BY <1>11, Growth DEF Shapes, PutFails, Procs, Putting, NoJob
<1>12. ASSUME NEW p \in Procs, Dies(p) PROVE Shapes'
  BY <1>12, Growth DEF Shapes, Dies, Dead, Procs, Putting, NoJob
<1>13. CASE PowerLoss
  BY <1>13, Growth DEF Shapes, PowerLoss, Dead, Procs, Putting, NoJob
<1> QED
  BY <1>1, <1>2, <1>3, <1>4, <1>5, <1>6, <1>7, <1>8, <1>9, <1>10, <1>11, <1>12, <1>13, Cases

\* Checkpoints only grow, so what is of one stays of one.
LEMMA StepNumbered ==
  ASSUME ProjInv, Next
  PROVE  Numbered'
<1>1. CASE Quiet
  BY <1>1, Growth DEF ProjInv, Shapes, Numbered, Stepwise, Quiet
<1>2. ASSUME NEW s \in Saves, SaveCheckpoint(s) PROVE Numbered'
  BY <1>2, Growth, SaveCheckpointStep DEF ProjInv, Shapes, Numbered, Procs, Putting
<1>3. ASSUME NEW o \in Others, Distill(o) PROVE Numbered'
  BY <1>3, SameLog DEF ProjInv, Shapes, Numbered, Distill, Procs, Putting, NoJob
<1>4. ASSUME NEW o \in Others, Answer(o) PROVE Numbered'
  BY <1>4, SameLog DEF ProjInv, Shapes, Numbered, Answer, Procs, Putting
<1>5. ASSUME NEW o \in Others, Reindex(o) PROVE Numbered'
  BY <1>5, SameLog DEF ProjInv, Shapes, Numbered, Reindex, Procs, Putting
<1>6. ASSUME NEW o \in Others, Rebuild(o) PROVE Numbered'
  BY <1>6, SameLog DEF ProjInv, Shapes, Numbered, Rebuild, Procs, Putting
<1>7. ASSUME NEW p \in Procs, PutBegin(p) PROVE Numbered'
  BY <1>7, SameLog DEF ProjInv, Shapes, Numbered, PutBegin, Procs, Putting
<1>8. ASSUME NEW p \in Procs, Install(p) PROVE Numbered'
  BY <1>8, SameLog DEF ProjInv, Shapes, Numbered, Install, Procs, Putting
<1>9. ASSUME NEW p \in Procs, SyncDir(p) PROVE Numbered'
  BY <1>9, SameLog DEF ProjInv, Shapes, Numbered, SyncDir, Procs, Putting
<1>10. ASSUME NEW p \in Procs, InsertRow(p) PROVE Numbered'
  BY <1>10, SameLog DEF ProjInv, Shapes, Numbered, InsertRow, Procs, Putting
<1>11. ASSUME NEW p \in Procs, PutFails(p) PROVE Numbered'
  BY <1>11, SameLog DEF ProjInv, Shapes, Numbered, PutFails, Procs, Putting
<1>12. ASSUME NEW p \in Procs, Dies(p) PROVE Numbered'
  BY <1>12, SameLog DEF ProjInv, Shapes, Numbered, Dies, Dead, Procs, Putting
<1>13. CASE PowerLoss
  BY <1>13, SameLog, PowerLossStep DEF ProjInv, Shapes, Numbered, PowerLoss, Dead, Procs, Putting
<1> QED
  BY <1>1, <1>2, <1>3, <1>4, <1>5, <1>6, <1>7, <1>8, <1>9, <1>10, <1>11, <1>12, <1>13, Cases

\* Ids stay unique.
LEMMA StepOwned ==
  ASSUME ProjInv, Next
  PROVE  Owned'
<1>1. CASE Quiet
  BY <1>1 DEF ProjInv, Shapes, Owned, OwnId, Quiet
<1>2. ASSUME NEW s \in Saves, SaveCheckpoint(s) PROVE Owned'
  BY <1>2, SaveCheckpointStep, ProjectionsAssumption DEF ProjInv, Shapes, Owned, OwnId, Procs, Putting
<1>3. ASSUME NEW o \in Others, Distill(o) PROVE Owned'
  BY <1>3, ProjectionsAssumption DEF ProjInv, Shapes, Owned, OwnId, Distill, Procs, Putting, NoJob
<1>4. ASSUME NEW o \in Others, Answer(o) PROVE Owned'
  <2>1. o # Writer /\ Writer \in Procs /\ Others \subseteq Procs
    BY ProjectionsAssumption DEF Procs
  <2>2. /\ \A p \in Procs \ {o} : pc'[p] = pc[p] /\ job'[p] = job[p]
        /\ UNCHANGED <<blobs, distills>>
    BY <1>4, AnswerStep DEF ProjInv, Shapes
  <2>3. pc'[o] = "idle" \/ (pc'[o] = "put" /\ OwnId(o, job[o].put)')
    <3>1. CASE pc' = [pc EXCEPT ![o] = "idle"]
      BY <2>1, <3>1 DEF ProjInv, Shapes
    <3>2. CASE /\ pc' = [pc EXCEPT ![o] = "put"]
               /\ job'[o].put.source = "distilled" /\ job'[o].put.id = <<"proj", distills, o>>
      <4>1. distills \in 1..distills
        BY <1>4, AnswerStep DEF ProjInv, Shapes, Owned
      <4> QED
        BY <2>1, <2>2, <3>2, <4>1 DEF ProjInv, Shapes, OwnId
    <3> QED
      BY <1>4, <3>1, <3>2, AnswerStep
  <2>4. \A p \in Others \ {o} : pc[p] \in Putting => OwnId(p, job[p].put)'
    BY <2>1, <2>2 DEF ProjInv, Owned, OwnId
  <2>5. \A p \in Others, b \in blobs : OwnId(p, b) => OwnId(p, b)'
    BY <2>2 DEF OwnId
  <2> QED
    BY <2>1, <2>2, <2>3, <2>4, <2>5 DEF ProjInv, Owned, Putting
<1>5. ASSUME NEW o \in Others, Reindex(o) PROVE Owned'
  BY <1>5, ProjectionsAssumption DEF ProjInv, Shapes, Owned, OwnId, Reindex, Procs, Putting
<1>6. ASSUME NEW o \in Others, Rebuild(o) PROVE Owned'
  BY <1>6 DEF ProjInv, Shapes, Owned, OwnId, Rebuild, Procs, Putting
<1>7. ASSUME NEW p \in Procs, PutBegin(p) PROVE Owned'
  BY <1>7 DEF ProjInv, Shapes, Owned, OwnId, PutBegin, Procs, Putting
<1>8. ASSUME NEW p \in Procs, Install(p) PROVE Owned'
  BY <1>8 DEF ProjInv, Shapes, Owned, OwnId, Install, Procs, Putting
<1>9. ASSUME NEW p \in Procs, SyncDir(p) PROVE Owned'
  BY <1>9 DEF ProjInv, Shapes, Owned, OwnId, SyncDir, Procs, Putting
<1>10. ASSUME NEW p \in Procs, InsertRow(p) PROVE Owned'
  BY <1>10 DEF ProjInv, Shapes, Owned, OwnId, InsertRow, Procs, Putting
<1>11. ASSUME NEW p \in Procs, PutFails(p) PROVE Owned'
  BY <1>11 DEF ProjInv, Shapes, Owned, OwnId, PutFails, Procs, Putting
<1>12. ASSUME NEW p \in Procs, Dies(p) PROVE Owned'
  BY <1>12 DEF ProjInv, Shapes, Owned, OwnId, Dies, Dead, Procs, Putting
<1>13. CASE PowerLoss
  <2>1. blobs' \subseteq blobs /\ distills' = distills
    BY <1>13, PowerLossStep DEF ProjInv, PowerLoss
  <2>2. \A p \in Procs : pc'[p] = "idle"
    BY <1>13 DEF PowerLoss, Dead
  <2>3. \A b \in blobs' : b.source = "declared" \/ \E o \in Others : OwnId(o, b)'
    BY <2>1 DEF ProjInv, Owned, OwnId
  <2> QED
    BY <2>2, <2>3 DEF Owned, Procs, Putting
<1> QED
  BY <1>1, <1>2, <1>3, <1>4, <1>5, <1>6, <1>7, <1>8, <1>9, <1>10, <1>11, <1>12, <1>13, Cases

\* A put stores what nobody stored before.
LEMMA StepStepwise ==
  ASSUME ProjInv, Next
  PROVE  Stepwise'
<1>1. CASE Quiet
  BY <1>1 DEF ProjInv, Shapes, Numbered, Owned, OwnId, Stepwise, Quiet
<1>2. ASSUME NEW s \in Saves, SaveCheckpoint(s) PROVE Stepwise'
  BY <1>2, SaveCheckpointStep DEF ProjInv, Shapes, Numbered, Stepwise, Procs, Putting
<1>3. ASSUME NEW o \in Others, Distill(o) PROVE Stepwise'
  BY <1>3 DEF ProjInv, Shapes, Numbered, Owned, OwnId, Stepwise, Distill, Procs, Putting
<1>4. ASSUME NEW o \in Others, Answer(o) PROVE Stepwise'
  BY <1>4, AnswerStep, ProjectionsAssumption DEF ProjInv, Shapes, Owned, Stepwise, Procs, Putting
<1>5. ASSUME NEW o \in Others, Reindex(o) PROVE Stepwise'
  BY <1>5 DEF ProjInv, Shapes, Numbered, Owned, OwnId, Stepwise, Reindex, Procs, Putting
<1>6. ASSUME NEW o \in Others, Rebuild(o) PROVE Stepwise'
  BY <1>6 DEF ProjInv, Shapes, Numbered, Owned, OwnId, Stepwise, Rebuild, Procs, Putting
<1>7. ASSUME NEW p \in Procs, PutBegin(p) PROVE Stepwise'
  BY <1>7 DEF ProjInv, Shapes, Numbered, Owned, OwnId, Stepwise, PutBegin, Procs, Putting
<1>8. ASSUME NEW p \in Procs, Install(p) PROVE Stepwise'
  BY <1>8 DEF ProjInv, Shapes, Numbered, Owned, OwnId, Stepwise, Install, Procs, Putting
<1>9. ASSUME NEW p \in Procs, SyncDir(p) PROVE Stepwise'
  BY <1>9 DEF ProjInv, Shapes, Stepwise, SyncDir, Synced, Procs, Putting
<1>10. ASSUME NEW p \in Procs, InsertRow(p) PROVE Stepwise'
  BY <1>10 DEF ProjInv, Shapes, Numbered, Owned, OwnId, Stepwise, InsertRow, Procs, Putting
<1>11. ASSUME NEW p \in Procs, PutFails(p) PROVE Stepwise'
  BY <1>11 DEF ProjInv, Shapes, Numbered, Owned, OwnId, Stepwise, PutFails, Procs, Putting
<1>12. ASSUME NEW p \in Procs, Dies(p) PROVE Stepwise'
  BY <1>12 DEF ProjInv, Shapes, Numbered, Owned, OwnId, Stepwise, Dies, Dead, Procs, Putting
<1>13. CASE PowerLoss
  BY <1>13, PowerLossStep DEF ProjInv, Shapes, Stepwise, PowerLoss, Dead, Procs, Putting
<1> QED
  BY <1>1, <1>2, <1>3, <1>4, <1>5, <1>6, <1>7, <1>8, <1>9, <1>10, <1>11, <1>12, <1>13, Cases

\* A directory that is on disk stays there.
LEMMA StepRooted ==
  ASSUME ProjInv, Next
  PROVE  Rooted'
<1>1. CASE PowerLoss
  BY <1>1, PowerLossStep DEF ProjInv, Rooted
<1>2. CASE UNCHANGED <<entered, lost>>
  BY <1>2 DEF ProjInv, Rooted
<1>3. PowerLoss \/ UNCHANGED <<entered, lost>>
  BY Cases, SaveCheckpointStep, AnswerStep
     DEF Quiet, Distill, Reindex, Rebuild, PutBegin, Install, SyncDir, InsertRow, PutFails, Dies
<1> QED
  BY <1>1, <1>2, <1>3

\* What is acknowledged stays.
LEMMA StepListed ==
  ASSUME ProjInv, Next
  PROVE  Listed'
<1>1. CASE Quiet
  BY <1>1 DEF ProjInv, Shapes, Stepwise, Listed, Quiet
<1>2. ASSUME NEW s \in Saves, SaveCheckpoint(s) PROVE Listed'
  BY <1>2 DEF ProjInv, Shapes, Stepwise, Listed, SaveCheckpoint, Procs, Putting
<1>3. ASSUME NEW o \in Others, Distill(o) PROVE Listed'
  BY <1>3 DEF ProjInv, Shapes, Stepwise, Listed, Distill, Procs, Putting
<1>4. ASSUME NEW o \in Others, Answer(o) PROVE Listed'
  BY <1>4 DEF ProjInv, Shapes, Stepwise, Listed, Answer, Procs, Putting
<1>5. ASSUME NEW o \in Others, Reindex(o) PROVE Listed'
  BY <1>5 DEF ProjInv, Shapes, Stepwise, Listed, Reindex, Procs, Putting
<1>6. ASSUME NEW o \in Others, Rebuild(o) PROVE Listed'
  BY <1>6 DEF ProjInv, Shapes, Numbered, Stepwise, Listed, Rebuild, DurableProjections, Procs, Putting
<1>7. ASSUME NEW p \in Procs, PutBegin(p) PROVE Listed'
  BY <1>7 DEF ProjInv, Shapes, Stepwise, Listed, PutBegin, Procs, Putting
<1>8. ASSUME NEW p \in Procs, Install(p) PROVE Listed'
  BY <1>8 DEF ProjInv, Shapes, Stepwise, Listed, Install, Procs, Putting
<1>9. ASSUME NEW p \in Procs, SyncDir(p) PROVE Listed'
  BY <1>9 DEF ProjInv, Shapes, Listed, SyncDir, Synced, Procs, Putting
<1>10. ASSUME NEW p \in Procs, InsertRow(p) PROVE Listed'
  BY <1>10 DEF ProjInv, Shapes, Stepwise, Listed, InsertRow, Procs, Putting
<1>11. ASSUME NEW p \in Procs, PutFails(p) PROVE Listed'
  BY <1>11 DEF ProjInv, Shapes, Stepwise, Listed, PutFails, Procs, Putting
<1>12. ASSUME NEW p \in Procs, Dies(p) PROVE Listed'
  BY <1>12 DEF ProjInv, Shapes, Stepwise, Listed, Dies, Dead, Procs, Putting
<1>13. CASE PowerLoss
  BY <1>13, PowerLossStep DEF ProjInv, Shapes, Listed, PowerLoss, Dead, Procs, Putting
<1> QED
  BY <1>1, <1>2, <1>3, <1>4, <1>5, <1>6, <1>7, <1>8, <1>9, <1>10, <1>11, <1>12, <1>13, Cases

-----------------------------------------------------------------------------
(* The range of a projection: from its checkpoint's parent to the checkpoint. *)

\* A checkpoint has one event, and a restore is to a checkpoint.
Traced ==
  /\ \A i, j \in DOMAIN log :
       log[i].type = "checkpoint" /\ log[j].type = "checkpoint" /\ log[i].cp = log[j].cp => i = j
  /\ \A i \in DOMAIN log : log[i].type \in {"checkpoint", "resumed"} => log[i].cp \in Checkpoints

From(c) == Cursor(ParentOf(c))

\* A projection cites what its checkpoint covers.
Fits(b) ==
  /\ b.cp \in Checkpoints
  /\ b.from = From(b.cp)
  /\ \A claim \in b.claims :
       /\ claim # {}
       /\ \A e \in claim : IF e.kind = "checkpoint" THEN e.n \in Checkpoints
                           ELSE e.n > From(b.cp) /\ e.n <= Cursor(b.cp)

\* The projections that are being put.
Puts == {job[p].put : p \in {q \in Procs : pc[q] \in Putting}}

\* What a distillation asked for is the range of its checkpoint.
InRange ==
  /\ \A c \in Checkpoints, o \in Others : pc[o] = "asked" /\ job[o].cp = c => job[o].from = From(c)
  /\ \A b \in blobs \cup Puts : Fits(b)

\* An event of the ledger that may follow the others.
Follows(event) ==
  /\ event \in Events
  /\ event.type = "checkpoint" => event.cp = Cardinality(Checkpoints) + 1
  /\ event.type = "resumed" => event.cp \in Checkpoints

\* A step appends one event, or none; a declared one is a save's.
LEMMA Extends ==
  ASSUME Numbered, [Next]_vars
  PROVE  \/ log' = log
         \/ \E event : /\ Follows(event) /\ log' = Append(log, event)
                       /\ event.type = "declared" => \E s \in Saves : Record(s)
<1>1. CASE \E s \in Saves : Record(s)
  <2>1. PICK s \in Saves : Append1([type |-> "declared", cp |-> 0, save |-> s])
    BY <1>1 DEF Record
  <2>2. Follows([type |-> "declared", cp |-> 0, save |-> s])
    BY DEF Events, Follows
  <2> QED
    BY <1>1, <2>1, <2>2 DEF Append1
<1>2. CASE (\E s \in Saves : SaveCheckpoint(s)) \/ OtherCheckpoint
  <2> DEFINE c == Cardinality(Checkpoints) + 1
  <2>1. PICK s \in Saves \cup {None} : Append1([type |-> "checkpoint", cp |-> c, save |-> s])
    BY <1>2 DEF SaveCheckpoint, OtherCheckpoint
  <2>2. c \in Nat
    BY NextNumber
  <2>3. Follows([type |-> "checkpoint", cp |-> c, save |-> s])
    BY <2>2 DEF Events, Follows
  <2> QED
    BY <2>1, <2>3 DEF Append1
<1>3. CASE Restore
  <2>1. PICK c \in Checkpoints : Append1([type |-> "resumed", cp |-> c, save |-> None])
    BY <1>3 DEF Restore
  <2>2. c \in Nat
    BY <2>1 DEF Numbered
  <2>3. Follows([type |-> "resumed", cp |-> c, save |-> None])
    BY <2>1, <2>2 DEF Events, Follows
  <2> QED
    BY <2>1, <2>3 DEF Append1
<1>4. (\E s \in Saves : Record(s) \/ SaveCheckpoint(s)) \/ OtherCheckpoint \/ Restore \/ log' = log
  BY DEF vars, Next, CallSave, SaveRejected, Close, Distill, Answer, Reindex, Rebuild,
         PutBegin, Install, SyncDir, InsertRow, PutFails, Dies, PowerLoss
<1> QED
  BY <1>1, <1>2, <1>3, <1>4

\* The ledger with one more event.
LEMMA Longer ==
  ASSUME Shapes, NEW event \in Events, log' = Append(log, event)
  PROVE  /\ Len(log) \in Nat /\ Len(log') = Len(log) + 1
         /\ DOMAIN log = 1..Len(log) /\ DOMAIN log' = 1..(Len(log) + 1)
         /\ \A i \in 1..Len(log) : log'[i] = log[i] /\ i \in 1..(Len(log) + 1) /\ i # Len(log) + 1
         /\ \A i \in 1..(Len(log) + 1) : i \in 1..Len(log) \/ i = Len(log) + 1
         /\ log'[Len(log) + 1] = event
<1>1. log \in Seq(Events) /\ Len(log) \in Nat
  BY DEF Shapes
<1> QED
  BY <1>1

\* The cursor of a checkpoint is where its event is.
LEMMA CursorIs ==
  ASSUME Numbered, Traced, NEW c \in Checkpoints
  PROVE  /\ Cursor(c) \in DOMAIN log /\ log[Cursor(c)].type = "checkpoint" /\ log[Cursor(c)].cp = c
         /\ \A i \in DOMAIN log : log[i].type = "checkpoint" /\ log[i].cp = c => i = Cursor(c)
<1>1. c # 0
  BY DEF Numbered
<1>2. PICK i \in DOMAIN log : log[i].type = "checkpoint" /\ log[i].cp = c
  BY DEF Checkpoints
<1> QED
  BY <1>1, <1>2 DEF Cursor, Traced

\* The latest of a set of places is one of them.
LEMMA LatestPlace ==
  ASSUME NEW n \in Nat, NEW places \in SUBSET (1..n), places # {}
  PROVE  Max(places) \in places
<1>1. \E m \in places : \A i \in places : m >= i
  <2> DEFINE FromEnd == {n - i : i \in places}
             R == OpToRel(<, Nat)
  <2>1. \A i \in places : i \in Nat /\ n - i \in Nat
    OBVIOUS
  <2>2. FromEnd \subseteq Nat /\ FromEnd # {}
    BY <2>1
  <2>3. PICK least \in FromEnd : \A d \in FromEnd : ~(<<d, least>> \in R)
    <3>1. IsWellFoundedOn(R, Nat)
      BY NatLessThanWellFounded
    <3> HIDE DEF R, FromEnd
    <3> QED
      BY <2>2, <3>1, WFMin
  <2>4. \A d \in FromEnd : ~(d < least)
    BY <2>2, <2>3, Zenon DEF OpToRel
  <2>5. PICK m \in places : least = n - m
    OBVIOUS
  <2>6. ASSUME NEW i \in places PROVE m >= i
    <3>1. n - i \in FromEnd
      OBVIOUS
    <3>2. ~(n - i < n - m)
      BY <2>4, <2>5, <3>1
    <3>3. m \in Nat /\ i \in Nat
      BY <2>1, <2>5
    <3> HIDE DEF FromEnd
    <3> QED
      BY <3>2, <3>3
  <2> QED
    BY <2>6
<1> QED
  BY <1>1 DEF Max

\* A position's current checkpoint is one, or none.
LEMMA CurrentType ==
  ASSUME Shapes, Traced, NEW n \in 0..Len(log)
  PROVE  CurrentAt(n) \in Checkpoints \cup {0}
<1> DEFINE moves == {i \in 1..n : log[i].type \in {"checkpoint", "resumed"}}
<1>1. Len(log) \in Nat /\ DOMAIN log = 1..Len(log) /\ n \in Nat
  BY DEF Shapes
<1>2. moves # {} => Max(moves) \in moves
  <2>1. moves \in SUBSET (1..n)
    OBVIOUS
  <2> HIDE DEF moves
  <2> QED
    BY <1>1, <2>1, LatestPlace
<1>3. \A i \in moves : log[i].cp \in Checkpoints
  <2>1. \A i \in 1..n : i \in DOMAIN log
    BY <1>1
  <2> QED
    BY <2>1 DEF Traced
<1>4. CurrentAt(n) = IF moves = {} THEN 0 ELSE log[Max(moves)].cp
  BY DEF CurrentAt
<1> HIDE DEF moves
<1> QED
  BY <1>2, <1>3, <1>4

\* It stays so when the ledger grows.
LEMMA CurrentStays ==
  ASSUME Shapes, Len(log) \in Nat, \A i \in 1..Len(log) : log'[i] = log[i], NEW n \in 0..Len(log)
  PROVE  CurrentAt(n)' = CurrentAt(n)
<1> DEFINE moves == {i \in 1..n : log[i].type \in {"checkpoint", "resumed"}}
<1>1. n \in Nat /\ \A i \in 1..n : log'[i] = log[i]
  OBVIOUS
<1>2. {i \in 1..n : log'[i].type \in {"checkpoint", "resumed"}} = moves
  BY <1>1
<1>3. moves # {} => Max(moves) \in 1..n
  <2>1. moves \in SUBSET (1..n)
    OBVIOUS
  <2> HIDE DEF moves
  <2> QED
    BY <1>1, <2>1, LatestPlace
<1>4. /\ CurrentAt(n) = IF moves = {} THEN 0 ELSE log[Max(moves)].cp
      /\ CurrentAt(n)' = IF moves = {} THEN 0 ELSE log'[Max(moves)].cp
  BY <1>2 DEF CurrentAt
<1> HIDE DEF moves
<1> QED
  BY <1>1, <1>3, <1>4

\* An event that follows keeps the ledger traced and moves no cursor.
LEMMA FollowsTraced ==
  ASSUME Shapes, Numbered, Traced, NEW event, Follows(event), log' = Append(log, event)
  PROVE  /\ Traced' /\ Checkpoints \subseteq Checkpoints'
         /\ \A c \in Checkpoints : Cursor(c)' = Cursor(c)
<1>1. /\ DOMAIN log = 1..Len(log) /\ DOMAIN log' = 1..(Len(log) + 1)
      /\ \A i \in DOMAIN log : log'[i] = log[i] /\ i \in DOMAIN log' /\ i # Len(log) + 1
      /\ \A i \in DOMAIN log' : i \in DOMAIN log \/ i = Len(log) + 1
      /\ log'[Len(log) + 1] = event
  BY Longer DEF Follows
<1>2. Checkpoints' = Checkpoints \cup (IF event.type = "checkpoint" THEN {event.cp} ELSE {})
  BY Appended DEF Follows
<1>3. /\ event.type = "checkpoint" => event.cp \notin Checkpoints
      /\ event.type = "resumed" => event.cp \in Checkpoints
  BY NextNumber DEF Follows
<1>4. \A i \in DOMAIN log : log[i].type = "checkpoint" => log[i].cp \in Checkpoints
  BY DEF Traced
<1>5. Traced'
  <2>1. ASSUME NEW i \in DOMAIN log', NEW j \in DOMAIN log',
               log'[i].type = "checkpoint", log'[j].type = "checkpoint", log'[i].cp = log'[j].cp
        PROVE  i = j
    <3>1. CASE i \in DOMAIN log /\ j \in DOMAIN log
      BY <1>1, <2>1, <3>1 DEF Traced
    <3>2. CASE i \in DOMAIN log /\ j = Len(log) + 1
      <4>1. log[i].type = "checkpoint" /\ log[i].cp = event.cp /\ event.type = "checkpoint"
        BY <1>1, <2>1, <3>2
      <4> QED
        BY <1>3, <1>4, <3>2, <4>1
    <3>3. CASE i = Len(log) + 1 /\ j \in DOMAIN log
      <4>1. log[j].type = "checkpoint" /\ log[j].cp = event.cp /\ event.type = "checkpoint"
        BY <1>1, <2>1, <3>3
      <4> QED
        BY <1>3, <1>4, <3>3, <4>1
    <3> QED
      BY <1>1, <3>1, <3>2, <3>3
  <2>2. ASSUME NEW i \in DOMAIN log', log'[i].type \in {"checkpoint", "resumed"}
        PROVE  log'[i].cp \in Checkpoints'
    <3>1. CASE i \in DOMAIN log
      BY <1>1, <1>2, <2>2, <3>1 DEF Traced
    <3>2. CASE i = Len(log) + 1
      BY <1>1, <1>2, <1>3, <2>2, <3>2
    <3> QED
      BY <1>1, <3>1, <3>2
  <2> QED
    BY <2>1, <2>2 DEF Traced
<1>6. ASSUME NEW c \in Checkpoints PROVE Cursor(c)' = Cursor(c)
  <2>1. PICK k : k = Cursor(c)
    OBVIOUS
  <2>2. /\ k \in DOMAIN log /\ log[k].type = "checkpoint" /\ log[k].cp = c
        /\ \A i \in DOMAIN log : log[i].type = "checkpoint" /\ log[i].cp = c => i = k
    BY <2>1, CursorIs
  <2>3. \A i \in DOMAIN log' : (log'[i].type = "checkpoint" /\ log'[i].cp = c) <=> i = k
    BY <1>1, <1>3, <2>2
  <2>4. c # 0 /\ k \in DOMAIN log'
    BY <1>1, <2>2 DEF Numbered
  <2>5. Cursor(c)' = CHOOSE i \in DOMAIN log' : log'[i].type = "checkpoint" /\ log'[i].cp = c
    BY <2>4 DEF Cursor
  <2> QED
    BY <2>1, <2>3, <2>4, <2>5
<1> QED
  BY <1>2, <1>5, <1>6

\* A range once known stays.
LEMMA RangesStay ==
  ASSUME Shapes, Numbered, Traced, [Next]_vars
  PROVE  /\ Traced' /\ Checkpoints \subseteq Checkpoints'
         /\ \A c \in Checkpoints : /\ Cursor(c)' = Cursor(c) /\ Cursor(c) \in Nat
                                   /\ From(c)' = From(c) /\ From(c) \in Nat
<1>1. Len(log) \in Nat /\ DOMAIN log = 1..Len(log)
  BY DEF Shapes
<1>2. ASSUME NEW c \in Checkpoints
      PROVE  /\ Cursor(c) \in 1..Len(log) /\ Cursor(c) - 1 \in 0..Len(log)
             /\ ParentOf(c) \in Checkpoints \cup {0}
  <2>1. Cursor(c) \in 1..Len(log)
    BY <1>1, CursorIs
  <2>2. Cursor(c) - 1 \in 0..Len(log)
    BY <1>1, <2>1
  <2> QED
    BY <2>1, <2>2, CurrentType DEF ParentOf
<1>3. Cursor(0) = 0
  BY DEF Cursor
<1>4. ASSUME NEW c \in Checkpoints PROVE Cursor(c) \in Nat /\ From(c) \in Nat
  <2>1. \A d \in Checkpoints \cup {0} : Cursor(d) \in Nat
    BY <1>1, <1>2, <1>3
  <2> QED
    BY <1>2, <2>1 DEF From
<1>5. /\ Traced' /\ Checkpoints \subseteq Checkpoints'
      /\ \A c \in Checkpoints : Cursor(c)' = Cursor(c)
      /\ \A i \in 1..Len(log) : log'[i] = log[i]
  <2>1. CASE log' = log
    <3>1. Checkpoints' = Checkpoints
      BY <2>1, SameLog
    <3>2. Traced'
      BY <2>1, <3>1 DEF Traced
    <3>3. ASSUME NEW c \in Checkpoints PROVE Cursor(c)' = Cursor(c)
      <4>1. c # 0
        BY DEF Numbered
      <4>2. \A i : (i \in DOMAIN log /\ log[i].type = "checkpoint" /\ log[i].cp = c)
                   <=> (i \in DOMAIN log' /\ log'[i].type = "checkpoint" /\ log'[i].cp = c)
        BY <2>1
      <4>3. /\ Cursor(c)  = CHOOSE i \in DOMAIN log : log[i].type = "checkpoint" /\ log[i].cp = c
            /\ Cursor(c)' = CHOOSE i \in DOMAIN log' : log'[i].type = "checkpoint" /\ log'[i].cp = c
        BY <4>1 DEF Cursor
      <4> QED
        BY <4>2, <4>3
    <3> QED
      BY <2>1, <3>1, <3>2, <3>3
  <2>2. ASSUME NEW event, Follows(event), log' = Append(log, event)
        PROVE  /\ Traced' /\ Checkpoints \subseteq Checkpoints'
               /\ \A c \in Checkpoints : Cursor(c)' = Cursor(c)
               /\ \A i \in 1..Len(log) : log'[i] = log[i]
    <3>1. \A i \in 1..Len(log) : log'[i] = log[i]
      BY <2>2, Longer DEF Follows
    <3> QED
      BY <2>2, <3>1, FollowsTraced
  <2> QED
    BY <2>1, <2>2, Extends
<1>6. ASSUME NEW c \in Checkpoints PROVE From(c)' = From(c)
  <2>1. PICK n \in 0..Len(log) : n = Cursor(c) - 1
    BY <1>2
  <2>2. CurrentAt(n)' = CurrentAt(n)
    BY <1>1, <1>5, CurrentStays
  <2>3. PICK d \in Checkpoints \cup {0} : d = ParentOf(c)
    BY <1>2
  <2>4. CurrentAt(n) = d /\ CurrentAt(n)' = d
    BY <2>1, <2>2, <2>3 DEF ParentOf
  <2>5. ParentOf(c)' = d
    <3>1. Cursor(c)' - 1 = n
      BY <1>5, <2>1
    <3> QED
      BY <2>4, <3>1 DEF ParentOf, CurrentAt
  <2>6. Cursor(0)' = 0
    BY DEF Cursor
  <2>7. Cursor(d)' = Cursor(d)
    BY <1>3, <1>5, <2>6
  <2> QED
    BY <2>3, <2>5, <2>7 DEF From, Cursor
<1> QED
  BY <1>4, <1>5, <1>6

\* What fits stays so.
LEMMA FitsStay ==
  ASSUME ProjInv, Traced, [Next]_vars
  PROVE  \A b : Fits(b) => Fits(b)'
<1> SUFFICES ASSUME NEW b, Fits(b) PROVE Fits(b)'
  OBVIOUS
<1>1. PICK c \in Checkpoints : c = b.cp
  BY DEF Fits
<1>2. Checkpoints \subseteq Checkpoints' /\ Cursor(c)' = Cursor(c) /\ From(c)' = From(c)
  BY RangesStay DEF ProjInv
<1>3. PICK to, from : to = Cursor(c) /\ from = From(c)
  OBVIOUS
<1>4. /\ b.from = from
      /\ \A claim \in b.claims :
           claim # {} /\ \A e \in claim : IF e.kind = "checkpoint" THEN e.n \in Checkpoints
                                          ELSE e.n > from /\ e.n <= to
  BY <1>1, <1>3 DEF Fits
<1>5. Cursor(b.cp)' = to /\ From(b.cp)' = from
  BY <1>1, <1>2, <1>3
<1>6. \A claim \in b.claims :
        claim # {} /\ \A e \in claim : IF e.kind = "checkpoint" THEN e.n \in Checkpoints'
                                       ELSE e.n > from /\ e.n <= to
  BY <1>2, <1>4
<1> QED
  BY <1>1, <1>2, <1>4, <1>5, <1>6 DEF Fits

\* The steps but two put nothing new, and ask for nothing new but in the right range.
LEMMA PutsStay ==
  ASSUME ProjInv, Next, \A s \in Saves : ~SaveCheckpoint(s), \A o \in Others : ~Answer(o)
  PROVE  (blobs \cup Puts)' \subseteq blobs \cup Puts
<1>0. \A p \in Procs : pc[p] \in Putting => job[p].put \in Puts
  BY DEF Puts
<1> SUFFICES /\ blobs' \subseteq blobs \cup Puts
             /\ \A p \in Procs : pc'[p] \in Putting => pc[p] \in Putting /\ job'[p].put = job[p].put
  BY <1>0 DEF Puts
<1>1. CASE Quiet
  BY <1>1 DEF Quiet
<1>2. ASSUME NEW o \in Others, Distill(o) \/ Reindex(o) \/ Rebuild(o)
      PROVE  /\ blobs' = blobs
             /\ \A p \in Procs : pc'[p] \in Putting => pc[p] \in Putting /\ job'[p].put = job[p].put
  BY <1>2 DEF Distill, Reindex, Rebuild, ProjInv, Shapes, Procs, Putting
<1>3. ASSUME NEW p \in Procs, PutBegin(p) \/ Install(p) \/ SyncDir(p)
      PROVE  /\ blobs' \subseteq blobs \cup Puts
             /\ \A q \in Procs : pc'[q] \in Putting => pc[q] \in Putting /\ job'[q].put = job[q].put
  BY <1>0, <1>3 DEF PutBegin, Install, SyncDir, ProjInv, Shapes, Putting
<1>4. ASSUME NEW p \in Procs, InsertRow(p) \/ PutFails(p) \/ Dies(p)
      PROVE  /\ blobs' = blobs
             /\ \A q \in Procs : pc'[q] \in Putting => pc[q] \in Putting /\ job'[q].put = job[q].put
  BY <1>4 DEF InsertRow, PutFails, Dies, Dead, ProjInv, Shapes, Putting
<1>5. ASSUME PowerLoss
      PROVE  /\ blobs' \subseteq blobs
             /\ \A q \in Procs : pc'[q] \in Putting => pc[q] \in Putting /\ job'[q].put = job[q].put
  BY <1>5 DEF PowerLoss, Dead, ProjInv, Shapes, Stepwise, Putting
<1> QED
  BY <1>1, <1>2, <1>3, <1>4, <1>5, Cases

\* What is asked for stays in the range of its checkpoint.
LEMMA AskedStay ==
  ASSUME ProjInv, Traced, InRange, Next
  PROVE  \A c \in Checkpoints', o \in Others : pc'[o] = "asked" /\ job'[o].cp = c => job'[o].from = From(c)'
<1> SUFFICES ASSUME NEW c, NEW o \in Others, pc'[o] = "asked", job'[o].cp = c
             PROVE  job'[o].from = From(c)'
  OBVIOUS
<1>1. o \in Procs /\ o # Writer
  BY ProjectionsAssumption DEF Procs
<1>2. \/ pc[o] = "asked" /\ job'[o].cp = job[o].cp /\ job'[o].from = job[o].from
      \/ Distill(o)
  <2>1. CASE Quiet
    BY <2>1 DEF Quiet
  <2>2. ASSUME NEW s \in Saves, SaveCheckpoint(s)
        PROVE  pc[o] = "asked" /\ job'[o].cp = job[o].cp /\ job'[o].from = job[o].from
    BY <1>1, <2>2 DEF SaveCheckpoint, ProjInv, Shapes, Procs
  <2>3. ASSUME NEW q \in Others, Distill(q) \/ Answer(q) \/ Reindex(q) \/ Rebuild(q), ~Distill(o)
        PROVE  pc[o] = "asked" /\ job'[o].cp = job[o].cp /\ job'[o].from = job[o].from
    BY <1>1, <2>3 DEF Distill, Answer, Reindex, Rebuild, ProjInv, Shapes, Procs
  <2>4. ASSUME NEW p \in Procs, PutBegin(p) \/ Install(p) \/ SyncDir(p) \/ InsertRow(p) \/ PutFails(p) \/ Dies(p)
        PROVE  pc[o] = "asked" /\ job'[o].cp = job[o].cp /\ job'[o].from = job[o].from
    BY <1>1, <2>4 DEF PutBegin, Install, SyncDir, InsertRow, PutFails, Dies, Dead, ProjInv, Shapes, Procs
  <2>5. CASE PowerLoss
    BY <1>1, <2>5 DEF PowerLoss, Dead
  <2> QED
    BY <2>1, <2>2, <2>3, <2>4, <2>5, Cases
<1>3. \A d \in Checkpoints : From(d)' = From(d)
  BY RangesStay DEF ProjInv
<1>4. CASE pc[o] = "asked" /\ job'[o].cp = job[o].cp /\ job'[o].from = job[o].from
  <2>1. c \in Checkpoints /\ job[o].cp = c
    BY <1>4 DEF ProjInv, Numbered
  <2> QED
    BY <1>3, <1>4, <2>1 DEF InRange
<1>5. CASE Distill(o)
  <2>1. PICK d \in Checkpoints :
          \E from : /\ from = Cursor(ParentOf(d))
                   /\ job' = [job EXCEPT ![o] = [NoJob EXCEPT !.cp = d, !.from = from]]
    BY <1>5 DEF Distill, RequestFits
  <2>2. PICK from : /\ from = Cursor(ParentOf(d))
                  /\ job' = [job EXCEPT ![o] = [NoJob EXCEPT !.cp = d, !.from = from]]
    BY <2>1
  <2>3. job'[o].cp = d /\ job'[o].from = from
    BY <1>1, <2>2 DEF ProjInv, Shapes, NoJob
  <2> QED
    BY <1>3, <2>2, <2>3 DEF From
<1> QED
  BY <1>2, <1>4, <1>5

-----------------------------------------------------------------------------
(* The event of a save.                                                      *)

\* A save that is recorded, or was rejected, has one declared event; one that
\* was not called, or not recorded, has none.
Told ==
  /\ DOMAIN saves = Saves
  /\ \A i \in DOMAIN log, s \in Saves :
       log[i].type = "declared" /\ log[i].save = s => saves[s] \notin {"none", "called"}
  /\ \A i, j \in DOMAIN log, s \in Saves :
       /\ log[i].type = "declared" /\ log[i].save = s
       /\ log[j].type = "declared" /\ log[j].save = s
       => i = j
  /\ \A s \in Saves : saves[s] \in {"recorded", "rejected"} =>
       \E i \in DOMAIN log : log[i].type = "declared" /\ log[i].save = s

\* A save's status moves forward.
Forward(s) ==
  /\ saves'[s] \in {"none", "called"} => saves[s] \in {"none", "called"}
  /\ saves'[s] \in {"recorded", "rejected"} => saves[s] \in {"recorded", "rejected"} \/ Record(s)
  /\ saves'[s] = "rejected" => saves[s] = "rejected" \/ SaveRejected(s)

\* Every step moves it so.
LEMMA Statuses ==
  ASSUME Told, Next
  PROVE  DOMAIN saves' = Saves /\ \A s \in Saves : Forward(s)
<1> USE DEF Told
<1>1. CASE saves' = saves
  BY <1>1 DEF Forward
<1>2. ASSUME NEW t \in Saves, CallSave(t)
      PROVE  saves[t] = "none" /\ saves' = [saves EXCEPT ![t] = "called"]
  BY <1>2 DEF CallSave
<1>3. ASSUME NEW t \in Saves, Record(t) PROVE saves' = [saves EXCEPT ![t] = "recorded"]
  BY <1>3 DEF Record
<1>4. ASSUME NEW t \in Saves, SaveRejected(t)
      PROVE  saves[t] = "recorded" /\ saves' = [saves EXCEPT ![t] = "rejected"]
  BY <1>4 DEF SaveRejected, Settle
<1>5. ASSUME NEW p \in Procs, InsertRow(p) \/ PutFails(p)
      PROVE  saves' = saves \/ \E t : \E status \in {"resolved", "failed"} : saves' = [saves EXCEPT ![t] = status]
  <2>1. \E status \in {"resolved", "failed"} : Settled(p, status)
    BY <1>5 DEF InsertRow, PutFails
  <2>2. PICK status \in {"resolved", "failed"} : Settled(p, status)
    BY <2>1
  <2>3. saves' = saves \/ Settle(log[Len(log)].save, status)
    BY <2>2 DEF Settled
  <2>4. PICK t : t = log[Len(log)].save
    OBVIOUS
  <2>5. saves' = saves \/ saves' = [saves EXCEPT ![t] = status]
    BY <2>3, <2>4 DEF Settle
  <2> QED
    BY <2>5
<1>6. ASSUME (\E p \in Procs : Dies(p)) \/ PowerLoss
      PROVE  saves' = saves \/ saves' = [s \in Saves |-> IF s \in ToSet(line) THEN "died" ELSE saves[s]]
  BY <1>6 DEF Dies, PowerLoss, Dead
<1>7. \/ saves' = saves
      \/ \E t \in Saves : CallSave(t) \/ Record(t) \/ SaveRejected(t)
      \/ \E p \in Procs : InsertRow(p) \/ PutFails(p) \/ Dies(p)
      \/ PowerLoss
  BY DEF Next, SaveCheckpoint, OtherCheckpoint, Restore, Close, Distill, Answer, Reindex, Rebuild,
         PutBegin, Install, SyncDir
<1> HIDE DEF Told
<1>8. DOMAIN saves = Saves
  BY DEF Told
<1>9. ASSUME NEW t \in Saves, CallSave(t) \/ Record(t) \/ SaveRejected(t)
      PROVE  DOMAIN saves' = Saves /\ \A s \in Saves : Forward(s)
  BY <1>2, <1>3, <1>4, <1>8, <1>9 DEF Forward
<1>10. ASSUME (\E p \in Procs : InsertRow(p) \/ PutFails(p) \/ Dies(p)) \/ PowerLoss
      PROVE  DOMAIN saves' = Saves /\ \A s \in Saves : Forward(s)
  BY <1>5, <1>6, <1>8, <1>10 DEF Forward
<1> QED
  BY <1>1, <1>7, <1>8, <1>9, <1>10 DEF Forward

\* A save is recorded once.
LEMMA StepTold ==
  ASSUME Shapes, Numbered, Told, Next
  PROVE  Told'
<1>1. DOMAIN saves' = Saves /\ \A s \in Saves : Forward(s)
  BY Statuses
<1>2. CASE \E s \in Saves : Record(s)
  <2>1. PICK s \in Saves : Record(s)
    BY <1>2
  <2> DEFINE event == [type |-> "declared", cp |-> 0, save |-> s]
  <2>2. event \in Events /\ log' = Append(log, event)
    BY <2>1 DEF Record, Append1, Events
  <2>3. /\ DOMAIN log = 1..Len(log) /\ DOMAIN log' = 1..(Len(log) + 1)
        /\ \A i \in 1..Len(log) : log'[i] = log[i] /\ i \in 1..(Len(log) + 1) /\ i # Len(log) + 1
        /\ \A i \in 1..(Len(log) + 1) : i \in 1..Len(log) \/ i = Len(log) + 1
        /\ log'[Len(log) + 1] = event /\ Len(log) + 1 \in 1..(Len(log) + 1)
    <3>1. Len(log) + 1 \in 1..(Len(log) + 1)
      BY DEF Shapes
    <3> QED
      BY <2>2, <3>1, Longer
  <2>4. event.type = "declared" /\ event.save = s
    OBVIOUS
  <2>5. saves[s] = "called" /\ saves' = [saves EXCEPT ![s] = "recorded"]
    BY <2>1 DEF Record
  <2>6. \A i \in DOMAIN log : ~(log[i].type = "declared" /\ log[i].save = s)
    BY <2>5 DEF Told
  <2>7. saves'[s] = "recorded" /\ \A t \in Saves : t # s => saves'[t] = saves[t]
    BY <2>5 DEF Told
  <2> HIDE DEF event
  <2>8. PICK n : n = Len(log) + 1
    OBVIOUS
  <2>9. /\ n \in DOMAIN log' /\ \A i \in DOMAIN log' : i \in DOMAIN log \/ i = n
        /\ log'[n].type = "declared" /\ log'[n].save = s
        /\ \A i \in DOMAIN log : i \in DOMAIN log' /\ log'[i] = log[i]
    BY <2>3, <2>4, <2>8
  <2> QED
    BY <1>1, <2>6, <2>7, <2>9 DEF Told, Forward
<1>3. ASSUME ~ \E s \in Saves : Record(s)
      PROVE  \A i \in DOMAIN log', s \in Saves : log'[i].type = "declared" /\ log'[i].save = s =>
               i \in DOMAIN log /\ log[i] = log'[i]
  <2>1. CASE log' = log
    BY <2>1
  <2>2. ASSUME NEW event \in Events, event.type # "declared", log' = Append(log, event)
        PROVE  \A i \in DOMAIN log', s \in Saves : log'[i].type = "declared" /\ log'[i].save = s =>
                 i \in DOMAIN log /\ log[i] = log'[i]
    BY <2>2, Longer
  <2>3. log' = log \/ \E event \in Events : event.type # "declared" /\ log' = Append(log, event)
    BY <1>3, Extends DEF Follows
  <2> QED
    BY <2>1, <2>2, <2>3
<1>4. \A i \in DOMAIN log : i \in DOMAIN log' /\ log'[i] = log[i]
  <2>1. ASSUME NEW event, Follows(event), log' = Append(log, event)
        PROVE  \A i \in DOMAIN log : i \in DOMAIN log' /\ log'[i] = log[i]
    BY <2>1, Longer DEF Follows
  <2> QED
    BY <2>1, Extends
<1>5. CASE ~ \E s \in Saves : Record(s)
  BY <1>1, <1>3, <1>4, <1>5 DEF Told, Forward
<1> QED
  BY <1>2, <1>5

-----------------------------------------------------------------------------
(* What is put is in range.                                                  *)

\* A declared projection cites its save's event, which is after the parent's cursor.
LEMMA DeclaredFits ==
  ASSUME ProjInv, Traced, Told, NEW s \in Saves, SaveCheckpoint(s)
  PROVE  \E put : job'[Writer].put = put /\ Fits(put)'
<1>0. PICK c, event : c = Cardinality(Checkpoints) + 1 /\ event = [type |-> "checkpoint", cp |-> c, save |-> s]
  OBVIOUS
<1>1. c \in Nat /\ c \notin Checkpoints /\ c # 0
  <2>1. c \in Nat /\ c \notin Checkpoints
    BY <1>0, NextNumber DEF ProjInv
  <2>2. Cardinality(Checkpoints) \in Nat
    BY FS_Interval DEF ProjInv, Numbered
  <2> QED
    BY <1>0, <2>1, <2>2
<1>2. event \in Events /\ event.type = "checkpoint" /\ event.cp = c
  BY <1>0, <1>1 DEF Events
<1>3. /\ log' = Append(log, event) /\ job' = [job EXCEPT ![Writer].put = Declared(s, c)]
      /\ saves[s] = "recorded" /\ DeclaredAt(s) > Cursor(Current)
  BY <1>0 DEF SaveCheckpoint, Append1, AssertDeclaredEvents
<1>4. Follows(event)
  BY <1>0, <1>2 DEF Follows
<1>5. /\ DOMAIN log = 1..Len(log) /\ DOMAIN log' = 1..(Len(log) + 1) /\ Len(log) \in Nat
      /\ \A i \in 1..Len(log) : log'[i] = log[i] /\ i \in 1..(Len(log) + 1) /\ i # Len(log) + 1
      /\ \A i \in 1..(Len(log) + 1) : i \in 1..Len(log) \/ i = Len(log) + 1
      /\ log'[Len(log) + 1] = event
  BY <1>2, <1>3, Longer DEF ProjInv
<1>6. /\ Checkpoints \subseteq Checkpoints' /\ \A d \in Checkpoints : Cursor(d)' = Cursor(d)
  BY <1>3, <1>4, FollowsTraced DEF ProjInv
<1>7. c \in Checkpoints'
  BY <1>2, <1>3, Appended DEF ProjInv
<1>8. PICK n \in Nat : n = Len(log)
  BY <1>5
<1>9. Cursor(c)' = n + 1
  <2>1. \A i \in DOMAIN log : ~(log[i].type = "checkpoint" /\ log[i].cp = c)
    BY <1>1 DEF Checkpoints
  <2>2. n + 1 \in DOMAIN log'
    BY <1>5, <1>8
  <2>3. \A i \in DOMAIN log' : (log'[i].type = "checkpoint" /\ log'[i].cp = c) <=> i = n + 1
    BY <1>2, <1>5, <1>8, <2>1
  <2>4. Cursor(c)' = CHOOSE i \in DOMAIN log' : log'[i].type = "checkpoint" /\ log'[i].cp = c
    BY <1>1 DEF Cursor
  <2> QED
    BY <2>2, <2>3, <2>4
<1>10. PICK d \in Checkpoints \cup {0} : d = Current
  <2>1. n \in 0..Len(log)
    BY <1>8
  <2> QED
    BY <1>8, <2>1, CurrentType DEF ProjInv, Current
<1>11. From(c)' = Cursor(d)
  <2>1. n \in 0..Len(log)
    BY <1>8
  <2>2. CurrentAt(n)' = CurrentAt(n)
    BY <1>5, <2>1, CurrentStays DEF ProjInv
  <2>3. CurrentAt(n)' = d
    BY <1>8, <1>10, <2>2 DEF Current
  <2>4. Cursor(c)' - 1 = n
    BY <1>9
  <2>5. ParentOf(c)' = d
    BY <2>3, <2>4 DEF ParentOf, CurrentAt
  <2>6. Cursor(0)' = 0 /\ Cursor(0) = 0
    BY DEF Cursor
  <2>7. Cursor(d)' = Cursor(d)
    BY <1>6, <2>6
  <2> QED
    BY <2>5, <2>7 DEF From, Cursor
<1>12. PICK at : at = DeclaredAt(s)
  OBVIOUS
<1>13. PICK from : from = Cursor(d)
  OBVIOUS
<1>14. at \in 1..n /\ at > from
  <2>1. \E i \in DOMAIN log : log[i].type = "declared" /\ log[i].save = s
    BY <1>3 DEF Told
  <2>2. DeclaredAt(s) \in DOMAIN log
    BY <2>1 DEF DeclaredAt
  <2> QED
    BY <1>3, <1>5, <1>8, <1>10, <1>12, <1>13, <2>2
<1>15. PICK put : put = [id |-> <<"declared", c>>, cp |-> c, source |-> "declared", from |-> from,
                         claims |-> {{[kind |-> "event", n |-> at]}}, cost |-> 0]
  OBVIOUS
<1>16. job'[Writer].put = put
  <2>1. put = Declared(s, c)
    BY <1>10, <1>12, <1>13, <1>15 DEF Declared
  <2> QED
    BY <1>3, <2>1 DEF ProjInv, Shapes, Procs
<1>17. Fits(put)'
  <2>1. put.cp = c /\ put.from = from /\ put.claims = {{[kind |-> "event", n |-> at]}}
    BY <1>15
  <2>2. at <= n + 1
    BY <1>14
  <2>3. Cursor(put.cp)' = n + 1 /\ From(put.cp)' = from
    BY <1>9, <1>11, <1>13, <2>1
  <2>4. \A claim \in put.claims : claim # {} /\ \A e \in claim : e.kind = "event" /\ e.n = at
    <3>1. PICK evidence : evidence = [kind |-> "event", n |-> at]
      OBVIOUS
    <3>2. evidence.kind = "event" /\ evidence.n = at
      BY <3>1
    <3>3. \A claim \in put.claims : claim = {evidence}
      BY <2>1, <3>1
    <3> QED
      BY <3>2, <3>3
  <2> QED
    BY <1>7, <1>14, <2>1, <2>2, <2>3, <2>4 DEF Fits
<1> QED
  BY <1>16, <1>17

\* The claims kept of a reply cite what was asked for.
LEMMA KeptFits ==
  ASSUME NEW claims, NEW from \in Nat, NEW to \in Nat
  PROVE  \A claim \in Kept(claims, from, to) :
           claim # {} /\ \A e \in claim : IF e.kind = "checkpoint" THEN e.n \in Checkpoints
                                          ELSE e.n > from /\ e.n <= to
<1> SUFFICES ASSUME NEW claim \in Kept(claims, from, to), NEW e \in claim
             PROVE  IF e.kind = "checkpoint" THEN e.n \in Checkpoints ELSE e.n > from /\ e.n <= to
  BY DEF Kept
<1>1. e \in Evidence(from, to)
  BY DEF Kept
<1>2. \/ e.kind \in {"event", "artifact"} /\ e.n \in (from + 1)..to
      \/ e.kind = "checkpoint" /\ e.n \in Checkpoints
  BY <1>1 DEF Evidence
<1> QED
  BY <1>2

\* So a distilled projection is in range.
LEMMA DistilledFits ==
  ASSUME ProjInv, Traced, InRange, Next, NEW o \in Others, Answer(o), pc'[o] = "put"
  PROVE  \E put : job'[o].put = put /\ Fits(put)'
<1>1. o \in Procs
  BY DEF Procs
<1>2. PICK c \in Checkpoints : c = job[o].cp
  BY DEF Answer, ProjInv, Numbered
<1>3. Cursor(c) \in Nat /\ From(c) \in Nat
  BY RangesStay DEF ProjInv
<1>4. job[o].from = From(c)
  BY <1>2 DEF Answer, InRange
<1>5. PICK claims, put :
        /\ job' = [job EXCEPT ![o].put = put]
        /\ put.cp = job[o].cp /\ put.from = job[o].from
        /\ put.claims = Kept(claims, job[o].from, Cursor(job[o].cp))
  <2>1. pc' # [pc EXCEPT ![o] = "idle"]
    BY <1>1 DEF ProjInv, Shapes
  <2>2. PICK cost, claims :
          job' = [job EXCEPT ![o].put =
                    [id |-> <<"proj", distills, o>>, cp |-> job[o].cp, source |-> "distilled",
                     from |-> job[o].from, cost |-> cost,
                     claims |-> Kept(claims, job[o].from, Cursor(job[o].cp))]]
    BY <2>1, Zenon DEF Answer
  <2>3. PICK put : put = [id |-> <<"proj", distills, o>>, cp |-> job[o].cp, source |-> "distilled",
                          from |-> job[o].from, cost |-> cost,
                          claims |-> Kept(claims, job[o].from, Cursor(job[o].cp))]
    OBVIOUS
  <2>4. put.cp = job[o].cp /\ put.from = job[o].from /\ put.claims = Kept(claims, job[o].from, Cursor(job[o].cp))
    BY <2>3
  <2> QED
    BY <2>2, <2>3, <2>4
<1>6. job'[o].put = put
  BY <1>1, <1>5 DEF ProjInv, Shapes
<1>7. \A claim \in put.claims :
        claim # {} /\ \A e \in claim : IF e.kind = "checkpoint" THEN e.n \in Checkpoints
                                       ELSE e.n > From(c) /\ e.n <= Cursor(c)
  BY <1>2, <1>3, <1>4, <1>5, KeptFits
<1>8. Fits(put)
  BY <1>2, <1>4, <1>5, <1>7 DEF Fits
<1>9. Fits(put)'
  BY <1>8, FitsStay
<1> QED
  BY <1>6, <1>9

\* Every put stays in range.
LEMMA StepInRange ==
  ASSUME ProjInv, Traced, Told, InRange, Next
  PROVE  InRange'
<1>1. \A b \in blobs \cup Puts : Fits(b)'
  BY FitsStay DEF InRange
<1>2. ASSUME NEW b \in (blobs \cup Puts)' PROVE Fits(b)'
  <2>1. ASSUME NEW s \in Saves, SaveCheckpoint(s) PROVE b \in blobs \cup Puts \cup {job'[Writer].put}
    <3>1. blobs' = blobs /\ \A p \in Procs \ {Writer} : job'[p] = job[p] /\ pc'[p] = pc[p]
      BY <2>1, SaveCheckpointStep DEF ProjInv, Shapes
    <3> QED
      BY <3>1 DEF Puts
  <2>2. ASSUME NEW o \in Others, Answer(o)
        PROVE  \/ b \in blobs \cup Puts
               \/ b = job'[o].put /\ pc'[o] = "put"
    <3>1. /\ blobs' = blobs /\ \A p \in Procs \ {o} : job'[p] = job[p] /\ pc'[p] = pc[p]
          /\ pc'[o] \in {"idle", "put"}
      BY <2>2, AnswerStep DEF ProjInv, Shapes, Procs
    <3> QED
      BY <3>1 DEF Puts, Putting
  <2>3. CASE b \in blobs \cup Puts
    BY <1>1, <2>3
  <2>4. ASSUME NEW s \in Saves, SaveCheckpoint(s), b = job'[Writer].put PROVE Fits(b)'
    BY <2>4, DeclaredFits
  <2>5. ASSUME NEW o \in Others, Answer(o), b = job'[o].put, pc'[o] = "put" PROVE Fits(b)'
    BY <2>5, DistilledFits
  <2> QED
    BY <2>1, <2>2, <2>3, <2>4, <2>5, PutsStay
<1> QED
  BY <1>2, AskedStay DEF InRange

-----------------------------------------------------------------------------
(* The saves of one Ckpt take turns.                                         *)

\* The recorded save is the first of the line, and the one whose projection is put.
Turns ==
  /\ line \in Seq(Saves)
  /\ \A s \in Saves : saves[s] = "recorded" => line # <<>> /\ Head(line) = s
  /\ pc[Writer] \in Putting =>
       log # <<>> /\ log[Len(log)].save \in Saves /\ saves[log[Len(log)].save] = "recorded"

\* Between a save's event and its checkpoint, only other callers append.
Alone ==
  \A s \in Saves, i, j \in DOMAIN log :
    saves[s] = "recorded" /\ log[i].type = "declared" /\ log[i].save = s /\ i < j =>
      log[j].save = None \/ pc[Writer] \in Putting

\* One of them made a rejected save's event stale.
Excused ==
  \A s \in Saves, i \in DOMAIN log :
    saves[s] = "rejected" /\ log[i].type = "declared" /\ log[i].save = s =>
      \E j \in DOMAIN log : i < j /\ log[j].type # "declared" /\ log[j].save = None

\* A step that leaves the saves alone, and what the writer puts.
Apart ==
  /\ UNCHANGED <<saves, line>>
  /\ pc'[Writer] \in Putting <=> pc[Writer] \in Putting
  /\ \/ log' = log
     \/ pc[Writer] \notin Putting /\ \E event \in Events : event.save = None /\ log' = Append(log, event)

\* The save whose projection was put settles.
PutSettles ==
  /\ pc[Writer] \in Putting /\ pc'[Writer] = "idle" /\ log' = log
  /\ \E status \in {"resolved", "failed"} : Settle(log[Len(log)].save, status)

\* The saves that were not settled die with the writer.
WriterDies ==
  /\ pc'[Writer] = "idle" /\ log' = log /\ line' = <<>>
  /\ saves' = [s \in Saves |-> IF s \in ToSet(line) THEN "died" ELSE saves[s]]

\* What a step does to the saves.
LEMMA SaveCases ==
  ASSUME Shapes, Numbered, Owned, Next
  PROVE  \/ Apart \/ PutSettles \/ WriterDies
         \/ \E s \in Saves : CallSave(s) \/ Record(s) \/ SaveCheckpoint(s) \/ SaveRejected(s)
<1>1. Writer \in Procs /\ Writer \notin Others /\ Others \subseteq Procs
  BY ProjectionsAssumption DEF Procs
<1>2. ASSUME OtherCheckpoint \/ Restore PROVE Apart
  <2>1. ASSUME OtherCheckpoint PROVE \E event \in Events : event.save = None /\ log' = Append(log, event)
    <3>1. [type |-> "checkpoint", cp |-> Cardinality(Checkpoints) + 1, save |-> None] \in Events
      BY NextNumber DEF Events
    <3> QED
      BY <2>1, <3>1 DEF OtherCheckpoint, Append1
  <2>2. ASSUME Restore PROVE \E event \in Events : event.save = None /\ log' = Append(log, event)
    <3>1. PICK c \in Checkpoints : Append1([type |-> "resumed", cp |-> c, save |-> None])
      BY <2>2 DEF Restore
    <3>2. [type |-> "resumed", cp |-> c, save |-> None] \in Events
      BY DEF Events, Numbered
    <3> QED
      BY <3>1, <3>2 DEF Append1
  <2>3. UNCHANGED <<saves, line, pc>> /\ pc[Writer] \notin Putting
    BY <1>2 DEF OtherCheckpoint, Restore, EngineFree, Putting
  <2> QED
    BY <1>2, <2>1, <2>2, <2>3 DEF Apart
<1>3. ASSUME Close PROVE Apart
  BY <1>3 DEF Close, Apart
<1>4. ASSUME NEW o \in Others, Distill(o) \/ Answer(o) \/ Reindex(o) \/ Rebuild(o) PROVE Apart
  BY <1>1, <1>4 DEF Distill, Answer, Reindex, Rebuild, Apart, Shapes
<1>5. ASSUME NEW p \in Procs, PutBegin(p) \/ Install(p) \/ SyncDir(p) PROVE Apart
  BY <1>1, <1>5 DEF PutBegin, Install, SyncDir, Apart, Shapes, Putting
<1>6. ASSUME NEW p \in Procs, InsertRow(p) \/ PutFails(p) PROVE Apart \/ PutSettles
  <2>1. /\ pc[p] \in Putting /\ pc' = [pc EXCEPT ![p] = "idle"] /\ log' = log
        /\ \E status \in {"resolved", "failed"} : Settled(p, status)
    BY <1>6 DEF InsertRow, PutFails, Putting
  <2>2. CASE p = Writer
    <3>1. \E status \in {"resolved", "failed"} : Settle(log[Len(log)].save, status)
      BY <2>1, <2>2 DEF Settled
    <3>2. pc[Writer] \in Putting /\ pc'[Writer] = "idle"
      BY <1>1, <2>1, <2>2 DEF Shapes
    <3> QED
      BY <2>1, <3>1, <3>2 DEF PutSettles
  <2>3. CASE p # Writer
    <3>1. UNCHANGED <<saves, line>>
      BY <2>1, <2>3 DEF Settled
    <3>2. pc'[Writer] = pc[Writer]
      BY <1>1, <2>1, <2>3 DEF Shapes
    <3> QED
      BY <2>1, <3>1, <3>2 DEF Apart
  <2> QED
    BY <2>2, <2>3
<1>7. ASSUME NEW ps \in SUBSET Procs, Dead(ps), log' = log PROVE Apart \/ WriterDies
  <2>1. CASE Writer \in ps
    <3>1. pc'[Writer] = "idle"
      BY <1>1, <1>7, <2>1 DEF Dead
    <3> QED
      BY <1>7, <2>1, <3>1 DEF Dead, WriterDies
  <2>2. CASE Writer \notin ps
    <3>1. pc'[Writer] = pc[Writer]
      BY <1>1, <1>7, <2>2 DEF Dead
    <3> QED
      BY <1>7, <2>2, <3>1 DEF Dead, Apart
  <2> QED
    BY <2>1, <2>2
<1>8. ASSUME (\E p \in Procs : Dies(p)) \/ PowerLoss PROVE Apart \/ WriterDies
  <2>1. \E ps \in SUBSET Procs : Dead(ps) /\ log' = log
    BY <1>8 DEF Dies, PowerLoss
  <2> QED
    BY <1>7, <2>1
<1> QED
  BY <1>2, <1>3, <1>4, <1>5, <1>6, <1>8 DEF Next

\* The line moves on when its first save settles.
LEMMA StepTurns ==
  ASSUME Shapes, Numbered, Owned, Told, Turns, Next
  PROVE  Turns'
<1>1. CASE Apart
  <2>1. pc'[Writer] \in Putting => log' = log /\ pc[Writer] \in Putting
    BY <1>1 DEF Apart
  <2> QED
    BY <1>1, <2>1 DEF Apart, Turns
<1>2. ASSUME NEW s \in Saves, s = Head(line), line # <<>>, line' = Tail(line), pc'[Writer] \notin Putting,
             NEW status, status # "recorded", saves' = [saves EXCEPT ![s] = status]
      PROVE  Turns'
  <2>1. line' \in Seq(Saves)
    BY <1>2 DEF Turns
  <2>2. \A t \in Saves : saves'[t] # "recorded"
    BY <1>2 DEF Told, Turns
  <2> QED
    BY <1>2, <2>1, <2>2 DEF Turns
<1>3. CASE PutSettles
  <2>1. PICK status \in {"resolved", "failed"} : Settle(log[Len(log)].save, status)
    BY <1>3 DEF PutSettles
  <2>2. PICK s \in Saves : s = log[Len(log)].save /\ saves[s] = "recorded"
    BY <1>3 DEF PutSettles, Turns
  <2>3. s = Head(line) /\ line # <<>>
    BY <2>2 DEF Turns
  <2>4. line' = Tail(line) /\ saves' = [saves EXCEPT ![s] = status]
    BY <2>1, <2>2 DEF Settle
  <2>5. pc'[Writer] \notin Putting
    BY <1>3 DEF PutSettles, Putting
  <2> QED
    BY <1>2, <2>3, <2>4, <2>5
<1>4. CASE WriterDies
  <2>1. \A s \in Saves : saves[s] = "recorded" => s \in ToSet(line)
    <3>1. line # <<>> => Head(line) \in ToSet(line)
      BY DEF ToSet, Turns
    <3> QED
      BY <3>1 DEF Turns
  <2>2. \A s \in Saves : saves'[s] # "recorded"
    BY <1>4, <2>1 DEF WriterDies
  <2>3. pc'[Writer] \notin Putting /\ line' = <<>>
    BY <1>4 DEF WriterDies, Putting
  <2> QED
    BY <2>2, <2>3 DEF Turns
<1>5. ASSUME NEW s \in Saves, CallSave(s) PROVE Turns'
  <2>1. line' \in Seq(Saves) /\ line' # <<>> /\ (line # <<>> => Head(line') = Head(line))
    BY <1>5 DEF CallSave, Turns
  <2>2. \A t \in Saves : saves'[t] = "recorded" => saves[t] = "recorded"
    BY <1>5 DEF CallSave, Told
  <2>3. \A t \in Saves : saves[t] = "recorded" => saves'[t] = "recorded"
    BY <1>5 DEF CallSave, Told
  <2>4. log' = log /\ pc' = pc
    BY <1>5 DEF CallSave
  <2> QED
    BY <2>1, <2>2, <2>3, <2>4 DEF Turns
<1>6. ASSUME NEW s \in Saves, Record(s) PROVE Turns'
  <2>1. line' = line /\ line # <<>> /\ Head(line) = s /\ pc'[Writer] \notin Putting
    BY <1>6 DEF Record, Turn, EngineFree, Putting
  <2>2. \A t \in Saves : saves'[t] = "recorded" => t = s \/ saves[t] = "recorded"
    BY <1>6 DEF Record, Told
  <2> QED
    BY <2>1, <2>2 DEF Turns
<1>7. ASSUME NEW s \in Saves, SaveCheckpoint(s) PROVE Turns'
  <2>1. PICK event \in Events : event.save = s /\ log' = Append(log, event)
    <3>1. [type |-> "checkpoint", cp |-> Cardinality(Checkpoints) + 1, save |-> s] \in Events
      BY NextNumber DEF Events
    <3> QED
      BY <1>7, <3>1 DEF SaveCheckpoint, Append1
  <2>2. log' # <<>> /\ log'[Len(log')] = event
    BY <2>1 DEF Shapes
  <2>3. line' = line /\ saves' = saves /\ saves[s] = "recorded"
    BY <1>7 DEF SaveCheckpoint
  <2> QED
    BY <2>1, <2>2, <2>3 DEF Turns
<1>8. ASSUME NEW s \in Saves, SaveRejected(s) PROVE Turns'
  <2>1. line # <<>> /\ s = Head(line) /\ pc'[Writer] \notin Putting
    BY <1>8 DEF SaveRejected, Turn, EngineFree, Putting
  <2> QED
    BY <1>2, <1>8, <2>1 DEF SaveRejected, Settle
<1> QED
  BY <1>1, <1>3, <1>4, <1>5, <1>6, <1>7, <1>8, SaveCases

\* A save stays recorded if no step but another caller's, or its own, is taken.
LEMMA StillRecorded ==
  ASSUME Shapes, Numbered, Owned, Told, Turns, Next, NEW s \in Saves, saves'[s] = "recorded"
  PROVE  \/ Record(s)
         \/ pc'[Writer] = "put"
         \/ saves[s] = "recorded" /\ log' = log /\ (pc[Writer] \in Putting => pc'[Writer] \in Putting)
         \/ /\ saves[s] = "recorded" /\ pc[Writer] \notin Putting
            /\ \E event \in Events : event.save = None /\ log' = Append(log, event)
<1>1. CASE Apart
  BY <1>1 DEF Apart
<1>2. CASE PutSettles
  <2>1. PICK status \in {"resolved", "failed"} : Settle(log[Len(log)].save, status)
    BY <1>2 DEF PutSettles
  <2>2. PICK t \in Saves : t = log[Len(log)].save /\ saves[t] = "recorded" /\ t = Head(line)
    BY <1>2 DEF PutSettles, Turns
  <2>3. saves' = [saves EXCEPT ![t] = status]
    BY <2>1, <2>2 DEF Settle
  <2>4. t = s
    BY <2>2, <2>3 DEF Told, Turns
  <2> QED
    BY <2>3, <2>4 DEF Told
<1>3. CASE WriterDies
  <2>1. saves[s] = "recorded" /\ s \notin ToSet(line)
    BY <1>3 DEF WriterDies
  <2>2. line # <<>> => Head(line) \in ToSet(line)
    BY DEF ToSet, Turns
  <2> QED
    BY <2>1, <2>2 DEF Turns
<1>4. ASSUME NEW t \in Saves, CallSave(t) \/ SaveRejected(t)
      PROVE  saves[s] = "recorded" /\ log' = log /\ pc' = pc
  BY <1>4 DEF CallSave, SaveRejected, Settle, Told
<1>5. ASSUME NEW t \in Saves, Record(t) PROVE Record(s)
  <2>1. CASE t = s
    BY <1>5, <2>1
  <2>2. CASE t # s
    <3>1. saves[s] = "recorded" /\ saves[t] = "called" /\ Head(line) = t
      BY <1>5, <2>2 DEF Record, Told, Turn
    <3> QED
      BY <2>2, <3>1 DEF Turns
  <2> QED
    BY <2>1, <2>2
<1>6. ASSUME NEW t \in Saves, SaveCheckpoint(t) PROVE pc'[Writer] = "put"
  BY <1>6, ProjectionsAssumption DEF SaveCheckpoint, Shapes, Procs
<1> QED
  BY <1>1, <1>2, <1>3, <1>4, <1>5, <1>6, SaveCases

\* So only other callers append between its event and its checkpoint.
LEMMA StepAlone ==
  ASSUME Shapes, Numbered, Owned, Told, Turns, Alone, Next
  PROVE  Alone'
<1> SUFFICES ASSUME NEW s \in Saves, NEW i \in DOMAIN log', NEW j \in DOMAIN log',
                    saves'[s] = "recorded", log'[i].type = "declared", log'[i].save = s, i < j
             PROVE  log'[j].save = None \/ pc'[Writer] \in Putting
  BY DEF Alone
<1>1. CASE Record(s)
  <2>1. PICK event \in Events : event.type = "declared" /\ event.save = s /\ log' = Append(log, event)
    <3>1. [type |-> "declared", cp |-> 0, save |-> s] \in Events
      BY DEF Events
    <3> QED
      BY <1>1, <3>1 DEF Record, Append1
  <2>2. \A k \in DOMAIN log : ~(log[k].type = "declared" /\ log[k].save = s)
    BY <1>1 DEF Record, Told
  <2>3. /\ Len(log) \in Nat /\ DOMAIN log = 1..Len(log) /\ DOMAIN log' = 1..(Len(log) + 1)
        /\ \A k \in 1..Len(log) : log'[k] = log[k]
    BY <2>1, Longer
  <2>4. i \notin 1..Len(log)
    BY <2>2, <2>3
  <2> QED
    BY <2>3, <2>4
<1>2. CASE pc'[Writer] = "put"
  BY <1>2 DEF Putting
<1>3. CASE saves[s] = "recorded" /\ log' = log /\ (pc[Writer] \in Putting => pc'[Writer] \in Putting)
  BY <1>3 DEF Alone
<1>4. ASSUME saves[s] = "recorded", pc[Writer] \notin Putting,
             NEW event \in Events, event.save = None, log' = Append(log, event)
      PROVE  log'[j].save = None
  <2>1. /\ Len(log) \in Nat /\ DOMAIN log = 1..Len(log) /\ DOMAIN log' = 1..(Len(log) + 1)
        /\ \A k \in 1..Len(log) : log'[k] = log[k]
        /\ log'[Len(log) + 1] = event
    BY <1>4, Longer
  <2>2. CASE j = Len(log) + 1
    BY <1>4, <2>1, <2>2
  <2>3. CASE j \in DOMAIN log
    <3>1. i \in DOMAIN log
      BY <2>1, <2>3
    <3>2. log[i].type = "declared" /\ log[i].save = s /\ log'[j] = log[j]
      BY <2>1, <2>3, <3>1
    <3> QED
      BY <1>4, <2>3, <3>1, <3>2 DEF Alone
  <2> QED
    BY <2>1, <2>2, <2>3
<1> QED
  BY <1>1, <1>2, <1>3, <1>4, StillRecorded

\* When a save is rejected, the current checkpoint is later than its event.
LEMMA StepExcused ==
  ASSUME Shapes, Numbered, Traced, Told, Turns, Alone, Excused, Next
  PROVE  Excused'
<1>1. \A i \in DOMAIN log : i \in DOMAIN log' /\ log'[i] = log[i]
  <2>1. ASSUME NEW event, Follows(event), log' = Append(log, event)
        PROVE  \A i \in DOMAIN log : i \in DOMAIN log' /\ log'[i] = log[i]
    BY <2>1, Longer DEF Follows
  <2> QED
    BY <2>1, Extends
<1>2. ASSUME NEW s \in Saves, NEW i \in DOMAIN log, log[i].type = "declared", log[i].save = s,
             saves[s] = "rejected"
      PROVE  \E j \in DOMAIN log' : i < j /\ log'[j].type # "declared" /\ log'[j].save = None
  <2>1. PICK j \in DOMAIN log : i < j /\ log[j].type # "declared" /\ log[j].save = None
    BY <1>2 DEF Excused
  <2> QED
    BY <1>1, <2>1
<1>3. ASSUME NEW s \in Saves, SaveRejected(s), NEW i \in DOMAIN log, log[i].type = "declared", log[i].save = s
      PROVE  \E j \in DOMAIN log' : i < j /\ log'[j].type # "declared" /\ log'[j].save = None
  <2>1. DeclaredAt(s) = i
    <3>1. \A k \in DOMAIN log : (log[k].type = "declared" /\ log[k].save = s) <=> k = i
      BY <1>3 DEF Told
    <3> QED
      BY <3>1 DEF DeclaredAt
  <2>2. saves[s] = "recorded" /\ pc[Writer] \notin Putting /\ ~(DeclaredAt(s) > Cursor(Current)) /\ log' = log
    BY <1>3 DEF SaveRejected, EngineFree, AssertDeclaredEvents, Putting
  <2>3. Len(log) \in Nat /\ DOMAIN log = 1..Len(log) /\ Len(log) \in 0..Len(log)
    BY DEF Shapes
  <2>4. PICK c \in Checkpoints \cup {0} : c = Current
    BY <2>3, CurrentType DEF Current
  <2>5. c # 0
    <3>1. Cursor(0) = 0
      BY DEF Cursor
    <3>2. i > 0
      BY <2>3
    <3> QED
      BY <2>1, <2>2, <2>4, <3>1, <3>2
  <2>6. PICK j \in DOMAIN log : j = Cursor(c) /\ log[j].type = "checkpoint"
    BY <2>4, <2>5, CursorIs
  <2>7. i < j
    <3>1. ~(i > j) /\ i # j
      BY <1>3, <2>1, <2>2, <2>4, <2>6
    <3> QED
      BY <2>3, <3>1
  <2>8. log[j].save = None
    BY <1>3, <2>2, <2>7 DEF Alone
  <2> QED
    BY <2>2, <2>6, <2>7, <2>8
<1> SUFFICES ASSUME NEW s \in Saves, NEW i \in DOMAIN log',
                    saves'[s] = "rejected", log'[i].type = "declared", log'[i].save = s
             PROVE  \E j \in DOMAIN log' : i < j /\ log'[j].type # "declared" /\ log'[j].save = None
  BY DEF Excused
<1>4. saves[s] = "rejected" \/ SaveRejected(s)
  BY Statuses DEF Forward
<1>5. PICK k \in DOMAIN log : log[k].type = "declared" /\ log[k].save = s
  BY <1>4 DEF Told, SaveRejected
<1>6. i = k
  BY <1>1, <1>5, StepTold DEF Told
<1> QED
  BY <1>2, <1>3, <1>4, <1>5, <1>6

-----------------------------------------------------------------------------
(* The theorems.                                                             *)

\* All that is needed of a state.
IInv == ProjInv /\ Traced /\ Told /\ InRange /\ Turns /\ Alone /\ Excused

\* The invariant holds in every reachable state.
THEOREM ProjectionsInvariant == Spec => []IInv
<1>1. Init => IInv
  <2> SUFFICES ASSUME Init PROVE IInv
    OBVIOUS
  <2>1. log = <<>> /\ DOMAIN log = {} /\ Checkpoints = {} /\ blobs = {}
    BY DEF Init, Checkpoints
  <2>2. saves = [s \in Saves |-> "none"] /\ line = <<>> /\ \A p \in Procs : pc[p] = "idle"
    BY DEF Init
  <2>3. Puts = {}
    BY <2>2 DEF Puts, Putting
  <2>4. Traced /\ InRange
    BY <2>1, <2>3 DEF Traced, InRange
  <2>5. Told /\ Alone /\ Excused
    BY <2>1, <2>2 DEF Told, Alone, Excused
  <2>6. Turns
    BY <2>2 DEF Turns, Procs, Putting
  <2> QED
    BY <2>4, <2>5, <2>6, InitInv DEF IInv
<1>2. IInv /\ [Next]_vars => IInv'
  <2> SUFFICES ASSUME IInv, [Next]_vars PROVE IInv'
    OBVIOUS
  <2>1. CASE Next
    <3>1. ProjInv'
      BY <2>1, StepShapes, StepNumbered, StepOwned, StepStepwise, StepListed, StepRooted DEF IInv, ProjInv
    <3>2. Traced' /\ InRange' /\ Told'
      BY <2>1, RangesStay, StepInRange, StepTold DEF IInv, ProjInv
    <3>3. Turns' /\ Alone' /\ Excused'
      BY <2>1, StepTurns, StepAlone, StepExcused DEF IInv, ProjInv
    <3> QED
      BY <3>1, <3>2, <3>3 DEF IInv
  <2>2. CASE UNCHANGED vars
    <3>1. ProjInv'
      <4>1. Checkpoints' = Checkpoints
        BY <2>2, SameLog DEF vars
      <4>2. Shapes'
        BY <2>2 DEF vars, IInv, ProjInv, Shapes
      <4>3. Numbered'
        BY <2>2, <4>1 DEF vars, IInv, ProjInv, Numbered
      <4>4. Owned'
        BY <2>2 DEF vars, IInv, ProjInv, Owned, OwnId
      <4>5. Stepwise'
        BY <2>2 DEF vars, IInv, ProjInv, Stepwise
      <4>6. Listed'
        BY <2>2 DEF vars, IInv, ProjInv, Listed
      <4>7. Rooted'
        BY <2>2 DEF vars, IInv, ProjInv, Rooted, Dir
      <4> QED
        BY <4>2, <4>3, <4>4, <4>5, <4>6, <4>7 DEF ProjInv
    <3>2. Traced' /\ Told'
      BY <2>2, SameLog DEF vars, IInv, Traced, Told
    <3>3. Turns' /\ Alone' /\ Excused'
      BY <2>2 DEF vars, IInv, Turns, Alone, Excused
    <3>4. InRange'
      <4>1. Puts' = Puts /\ Checkpoints' = Checkpoints
        BY <2>2, SameLog DEF vars, Puts
      <4>2. \A b \in blobs \cup Puts : Fits(b)'
        BY FitsStay DEF IInv, InRange
      <4>3. \A c \in Checkpoints : From(c)' = From(c)
        BY RangesStay DEF IInv, ProjInv
      <4> QED
        BY <2>2, <4>1, <4>2, <4>3 DEF vars, IInv, InRange
    <3> QED
      BY <3>1, <3>2, <3>3, <3>4 DEF IInv
  <2> QED
    BY <2>1, <2>2
<1> QED
  BY <1>1, <1>2, PTL DEF Spec

\* A projection whose put returned stays in the store (putProjection, cas.ts),
\* whatever dies, fails or loses power, unless a loss of power took its whole
\* directory, one that the store did not have before; it is missing from the
\* index only if its row was inserted during a reindex() of another process.
THEOREM AckedStayListed == Spec => []AckedListed
<1>1. IInv => AckedListed
  BY DEF IInv, ProjInv, Stepwise, Listed, Rooted, AckedListed
<1> QED
  BY <1>1, ProjectionsInvariant, PTL

\* A stored claim cites evidence, and only what its checkpoint covers
\* (distill(), validateClaims, #putDeclaredProjection): what was known of the
\* ledger when a range was asked for stays true of it, however many events,
\* checkpoints and restores come before the answer.
THEOREM EvidenceStaysInRange == Spec => []EvidenceInRange
<1>1. IInv => EvidenceInRange
  BY DEF IInv, InRange, Fits, From, EvidenceInRange
<1> QED
  BY <1>1, ProjectionsInvariant, PTL

\* A save is rejected for a stale event only if another caller of the engine
\* made a checkpoint or restored one since (Ckpt.save's tail, checkpoint()).
THEOREM SavesUndisturbed == Spec => []SavesDoNotDisturb
<1>1. ASSUME IInv PROVE SavesDoNotDisturb
  <2> SUFFICES ASSUME NEW s \in Saves, saves[s] = "rejected"
               PROVE  \E i \in DOMAIN log : i > DeclaredAt(s) /\ log[i].type # "declared" /\ log[i].save = None
    BY DEF SavesDoNotDisturb
  <2>1. PICK k \in DOMAIN log : log[k].type = "declared" /\ log[k].save = s
    BY <1>1 DEF IInv, Told
  <2>2. PICK at : at = DeclaredAt(s)
    OBVIOUS
  <2>3. at \in DOMAIN log /\ log[at].type = "declared" /\ log[at].save = s
    BY <2>1, <2>2 DEF DeclaredAt
  <2>4. PICK j \in DOMAIN log : at < j /\ log[j].type # "declared" /\ log[j].save = None
    BY <1>1, <2>3 DEF IInv, Excused
  <2>5. at \in Nat /\ j \in Nat
    BY <1>1, <2>3 DEF IInv, ProjInv, Shapes
  <2>6. j > at
    BY <2>4, <2>5
  <2> QED
    BY <2>2, <2>4, <2>6
<1> QED
  BY <1>1, ProjectionsInvariant, PTL
=============================================================================
