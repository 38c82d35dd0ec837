--------------------------- MODULE SnapshotProofs ---------------------------
(***************************************************************************)
(* Proofs about Snapshot, for any paths, contents, granularity of timestamps *)
(* and bounds: what a stat cache trusts, and so what a checkpoint holds and a *)
(* detection reports, is recent; storage accepts every delta; and a restored *)
(* workspace is found unchanged.  After them, from "The inductive invariant of *)
(* a forest", those about Lineage, for any runs, forks and restores: diff's    *)
(* ranges are exact, and the readers of the forest agree.                     *)
(***************************************************************************)
EXTENDS Snapshot, Lineage, FiniteSetTheorems, NaturalsInduction, WellFoundedInduction, TLAPS

Inos == Inodes \cup {f.ino : f \in Elsewhere}
Files == [text : Contents, mode : Modes, mtime : Nat, ino : Inos]
Trees == UNION {[D -> [mode : Modes, oid : Contents]] : D \in SUBSET (Paths \ Excluded)}

SnapshotSteps == {"walk", "stat", "read", "commit"}
DetectSteps == {"detect", "hash", "set", "removed"}
JobFields == {"at", "listed", "stamp", "text", "files", "written", "skipped"}

-----------------------------------------------------------------------------
(* The inductive invariant.                                                  *)

\* What the functions of the state are defined on.
Shapes ==
  /\ pc \in {"idle"} \cup SnapshotSteps \cup DetectSteps
  /\ files \in [Paths -> Files \cup {Absent}]
  /\ outside \subseteq Elsewhere
  /\ now \in Nat
  /\ commits \in Seq(Trees)
  /\ current \in 0..Len(commits) /\ restored \in 0..Len(commits)
  /\ DOMAIN cache = {"base", "files"} /\ cache.base \in 0..Len(commits)
  /\ DOMAIN job = JobFields
  /\ DOMAIN had = Paths
  /\ pc # "idle" => job.at \in Walked

\* No file elsewhere has the inode.
Own(ino) == \A f \in outside : f.ino # ino

\* A pass has seen what there is; a file in the workspace is none of those elsewhere.
Seeing ==
  \A p \in Paths :
    /\ pc # "idle" => Seen(files[p]) \in had[p]
    /\ Present(p) => Own(files[p].ino)

\* The entry e of p was made of a file that is not elsewhere and at a time that is
\* past, and if its mtime can be trusted then what is at p with that mtime and
\* inode has one of the contents that the entry may stand for.
Apt(p, e, held) ==
  /\ e.mtime \in Nat /\ e.hashedAt \in Nat /\ e.hashedAt <= now /\ Own(e.ino)
  /\ /\ e.mtime + RacyWindow < e.hashedAt
     /\ Present(p) /\ files[p].mtime = e.mtime /\ files[p].ino = e.ino
     => files[p].text \in held

\* The contents that sanitize to an object.
Sources(oid) == {c \in Contents : Sanitized[c] = oid}

\* No path is a directory of another.
Flat(paths) == \A p, q \in paths : q \notin Above[p]

\* The entries of the stat cache are those of its commit's tree.
Caching ==
  /\ CacheIsBaseTree
  /\ cache.base # 0 =>
       \A p \in DOMAIN cache.files : p \in Paths /\ Apt(p, cache.files[p], Sources(cache.files[p].oid))
  /\ \A p \in DOMAIN detected : p \in Paths /\ Apt(p, detected[p], {detected[p].sha})

\* A file in the list had that mode during the pass, and a content that a cached
\* entry stands for if it will be trusted.
ListedFile(p, stat) ==
  /\ stat.mtime \in Nat /\ Own(stat.ino)
  /\ \E s \in had[p] :
       /\ s.text \in Contents /\ s.mode \in Modes /\ s.mode = stat.mode
       /\ p \in DOMAIN Cached /\ IsStatCacheHit(Cached[p], stat) => Sanitized[s.text] = Cached[p].oid

Listing ==
  pc \in SnapshotSteps =>
    /\ DOMAIN job.listed \subseteq Paths \ Excluded
    /\ \A p \in DOMAIN job.listed : ListedFile(p, job.listed[p])
    /\ Flat(DOMAIN job.listed)
    /\ pc = "walk" => \A p \in DOMAIN job.listed : \E i \in Walked : i < job.at /\ Order[i] = p
    /\ pc = "read" => /\ Order[job.at] \in DOMAIN job.listed
                      /\ job.stamp \in Nat /\ job.stamp <= now

\* A file of the next tree had that mode and that content.
TakenFile(p, e) ==
  /\ Apt(p, e, Sources(e.oid))
  /\ e.oid # Skip
  /\ \E s \in had[p] : s.text \in Contents /\ e.oid = Sanitized[s.text]
  /\ \E s \in had[p] : s.mode \in Modes /\ s.mode = e.mode

Taking ==
  pc \in SnapshotSteps =>
    /\ DOMAIN job.files \subseteq DOMAIN job.listed
    /\ \A p \in DOMAIN job.files : TakenFile(p, job.files[p])
    /\ job.written \subseteq DOMAIN job.files
    /\ \A p \in DOMAIN job.files \ job.written :
         p \in DOMAIN ParentTree /\ ParentTree[p] = [mode |-> job.files[p].mode, oid |-> job.files[p].oid]

\* What a checkpoint may leave out.
ExcusedBy(skips, p) ==
  \/ Seen(Absent) \in had[p]
  \/ \E skipped \in skips, s \in had[p] :
       /\ skipped.path = p
       /\ IF skipped.reason = "too_large" THEN Size[s.text] > MaxFileBytes
          ELSE Sanitized[s.text] = Skip
Excused(p) == ExcusedBy(job.skipped, p)

Passing ==
  /\ pc = "walk" =>
       \A i \in Walked : i < job.at => Order[i] \in DOMAIN job.listed \/ Excused(Order[i])
  /\ pc \in {"stat", "read"} =>
       \A i \in Walked :
         /\ Order[i] \in DOMAIN job.listed \/ Excused(Order[i])
         /\ i < job.at => Order[i] \in DOMAIN job.files \/ Excused(Order[i])
  /\ pc = "commit" => \A i \in Walked : Order[i] \in DOMAIN job.files \/ Excused(Order[i])

\* A detection has seen what it reports, and what it leaves out was not there.
Reported(p) == p \in DOMAIN job.files \/ Seen(Absent) \in had[p]

Detecting ==
  /\ pc \in DetectSteps =>
       /\ DOMAIN job.files \subseteq Paths
       /\ \A p \in DOMAIN job.files : \E s \in had[p] : s.text = job.files[p]
       /\ \A p \in Paths \ Excluded : p \in DOMAIN job.listed \/ Seen(Absent) \in had[p]
       /\ pc # "removed" => \A i \in Walked : i < job.at => Reported(Order[i])
       /\ pc = "removed" => \A i \in Walked : Reported(Order[i])
  /\ pc \in {"hash", "set"} =>
       LET stat == job.listed[Order[job.at]]
       IN  /\ Order[job.at] \in DOMAIN job.listed
           /\ stat.mtime \in Nat /\ Own(stat.ino)
           /\ job.stamp \in Nat /\ job.stamp <= now
  /\ pc = "set" =>
       /\ \E s \in had[Order[job.at]] : s.text = job.text
       /\ Apt(Order[job.at], HashedEntry(job.listed[Order[job.at]]), {job.text})

\* A pass over what was restored skips only files that a checkout or Redaction
\* converts, or that outgrew the limit.
Skips(skipped) ==
  restored # 0 =>
    \A s \in skipped : s.path \in DOMAIN commits[restored] /\ ~Lasting(commits[restored][s.path].oid)

\* No file of a commit is in another; what was restored is still there, as the
\* checkout wrote it.
Restoring ==
  /\ \A c \in DOMAIN commits : Flat(DOMAIN commits[c])
  /\ restored # 0 =>
       /\ \A p \in Paths \ Excluded :
            /\ p \in DOMAIN commits[restored] =>
                 /\ files[p].text \in CheckedOut[commits[restored][p].oid]
                 /\ files[p].mode = commits[restored][p].mode
            /\ p \notin DOMAIN commits[restored] => files[p] = Absent
            /\ pc # "idle" => had[p] = {Seen(files[p])}
  /\ pc \in SnapshotSteps => Skips(job.skipped)

SnapInv == Shapes /\ Seeing /\ Caching /\ Listing /\ Taking /\ Passing /\ Detecting /\ Restoring

-----------------------------------------------------------------------------
(* Walks.                                                                    *)

\* The first of some places is one of them.
LEMMA FirstPlace ==
  ASSUME NEW places \in SUBSET Walked, places # {}
  PROVE  First(places) \in places /\ \A i \in places : First(places) <= i
<1>1. \A i \in Walked : i \in Nat
  BY PathsAssumption DEF Walked
<1> DEFINE R == OpToRel(<, Nat)
<1>2. PICK least \in places : \A i \in places : ~(<<i, least>> \in R)
  <2>1. places \subseteq Nat
    BY <1>1
  <2>2. IsWellFoundedOn(R, Nat)
    BY NatLessThanWellFounded
  <2> HIDE DEF R
  <2> QED
    BY <2>1, <2>2, WFMin
<1>3. \A i \in places : ~(i < least)
  BY <1>1, <1>2, Zenon DEF OpToRel
<1>4. \A i \in places : least <= i
  BY <1>1, <1>3
<1> QED
  BY <1>4 DEF First

\* There is something to walk over.
LEMMA SomePlace == Walked # {} /\ \A p \in Paths \ Excluded : \E i \in Walked : Order[i] = p
BY PathsAssumption DEF Walked, Paths, ToSet

\* The walk goes on to the next place, or to the next step when there is none.
LEMMA NextPlace ==
  ASSUME NEW j, NEW loop, NEW then, DOMAIN j = JobFields, job.at \in Walked,
         NextFile(j, loop, then)
  PROVE  /\ DOMAIN job' = JobFields
         /\ job'.listed = j.listed /\ job'.stamp = j.stamp /\ job'.text = j.text
         /\ job'.files = j.files /\ job'.written = j.written /\ job'.skipped = j.skipped
         /\ job'.at \in Walked
         /\ \/ /\ pc' = loop
               /\ \A i \in Walked : i < job'.at <=> i = job.at \/ i < job.at
            \/ /\ pc' = then
               /\ \A i \in Walked : i = job.at \/ i < job.at
               /\ \A i \in Walked : ~(i < job'.at)
<1> DEFINE later == {i \in Walked : i > job.at}
<1>1. \A i \in Walked : i \in Nat
  BY PathsAssumption DEF Walked
<1>2. CASE later # {}
  <2>1. job' = [j EXCEPT !.at = First(later)] /\ pc' = loop
    BY <1>2 DEF NextFile
  <2>2. First(later) \in later /\ \A i \in later : First(later) <= i
    <3>1. later \in SUBSET Walked
      OBVIOUS
    <3> HIDE DEF later
    <3> QED
      BY <1>2, <3>1, FirstPlace
  <2>3. \A i \in Walked : i < First(later) <=> i = job.at \/ i < job.at
    <3>1. /\ First(later) \in Nat /\ First(later) > job.at
          /\ \A i \in Walked : i > job.at => First(later) <= i
      BY <1>1, <2>2
    <3> HIDE DEF later
    <3>2. job.at \in Nat
      BY <1>1
    <3> QED
      BY <1>1, <3>1, <3>2
  <2> HIDE DEF later
  <2>4. job'.at = First(later)
    BY <2>1 DEF JobFields
  <2>5. First(later) \in Walked
    BY <2>2 DEF later
  <2> QED
    BY <2>1, <2>3, <2>4, <2>5 DEF JobFields
<1>3. CASE later = {}
  <2>1. job' = [j EXCEPT !.at = First(Walked)] /\ pc' = then
    BY <1>3 DEF NextFile
  <2>2. First(Walked) \in Walked /\ \A i \in Walked : First(Walked) <= i
    BY FirstPlace, SomePlace
  <2>3. \A i \in Walked : i = job.at \/ i < job.at
    <3>1. job.at \in Nat /\ \A i \in Walked : i \in Nat /\ ~(i > job.at)
      BY <1>1, <1>3
    <3> HIDE DEF later
    <3> QED
      BY <3>1
  <2>4. \A i \in Walked : ~(i < First(Walked))
    <3> HIDE DEF later
    <3>1. First(Walked) \in Nat
      BY <1>1, <2>2
    <3> QED
      BY <1>1, <2>2, <3>1
  <2> HIDE DEF later
  <2>5. job'.at = First(Walked)
    BY <2>1 DEF JobFields
  <2> QED
    BY <2>1, <2>2, <2>3, <2>4, <2>5 DEF JobFields
<1> QED
  BY <1>2, <1>3

\* A pass begins with nothing done.
LEMMA FirstStep ==
  ASSUME NEW step, Begin(step)
  PROVE  /\ DOMAIN job' = JobFields
         /\ job'.listed = <<>> /\ job'.files = <<>> /\ job'.written = {} /\ job'.skipped = {}
         /\ job'.at \in Walked /\ \A i \in Walked : ~(i < job'.at)
         /\ pc' = step /\ had' = [p \in Paths |-> {Seen(files[p])}]
<1>1. \A i \in Walked : i \in Nat
  BY PathsAssumption DEF Walked
<1>2. First(Walked) \in Walked /\ \A i \in Walked : First(Walked) <= i
  BY FirstPlace, SomePlace
<1>3. job' = [NoJob EXCEPT !.at = First(Walked)] /\ pc' = step /\ had' = [p \in Paths |-> {Seen(files[p])}]
  BY DEF Begin
<1>4. \A i \in Walked : ~(i < First(Walked))
  <2>1. First(Walked) \in Nat
    BY <1>1, <1>2
  <2> QED
    BY <1>1, <1>2, <2>1
<1> QED
  BY <1>2, <1>3, <1>4 DEF NoJob, JobFields

-----------------------------------------------------------------------------
(* The world changes: no file comes to be what a trusted entry stands for.   *)

\* A write is later than anything whose timestamp can be trusted.
LEMMA CoarseIsRecent ==
  ASSUME now \in Nat
  PROVE  /\ Coarse \in Nat
         /\ \A m, t \in Nat : t <= now /\ m + RacyWindow < t => m < Coarse
<1>1. Granularity \in Nat /\ Granularity > 0 /\ RacyWindow \in Nat /\ RacyWindow >= Granularity
  BY ContentsAssumption
<1>2. now % Granularity \in 0..(Granularity - 1) /\ now % Granularity <= now
  <2>1. now % Granularity \in 0..(Granularity - 1)
    BY <1>1
  <2>2. now = (Granularity * (now \div Granularity)) + (now % Granularity) /\ now \div Granularity \in Nat
    BY <1>1
  <2>3. Granularity * (now \div Granularity) >= 0
    BY <1>1, <2>2
  <2> QED
    BY <1>1, <2>1, <2>2, <2>3
<1> QED
  BY <1>1, <1>2 DEF Coarse

\* What a step of the agent puts at a path.
LEMMA AgentWrites ==
  ASSUME Shapes, Agent
  PROVE  \E p \in Paths, f \in Files \cup {Absent} :
           /\ Writes(p, f) /\ outside' \subseteq outside
           /\ \/ f = Absent
              \/ f.mtime = Coarse /\ f.ino \in Inodes
              \/ Present(p) /\ f.mtime = Coarse /\ f.ino = files[p].ino
              \/ Present(p) /\ f.mtime = files[p].mtime /\ f.ino = files[p].ino /\ f.text = files[p].text
              \/ f \in outside /\ outside' = outside \ {f}
<1> USE DEF Shapes
<1>1. PICK p \in Paths : Create(p) \/ Rewrite(p) \/ Move(p) \/ Chmod(p) \/ Delete(p)
  BY DEF Agent
<1>2. Coarse \in Nat
  BY CoarseIsRecent
<1>3. files[p] \in Files \cup {Absent} /\ (Present(p) => files[p] \in Files)
  BY DEF Present, Absent
<1>4. ASSUME NEW mode \in Modes, NewFile(p, mode)
      PROVE  \E f \in Files : Writes(p, f) /\ outside' \subseteq outside /\ f.mtime = Coarse /\ f.ino \in Inodes
  <2>1. PICK c \in Contents, i \in Inodes :
          Writes(p, [text |-> c, mode |-> mode, mtime |-> Coarse, ino |-> i]) /\ UNCHANGED outside
    BY <1>4 DEF NewFile
  <2>2. [text |-> c, mode |-> mode, mtime |-> Coarse, ino |-> i] \in Files
    BY <1>2 DEF Files, Inos
  <2> QED
    BY <2>1, <2>2
<1>5. CASE Create(p)
  BY <1>4, <1>5, FilesAssumption DEF Create
<1>6. CASE Rewrite(p)
  <2>1. Present(p)
    BY <1>6 DEF Rewrite
  <2>2. CASE \E c \in Contents \ {files[p].text} : /\ Writes(p, [files[p] EXCEPT !.text = c, !.mtime = Coarse])
                                                    /\ UNCHANGED outside
    <3>1. PICK c \in Contents : Writes(p, [files[p] EXCEPT !.text = c, !.mtime = Coarse]) /\ UNCHANGED outside
      BY <2>2
    <3> DEFINE f == [files[p] EXCEPT !.text = c, !.mtime = Coarse]
    <3>2. f \in Files /\ f.mtime = Coarse /\ f.ino = files[p].ino
      BY <1>2, <1>3, <2>1 DEF Files
    <3> QED
      BY <2>1, <3>1, <3>2
  <2>3. CASE NewFile(p, files[p].mode)
    <3>1. files[p].mode \in Modes
      BY <1>3, <2>1 DEF Files
    <3> QED
      BY <1>4, <2>3, <3>1
  <2> QED
    BY <1>6, <2>2, <2>3, Zenon DEF Rewrite
<1>7. CASE Move(p)
  <2>1. PICK f \in outside : Writes(p, f) /\ outside' = outside \ {f}
    BY <1>7 DEF Move
  <2>2. f \in Elsewhere
    BY <2>1
  <2>3. f \in Files
    BY <2>2, FilesAssumption DEF Files, Inos
  <2> QED
    BY <2>1, <2>3
<1>8. CASE Chmod(p)
  <2>1. PICK m \in Modes : Writes(p, [files[p] EXCEPT !.mode = m]) /\ UNCHANGED outside
    BY <1>8 DEF Chmod
  <2> DEFINE f == [files[p] EXCEPT !.mode = m]
  <2>2. f \in Files /\ f.mtime = files[p].mtime /\ f.ino = files[p].ino /\ f.text = files[p].text
    BY <1>3, <1>8 DEF Chmod, Files
  <2> QED
    BY <1>8, <2>1, <2>2 DEF Chmod
<1>9. CASE Delete(p)
  BY <1>9 DEF Delete
<1> QED
  BY <1>1, <1>5, <1>6, <1>7, <1>8, <1>9

\* After a write, at most one path is another than before, and what is there is
\* what was there but for its mode, is gone, was elsewhere, or is recent.
Rewritten(p) ==
  \/ files'[p] = Absent
  \/ files'[p].mtime = Coarse /\ (files'[p].ino \in Inodes \/ Own(files'[p].ino))
  \/ /\ Present(p) /\ files'[p].mtime = files[p].mtime /\ files'[p].ino = files[p].ino
     /\ files'[p].text = files[p].text
  \/ files'[p] \in outside /\ outside' = outside \ {files'[p]}

\* A step of the clock or of the agent.
LEMMA WorldChanges ==
  ASSUME Shapes, Seeing, Tick \/ Agent
  PROVE  /\ UNCHANGED <<dir, commits, current, cache, detected, pc, job>>
         /\ now' \in Nat /\ now <= now' /\ outside' \subseteq outside
         /\ files' \in [Paths -> Files \cup {Absent}]
         /\ DOMAIN had' = Paths /\ \A p \in Paths : had[p] \subseteq had'[p]
         /\ \A p \in Paths : files'[p] = files[p] \/ Rewritten(p)
         /\ \A p \in Paths : pc # "idle" => Seen(files'[p]) \in had'[p]
         /\ restored' \in {restored, 0}
         /\ restored' # 0 => \A p \in Paths \ Excluded : files'[p] = files[p] /\ had'[p] = had[p]
<1> USE DEF Shapes
<1>1. CASE Tick
  BY <1>1 DEF Tick, Seeing
<1>2. CASE Agent
  <2>1. PICK p \in Paths, f \in Files \cup {Absent} :
           /\ Writes(p, f) /\ outside' \subseteq outside
           /\ \/ f = Absent
              \/ f.mtime = Coarse /\ f.ino \in Inodes
              \/ Present(p) /\ f.mtime = Coarse /\ f.ino = files[p].ino
              \/ Present(p) /\ f.mtime = files[p].mtime /\ f.ino = files[p].ino /\ f.text = files[p].text
              \/ f \in outside /\ outside' = outside \ {f}
    BY <1>2, AgentWrites
  <2>2. files' = [files EXCEPT ![p] = f] /\ files'[p] = f
    BY <2>1 DEF Writes
  <2>3. Rewritten(p)
    BY <2>1, <2>2 DEF Rewritten, Seeing
  <2>4. \A q \in Paths \ {p} : files'[q] = files[q]
    BY <2>2
  <2>5. had' = IF pc = "idle" THEN had ELSE [had EXCEPT ![p] = @ \cup {Seen(f)}]
    BY <2>1 DEF Writes
  <2>6. /\ DOMAIN had' = Paths /\ \A q \in Paths : had[q] \subseteq had'[q]
        /\ \A q \in Paths \ {p} : had'[q] = had[q]
        /\ pc # "idle" => Seen(f) \in had'[p]
    BY <2>5
  <2>7. UNCHANGED <<dir, commits, current, cache, detected, pc, job, now>>
        /\ restored' = IF p \in Excluded THEN restored ELSE 0
    BY <2>1 DEF Writes
  <2>8. \A q \in Paths : pc # "idle" => Seen(files'[q]) \in had'[q]
    BY <2>2, <2>4, <2>6 DEF Seeing
  <2>9. files' \in [Paths -> Files \cup {Absent}]
    BY <2>2
  <2> QED
    BY <2>1, <2>3, <2>4, <2>6, <2>7, <2>8, <2>9
<1> QED
  BY <1>1, <1>2

\* An entry that was right stays so, whatever is written.
LEMMA StaysApt ==
  ASSUME Shapes, now' \in Nat, now <= now', outside' \subseteq outside,
         NEW p \in Paths, files'[p] = files[p] \/ Rewritten(p),
         NEW e, NEW held, Apt(p, e, held)
  PROVE  Apt(p, e, held)'
<1>1. /\ now \in Nat /\ e.mtime \in Nat /\ e.hashedAt \in Nat /\ e.hashedAt <= now /\ Own(e.ino)
  BY DEF Shapes, Apt
<1>2. e.hashedAt <= now' /\ Own(e.ino)'
  BY <1>1 DEF Own
<1>3. ASSUME e.mtime + RacyWindow < e.hashedAt, Present(p)',
             files'[p].mtime = e.mtime, files'[p].ino = e.ino
      PROVE  files'[p].text \in held
  <2>1. e.mtime < Coarse /\ Coarse \in Nat
    BY <1>1, <1>3, CoarseIsRecent
  <2>2. files'[p] # Absent
    BY <1>3 DEF Present, Absent
  <2>3. files'[p] \notin outside
    BY <1>1, <1>3 DEF Own
  <2>4. files'[p].mtime # Coarse
    BY <1>1, <1>3, <2>1
  <2>5. \/ files'[p] = files[p]
        \/ /\ Present(p) /\ files'[p].mtime = files[p].mtime /\ files'[p].ino = files[p].ino
           /\ files'[p].text = files[p].text
    BY <1>1, <2>2, <2>3, <2>4 DEF Rewritten
  <2>6. /\ Present(p) /\ files'[p].mtime = files[p].mtime /\ files'[p].ino = files[p].ino
        /\ files'[p].text = files[p].text
    BY <1>3, <2>5 DEF Present
  <2> QED
    BY <1>3, <2>6 DEF Apt
<1> QED
  BY <1>1, <1>2, <1>3 DEF Apt

\* Each part of the invariant survives the clock and the agent.
LEMMA WorldStep ==
  ASSUME SnapInv, Tick \/ Agent
  PROVE  SnapInv'
<1>1. Shapes /\ Seeing
  BY DEF SnapInv
<1>2. /\ UNCHANGED <<dir, commits, current, cache, detected, pc, job>>
      /\ now' \in Nat /\ now <= now' /\ outside' \subseteq outside /\ now \in Nat
      /\ files' \in [Paths -> Files \cup {Absent}]
      /\ DOMAIN had' = Paths /\ \A p \in Paths : had[p] \subseteq had'[p]
      /\ \A p \in Paths : files'[p] = files[p] \/ Rewritten(p)
      /\ \A p \in Paths : pc # "idle" => Seen(files'[p]) \in had'[p]
      /\ restored' \in {restored, 0}
      /\ restored' # 0 => \A p \in Paths \ Excluded : files'[p] = files[p] /\ had'[p] = had[p]
  BY <1>1, WorldChanges DEF Shapes
<1>3. \A ino : Own(ino) => Own(ino)'
  BY <1>2 DEF Own
<1>4. \A p \in Paths : \A e, held : Apt(p, e, held) => Apt(p, e, held)'
  BY <1>1, <1>2, StaysApt
<1>5. Shapes'
  BY <1>1, <1>2 DEF Shapes
<1>6. Seeing'
  <2>1. ASSUME NEW p \in Paths, Present(p)', files'[p] # files[p]
        PROVE  Own(files[p].ino)'
    <3>1. Rewritten(p) /\ files'[p] # Absent /\ outside \subseteq Elsewhere
      BY <1>1, <1>2, <2>1 DEF Present, Absent, Shapes
    <3>2. CASE files'[p].ino \in Inodes
      BY <1>2, <3>1, <3>2, FilesAssumption DEF Own
    <3>3. CASE Own(files'[p].ino)
      BY <1>2, <3>3 DEF Own
    <3>4. CASE Present(p) /\ files'[p].ino = files[p].ino
      BY <1>1, <1>2, <3>4 DEF Seeing, Own
    <3>5. CASE files'[p] \in outside /\ outside' = outside \ {files'[p]}
      BY <3>1, <3>5, FilesAssumption DEF Own
    <3> QED
      BY <3>1, <3>2, <3>3, <3>4, <3>5 DEF Rewritten
  <2>2. ASSUME NEW p \in Paths, Present(p)', files'[p] = files[p]
        PROVE  Own(files[p].ino)'
    BY <1>1, <1>2, <2>2 DEF Seeing, Present, Own
  <2>3. \A p \in Paths : pc' # "idle" => Seen(files'[p]) \in had'[p]
    BY <1>2
  <2>4. \A p \in Paths : pc' # "idle" => Seen(files[p])' \in had'[p]
    BY <2>3 DEF Seen
  <2>5. \A p \in Paths : Present(p)' => Own(files[p].ino)'
    BY <2>1, <2>2
  <2> QED
    BY <2>4, <2>5 DEF Seeing
<1>7. Caching'
  <2>1. CacheIsBaseTree'
    BY <1>2 DEF SnapInv, Caching, CacheIsBaseTree
  <2>2. ASSUME cache.base # 0, NEW p \in DOMAIN cache.files
        PROVE  p \in Paths /\ Apt(p, cache.files[p], Sources(cache.files[p].oid))'
    <3> DEFINE e == cache.files[p]
    <3>1. p \in Paths /\ Apt(p, e, Sources(e.oid))
      BY <2>2 DEF SnapInv, Caching
    <3>2. e' = e /\ p' = p
      BY <1>2
    <3> HIDE DEF e
    <3>3. Apt(p, e, Sources(e.oid))'
      BY <1>4, <3>1, <3>2 DEF Apt, Sources
    <3> QED
      BY <3>1, <3>3 DEF e
  <2>3. ASSUME NEW p \in DOMAIN detected
        PROVE  p \in Paths /\ Apt(p, detected[p], {detected[p].sha})'
    <3> DEFINE e == detected[p]
    <3>1. p \in Paths /\ Apt(p, e, {e.sha})
      BY <2>3 DEF SnapInv, Caching
    <3>2. e' = e /\ p' = p
      BY <1>2
    <3> HIDE DEF e
    <3>3. Apt(p, e, {e.sha})'
      BY <1>4, <3>1, <3>2 DEF Apt
    <3> QED
      BY <3>1, <3>3 DEF e
  <2> QED
    BY <1>2, <2>1, <2>2, <2>3 DEF Caching, Apt, Sources
<1>8. Listing'
  <2>1. SUFFICES ASSUME pc \in SnapshotSteps PROVE Listing'
    BY <1>2 DEF Listing
  <2>2. ASSUME NEW p \in DOMAIN job.listed
        PROVE  ListedFile(p, job.listed[p])'
    <3>1. ListedFile(p, job.listed[p]) /\ p \in Paths
      BY <2>1, <2>2 DEF SnapInv, Listing
    <3>2. had[p] \subseteq had'[p] /\ Cached' = Cached
      BY <1>2, <3>1 DEF Cached
    <3> QED
      BY <1>2, <1>3, <3>1, <3>2 DEF ListedFile
  <2>3. job.stamp \in Nat /\ job.stamp <= now => job.stamp <= now'
    BY <1>2
  <2> QED
    BY <1>2, <2>1, <2>2, <2>3 DEF SnapInv, Listing, ListedFile
<1>9. Taking'
  <2>1. SUFFICES ASSUME pc \in SnapshotSteps PROVE Taking'
    BY <1>2 DEF Taking
  <2>2. ASSUME NEW p \in DOMAIN job.files
        PROVE  TakenFile(p, job.files[p])'
    <3>1. TakenFile(p, job.files[p]) /\ p \in Paths
      BY <2>1, <2>2 DEF SnapInv, Taking, Listing
    <3>2. had[p] \subseteq had'[p]
      BY <1>2, <3>1
    <3>3. Apt(p, job.files[p], Sources(job.files[p].oid))'
      BY <1>2, <1>4, <3>1 DEF TakenFile, Apt, Sources
    <3> QED
      BY <1>2, <3>1, <3>2, <3>3 DEF TakenFile
  <2>3. ParentTree' = ParentTree
    BY <1>2 DEF ParentTree
  <2> QED
    BY <1>2, <2>1, <2>2, <2>3 DEF SnapInv, Taking, TakenFile
<1>10. Passing'
  <2>1. \A p \in Paths : Excused(p) => Excused(p)'
    BY <1>2 DEF Excused, ExcusedBy, Seen, Absent
  <2>2. \A i \in Walked : Order[i] \in Paths
    BY PathsAssumption DEF Walked, Paths, ToSet
  <2> QED
    BY <1>2, <2>1, <2>2 DEF SnapInv, Passing
<1>11. Detecting'
  <2>1. \A p \in Paths : had[p] \subseteq had'[p] /\ Seen(Absent)' = Seen(Absent)
    BY <1>2 DEF Seen, Absent
  <2>2. \A i \in Walked : Order[i] \in Paths
    BY PathsAssumption DEF Walked, Paths, ToSet
  <2>3. \A p \in Paths : Reported(p) => Reported(p)'
    BY <1>2, <2>1 DEF Reported
  <2>4. pc \in DetectSteps =>
       /\ DOMAIN job.files \subseteq Paths
       /\ \A p \in DOMAIN job.files : \E s \in had'[p] : s.text = job.files[p]
       /\ \A p \in Paths \ Excluded : p \in DOMAIN job.listed \/ Seen(Absent) \in had'[p]
    BY <2>1 DEF SnapInv, Detecting
  <2>5. pc \in DetectSteps =>
       /\ pc # "removed" => \A i \in Walked : i < job.at => Reported(Order[i])'
       /\ pc = "removed" => \A i \in Walked : Reported(Order[i])'
    BY <1>2, <2>2, <2>3 DEF SnapInv, Detecting, Reported
  <2>6. pc \in {"hash", "set"} =>
       LET stat == job.listed[Order[job.at]]
       IN  /\ Order[job.at] \in DOMAIN job.listed
           /\ stat.mtime \in Nat /\ Own(stat.ino)'
           /\ job.stamp \in Nat /\ job.stamp <= now'
    <3> HAVE pc \in {"hash", "set"}
    <3> DEFINE stat == job.listed[Order[job.at]]
    <3>1. /\ Order[job.at] \in DOMAIN job.listed
          /\ stat.mtime \in Nat /\ Own(stat.ino)
          /\ job.stamp \in Nat /\ job.stamp <= now
      BY DEF SnapInv, Detecting
    <3>2. Own(stat.ino)'
      BY <1>2, <1>3, <3>1 DEF Own
    <3>3. job.stamp <= now'
      BY <1>2, <3>1
    <3> QED
      BY <1>2, <3>1, <3>2, <3>3 DEF Own
  <2>7. pc = "set" =>
       /\ \E s \in had'[Order[job.at]] : s.text = job.text
       /\ Apt(Order[job.at], HashedEntry(job.listed[Order[job.at]]), {job.text})'
    <3> HAVE pc = "set"
    <3> DEFINE p == Order[job.at]
               e == HashedEntry(job.listed[p])
    <3>1. p \in Paths
      BY <1>1, <2>2 DEF Shapes
    <3>2. \E s \in had[p] : s.text = job.text
      BY DEF SnapInv, Detecting
    <3>3. Apt(p, e, {job.text})
      BY DEF SnapInv, Detecting
    <3>4. e' = e /\ p' = p /\ job' = job
      BY <1>2 DEF HashedEntry
    <3> HIDE DEF e, p
    <3>5. Apt(p, e, {job.text})'
      BY <1>4, <3>1, <3>3, <3>4 DEF Apt
    <3> QED
      BY <2>1, <3>1, <3>2, <3>4, <3>5 DEF p, e
  <2> QED
    BY <1>2, <2>4, <2>5, <2>6, <2>7 DEF Detecting, Seen, Absent, Own
<1>12. Restoring'
  <2>1. restored' # 0 => restored' = restored
    BY <1>2
  <2>2. \A c \in DOMAIN commits : commits[c] \in Trees /\ DOMAIN commits[c] \subseteq Paths \ Excluded
    BY <1>1 DEF Shapes, Trees
  <2> QED
    BY <1>2, <2>1, <2>2 DEF SnapInv, Restoring, Skips, Seen
<1> QED
  BY <1>5, <1>6, <1>7, <1>8, <1>9, <1>10, <1>11, <1>12 DEF SnapInv

-----------------------------------------------------------------------------
(* The steps of a checkpoint.                                                *)

\* What a step of a pass leaves as it was.
LEMMA Frame ==
  ASSUME SnapInv, UNCHANGED <<files, outside, now, commits, current, cache, restored>>,
         pc' \in {"idle"} \cup SnapshotSteps \cup DetectSteps,
         DOMAIN job' = JobFields, pc' # "idle" => job'.at \in Walked,
         DOMAIN had' = Paths,
         pc' # "idle" => \A p \in Paths : Seen(files[p]) \in had'[p],
         restored # 0 /\ pc' # "idle" => \A p \in Paths \ Excluded : had'[p] = {Seen(files[p])},
         pc' \in SnapshotSteps => Skips(job'.skipped),
         \A p \in DOMAIN detected' : p \in Paths /\ Apt(p, detected'[p], {detected'[p].sha})
  PROVE  Shapes' /\ Seeing' /\ Caching' /\ Restoring'
<1>1. Shapes'
  BY DEF SnapInv, Shapes
<1>2. Seeing'
  BY DEF SnapInv, Seeing, Seen, Present, Own
<1>3. Caching'
  <2>1. CacheIsBaseTree'
    BY DEF SnapInv, Caching, CacheIsBaseTree
  <2>2. cache.base # 0 =>
          \A p \in DOMAIN cache.files : p \in Paths /\ Apt(p, cache.files[p], Sources(cache.files[p].oid))'
    BY DEF SnapInv, Caching, Apt, Own, Present, Sources
  <2>3. \A p \in DOMAIN detected' : p \in Paths /\ Apt(p, detected[p], {detected[p].sha})'
    BY DEF Apt, Own, Present
  <2> QED
    BY <2>1, <2>2, <2>3 DEF Caching, Apt, Sources
<1>4. Restoring'
  BY DEF SnapInv, Restoring, Skips, Seen
<1> QED
  BY <1>1, <1>2, <1>3, <1>4

\* In a pass what was seen of the paths stays.
LEMMA Kept ==
  ASSUME SnapInv, UNCHANGED <<files, outside, now, commits, current, cache, had>>
  PROVE  /\ Cached' = Cached /\ ParentTree' = ParentTree
         /\ \A p, stat : ListedFile(p, stat) <=> ListedFile(p, stat)'
         /\ \A p, e : TakenFile(p, e) <=> TakenFile(p, e)'
         /\ \A p, e, held : Apt(p, e, held) <=> Apt(p, e, held)'
         /\ job.skipped \subseteq job'.skipped => \A p : Excused(p) => Excused(p)'
<1>1. Cached' = Cached /\ ParentTree' = ParentTree
  BY DEF Cached, ParentTree
<1>2. \A p, stat : ListedFile(p, stat) <=> ListedFile(p, stat)'
  BY <1>1 DEF ListedFile, Own
<1>3. \A p, e, held : Apt(p, e, held) <=> Apt(p, e, held)'
  BY DEF Apt, Own, Present
<1>4. \A p, e : TakenFile(p, e) <=> TakenFile(p, e)'
  BY DEF TakenFile, Apt, Own, Present, Sources
<1>5. job.skipped \subseteq job'.skipped => \A p : Excused(p) => Excused(p)'
  BY DEF Excused, ExcusedBy, Seen, Absent
<1> QED
  BY <1>1, <1>2, <1>3, <1>4, <1>5

\* A place of the walk is a path that is not excluded.
LEMMA PlaceIsPath == \A i \in Walked : Order[i] \in Paths \ Excluded
BY PathsAssumption DEF Walked, Paths, ToSet

\* A checkpoint begins.
LEMMA CheckpointStep ==
  ASSUME SnapInv, Checkpoint
  PROVE  SnapInv'
<1>1. /\ DOMAIN job' = JobFields
      /\ job'.listed = <<>> /\ job'.files = <<>> /\ job'.written = {} /\ job'.skipped = {}
      /\ job'.at \in Walked /\ \A i \in Walked : ~(i < job'.at)
      /\ pc' = "walk" /\ had' = [p \in Paths |-> {Seen(files[p])}]
  BY FirstStep DEF Checkpoint
<1>2. UNCHANGED <<files, outside, now, commits, current, cache, detected, restored>>
  BY DEF Checkpoint
<1>3. Shapes' /\ Seeing' /\ Caching' /\ Restoring'
  <2>1. \A p \in DOMAIN detected' : p \in Paths /\ Apt(p, detected'[p], {detected'[p].sha})
    BY <1>2 DEF SnapInv, Caching
  <2> QED
    BY <1>1, <1>2, <2>1, Frame DEF SnapshotSteps, Skips
<1>4. Listing' /\ Taking'
  BY <1>1 DEF Listing, Taking, SnapshotSteps, Flat
<1>5. Passing' /\ Detecting'
  BY <1>1 DEF Passing, Detecting, DetectSteps
<1> QED
  BY <1>3, <1>4, <1>5 DEF SnapInv

\* A name is listed: an entry that the cache vouches for is of what is there.
LEMMA ListStep ==
  ASSUME SnapInv, List
  PROVE  SnapInv'
<1>1. /\ pc = "walk" /\ job.at \in Walked /\ DOMAIN job = JobFields
      /\ UNCHANGED <<files, outside, now, commits, current, cache, detected, had, restored>>
  BY DEF List, SnapInv, Shapes
<1>0. PICK p \in Paths \ Excluded : p = Order[job.at]
  BY <1>1, PlaceIsPath
<1>2. Seen(files[p]) \in had[p] /\ job.at \in Nat
  BY <1>1, PathsAssumption DEF SnapInv, Seeing, Walked
<1> DEFINE large == [job EXCEPT !.skipped = @ \cup {[path |-> p, reason |-> "too_large"]}]
           listed == [job EXCEPT !.listed = With(@, p, StatOf(p))]
<1>3. \/ /\ Present(p) /\ Size[files[p].text] > MaxFileBytes
         /\ NextFile(large, "walk", "stat")
      \/ /\ Present(p) /\ \A q \in Above[p] : q \notin DOMAIN job.listed
         /\ NextFile(listed, "walk", "stat")
      \/ Seen(Absent) \in had[p] /\ NextFile(job, "walk", "stat")
  BY <1>0 DEF List
<1>4. /\ DOMAIN large = JobFields /\ DOMAIN listed = JobFields
      /\ large.skipped = job.skipped \cup {[path |-> p, reason |-> "too_large"]}
      /\ large.listed = job.listed /\ large.files = job.files /\ large.written = job.written
      /\ listed.listed = With(job.listed, p, StatOf(p))
      /\ listed.skipped = job.skipped /\ listed.files = job.files /\ listed.written = job.written
  BY <1>1 DEF JobFields
<1> HIDE DEF large, listed
<1>5. \/ /\ Present(p) /\ Size[files[p].text] > MaxFileBytes
         /\ job'.listed = job.listed /\ job'.skipped = job.skipped \cup {[path |-> p, reason |-> "too_large"]}
      \/ /\ Present(p) /\ \A q \in Above[p] : q \notin DOMAIN job.listed
         /\ job'.listed = With(job.listed, p, StatOf(p)) /\ job'.skipped = job.skipped
      \/ /\ Seen(Absent) \in had[p]
         /\ job'.listed = job.listed /\ job'.skipped = job.skipped
  BY <1>1, <1>3, <1>4, NextPlace
<1>6. /\ DOMAIN job' = JobFields /\ job'.at \in Walked
      /\ job'.files = job.files /\ job'.written = job.written
      /\ \/ /\ pc' = "walk" /\ \A i \in Walked : i < job'.at <=> i = job.at \/ i < job.at
         \/ /\ pc' = "stat" /\ (\A i \in Walked : i = job.at \/ i < job.at)
            /\ \A i \in Walked : ~(i < job'.at)
  BY <1>1, <1>3, <1>4, NextPlace
<1>7. Shapes' /\ Seeing' /\ Caching' /\ Restoring'
  <2>1. \A q \in DOMAIN detected' : q \in Paths /\ Apt(q, detected'[q], {detected'[q].sha})
    BY <1>1 DEF SnapInv, Caching
  <2>2. Skips(job'.skipped)
    <3>1. CASE job'.skipped = job.skipped
      BY <1>1, <3>1 DEF SnapInv, Restoring, SnapshotSteps
    <3>2. CASE /\ Present(p) /\ Size[files[p].text] > MaxFileBytes
               /\ job'.skipped = job.skipped \cup {[path |-> p, reason |-> "too_large"]}
      <4>1. restored # 0 => p \in DOMAIN commits[restored] /\ ~Lasting(commits[restored][p].oid)
        <5> SUFFICES ASSUME restored # 0
                     PROVE  p \in DOMAIN commits[restored] /\ ~Lasting(commits[restored][p].oid)
          OBVIOUS
        <5>1. p \in DOMAIN commits[restored] /\ files[p].text \in CheckedOut[commits[restored][p].oid]
          BY <1>2, <3>2 DEF SnapInv, Restoring, Present, Absent
        <5>2. files[p].text \in Contents
          BY <3>2 DEF SnapInv, Shapes, Present, Absent, Files
        <5> QED
          BY <3>2, <5>1, <5>2, ContentsAssumption DEF Lasting
      <4>2. Skips(job.skipped)
        BY <1>1 DEF SnapInv, Restoring, SnapshotSteps
      <4> QED
        BY <3>2, <4>1, <4>2 DEF Skips
    <3> QED
      BY <1>5, <3>1, <3>2
  <2>3. DOMAIN had' = Paths /\ (\A q \in Paths : Seen(files[q]) \in had'[q])
        /\ (restored # 0 => \A q \in Paths \ Excluded : had'[q] = {Seen(files[q])})
    BY <1>1 DEF SnapInv, Shapes, Seeing, Restoring
  <2> QED
    BY <1>1, <1>6, <2>1, <2>2, <2>3, Frame DEF SnapshotSteps
<1>8. /\ DOMAIN job.listed \subseteq Paths \ Excluded /\ Flat(DOMAIN job.listed)
      /\ \A q \in DOMAIN job.listed : ListedFile(q, job.listed[q]) /\ \E i \in Walked : i < job.at /\ Order[i] = q
  BY <1>1 DEF SnapInv, Listing, SnapshotSteps
<1>9. /\ DOMAIN job.listed \subseteq DOMAIN job'.listed
      /\ \A q \in DOMAIN job'.listed : q = p \/ (q \in DOMAIN job.listed /\ job'.listed[q] = job.listed[q])
      /\ p \in DOMAIN job'.listed =>
           \/ job'.listed = job.listed
           \/ Present(p) /\ (\A q \in Above[p] : q \notin DOMAIN job.listed) /\ job'.listed[p] = StatOf(p)
  <2>1. CASE job'.listed = job.listed
    BY <2>1
  <2>2. CASE /\ Present(p) /\ \A q \in Above[p] : q \notin DOMAIN job.listed
             /\ job'.listed = With(job.listed, p, StatOf(p))
    BY <2>2 DEF With
  <2> QED
    BY <1>5, <2>1, <2>2, Zenon
<1>10. Present(p) => ListedFile(p, StatOf(p))
  <2> SUFFICES ASSUME Present(p) PROVE ListedFile(p, StatOf(p))
    OBVIOUS
  <2>1. files[p] \in Files
    BY <1>2 DEF SnapInv, Shapes, Present, Absent
  <2>2. StatOf(p).mtime = files[p].mtime /\ StatOf(p).ino = files[p].ino /\ StatOf(p).mode = files[p].mode
    BY DEF StatOf
  <2>3. Own(StatOf(p).ino) /\ StatOf(p).mtime \in Nat
    BY <1>2, <2>1, <2>2 DEF SnapInv, Seeing, Files, Own
  <2>4. p \in DOMAIN Cached /\ IsStatCacheHit(Cached[p], StatOf(p)) => Sanitized[files[p].text] = Cached[p].oid
    <3> HAVE p \in DOMAIN Cached /\ IsStatCacheHit(Cached[p], StatOf(p))
    <3>1. Cached = cache.files /\ cache.base # 0
      BY DEF Cached
    <3>2. Apt(p, cache.files[p], Sources(cache.files[p].oid))
      BY <3>1 DEF SnapInv, Caching
    <3>3. files[p].text \in Sources(cache.files[p].oid)
      BY <2>2, <3>1, <3>2 DEF IsStatCacheHit, Apt
    <3> QED
      BY <3>1, <3>3 DEF Sources
  <2> QED
    BY <1>2, <2>1, <2>2, <2>3, <2>4 DEF ListedFile, Seen, Files
<1>11. Listing'
  <2>1. DOMAIN job'.listed \subseteq Paths \ Excluded
    BY <1>2, <1>8, <1>9
  <2>2. \A q \in DOMAIN job'.listed : ListedFile(q, job'.listed[q])
    BY <1>8, <1>9, <1>10
  <2>3. Flat(DOMAIN job'.listed)
    <3>1. \A q \in DOMAIN job.listed : p \notin Above[q]
      <4> TAKE q \in DOMAIN job.listed
      <4>1. PICK i \in Walked : i < job.at /\ Order[i] = q
        BY <1>8
      <4>2. i \in DOMAIN Order /\ job.at \in DOMAIN Order /\ i \in Nat
        BY <1>1, <4>1, PathsAssumption DEF Walked
      <4> QED
        BY <1>0, <4>1, <4>2, PathsAssumption
    <3>2. p \notin Above[p]
      BY <1>1, <1>0, PathsAssumption DEF Walked
    <3> QED
      BY <1>8, <1>9, <3>1, <3>2 DEF Flat
  <2>4. pc' = "walk" => \A q \in DOMAIN job'.listed : \E i \in Walked : i < job'.at /\ Order[i] = q
    BY <1>1, <1>0, <1>6, <1>8, <1>9
  <2>5. \A q \in DOMAIN job'.listed : ListedFile(q, job.listed[q])'
    BY <1>1, <2>2, Kept
  <2>6. pc' # "read"
    BY <1>6
  <2> QED
    BY <2>1, <2>3, <2>4, <2>5, <2>6 DEF Listing
<1>12. Taking'
  <2>1. /\ DOMAIN job.files \subseteq DOMAIN job.listed
        /\ \A q \in DOMAIN job.files : TakenFile(q, job.files[q])
        /\ job.written \subseteq DOMAIN job.files
        /\ \A q \in DOMAIN job.files \ job.written :
             q \in DOMAIN ParentTree /\ ParentTree[q] = [mode |-> job.files[q].mode, oid |-> job.files[q].oid]
    BY <1>1 DEF SnapInv, Taking, SnapshotSteps
  <2>2. \A q \in DOMAIN job'.files : TakenFile(q, job.files[q])'
    BY <1>1, <1>6, <2>1, Kept
  <2>3. ParentTree' = ParentTree
    BY <1>1, Kept
  <2> QED
    BY <1>6, <1>9, <2>1, <2>2, <2>3 DEF Taking
<1>13. Passing'
  <2>1. \A i \in Walked : i < job.at => Order[i] \in DOMAIN job.listed \/ Excused(Order[i])
    BY <1>1 DEF SnapInv, Passing
  <2>2. \A q : Excused(q) => Excused(q)'
    BY <1>1, <1>5, Kept
  <2>3. p \in DOMAIN job'.listed \/ Excused(p)'
    <3>1. CASE Present(p) /\ Size[files[p].text] > MaxFileBytes
               /\ job'.skipped = job.skipped \cup {[path |-> p, reason |-> "too_large"]}
      <4>1. [path |-> p, reason |-> "too_large"] \in job'.skipped
        BY <3>1
      <4>2. Seen(files[p]) \in had'[p] /\ Seen(files[p]).text = files[p].text
        BY <1>1, <1>2 DEF Seen
      <4> QED
        BY <3>1, <4>1, <4>2 DEF Excused, ExcusedBy
    <3>2. CASE job'.listed = With(job.listed, p, StatOf(p))
      BY <3>2 DEF With
    <3>3. CASE Seen(Absent) \in had[p]
      BY <1>1, <3>3 DEF Excused, ExcusedBy, Seen, Absent
    <3> QED
      BY <1>5, <3>1, <3>2, <3>3
  <2>4. \A i \in Walked : i = job.at \/ i < job.at => Order[i] \in DOMAIN job'.listed \/ Excused(Order[i])'
    BY <1>0, <1>9, <2>1, <2>2, <2>3, Zenon
  <2> QED
    BY <1>6, <2>4 DEF Passing
<1>14. Detecting'
  BY <1>6 DEF Detecting, DetectSteps
<1> QED
  BY <1>7, <1>11, <1>12, <1>13, <1>14 DEF SnapInv

\* The second walk goes on past a path that was taken into the tree, or is
\* left out for a reason.
LEMMA WalkGoesOn ==
  ASSUME SnapInv, pc \in {"stat", "read"},
         UNCHANGED <<files, outside, now, commits, current, cache, detected, had, restored>>,
         NEW p, p = Order[job.at], NEW j, NextFile(j, "stat", "commit"),
         DOMAIN j = JobFields, j.listed = job.listed,
         \/ j.skipped = job.skipped
         \/ /\ job.skipped \subseteq j.skipped
            /\ Skips(j.skipped),
         \/ j.files = job.files /\ j.written = job.written /\ ExcusedBy(j.skipped, p)
         \/ /\ p \in DOMAIN job.listed
            /\ \E e : /\ TakenFile(p, e) /\ j.files = With(job.files, p, e)
                     /\ \/ j.written = job.written \cup {p}
                        \/ /\ j.written = job.written
                           /\ p \in DOMAIN ParentTree /\ ParentTree[p] = [mode |-> e.mode, oid |-> e.oid]
  PROVE  SnapInv'
<1>1. /\ pc \in SnapshotSteps /\ job.at \in Walked /\ DOMAIN job = JobFields
      /\ job.skipped \subseteq j.skipped
  BY DEF SnapInv, Shapes, SnapshotSteps
<1>2. p \in Paths \ Excluded
  BY <1>1, PlaceIsPath
<1>3. /\ DOMAIN job' = JobFields /\ job'.at \in Walked /\ job'.listed = job.listed
      /\ job'.files = j.files /\ job'.written = j.written /\ job'.skipped = j.skipped
      /\ \/ /\ pc' = "stat" /\ \A i \in Walked : i < job'.at <=> i = job.at \/ i < job.at
         \/ /\ pc' = "commit" /\ (\A i \in Walked : i = job.at \/ i < job.at)
  BY <1>1, NextPlace
<1>4. Shapes' /\ Seeing' /\ Caching' /\ Restoring'
  <2>1. \A q \in DOMAIN detected' : q \in Paths /\ Apt(q, detected'[q], {detected'[q].sha})
    BY DEF SnapInv, Caching
  <2>2. Skips(job'.skipped)
    BY <1>1, <1>3 DEF SnapInv, Restoring
  <2>3. DOMAIN had' = Paths /\ (\A q \in Paths : Seen(files[q]) \in had'[q])
        /\ (restored # 0 => \A q \in Paths \ Excluded : had'[q] = {Seen(files[q])})
    BY <1>1 DEF SnapInv, Shapes, Seeing, Restoring, SnapshotSteps
  <2> QED
    BY <1>3, <2>1, <2>2, <2>3, Frame DEF SnapshotSteps
<1>5. Listing'
  <2>1. /\ DOMAIN job.listed \subseteq Paths \ Excluded /\ Flat(DOMAIN job.listed)
        /\ \A q \in DOMAIN job.listed : ListedFile(q, job.listed[q])
    BY <1>1 DEF SnapInv, Listing
  <2>2. \A q \in DOMAIN job'.listed : ListedFile(q, job.listed[q])'
    BY <1>3, <2>1, Kept
  <2> QED
    BY <1>3, <2>1, <2>2 DEF Listing
<1>6. /\ DOMAIN job.files \subseteq DOMAIN job.listed
      /\ \A q \in DOMAIN job.files : TakenFile(q, job.files[q])
      /\ job.written \subseteq DOMAIN job.files
      /\ \A q \in DOMAIN job.files \ job.written :
           q \in DOMAIN ParentTree /\ ParentTree[q] = [mode |-> job.files[q].mode, oid |-> job.files[q].oid]
  BY <1>1 DEF SnapInv, Taking
<1>7. /\ DOMAIN j.files \subseteq DOMAIN job.listed
      /\ \A q \in DOMAIN j.files : TakenFile(q, j.files[q])
      /\ j.written \subseteq DOMAIN j.files
      /\ \A q \in DOMAIN j.files \ j.written :
           q \in DOMAIN ParentTree /\ ParentTree[q] = [mode |-> j.files[q].mode, oid |-> j.files[q].oid]
      /\ DOMAIN job.files \subseteq DOMAIN j.files
      /\ p \in DOMAIN j.files \/ ExcusedBy(j.skipped, p)
  <2>1. CASE j.files = job.files /\ j.written = job.written /\ ExcusedBy(j.skipped, p)
    BY <1>6, <2>1
  <2>2. CASE /\ p \in DOMAIN job.listed
             /\ \E e : /\ TakenFile(p, e) /\ j.files = With(job.files, p, e)
                      /\ \/ j.written = job.written \cup {p}
                         \/ /\ j.written = job.written
                            /\ p \in DOMAIN ParentTree /\ ParentTree[p] = [mode |-> e.mode, oid |-> e.oid]
    <3>1. PICK e : /\ TakenFile(p, e) /\ j.files = With(job.files, p, e)
                   /\ \/ j.written = job.written \cup {p}
                      \/ /\ j.written = job.written
                         /\ p \in DOMAIN ParentTree /\ ParentTree[p] = [mode |-> e.mode, oid |-> e.oid]
      BY <2>2
    <3>2. /\ DOMAIN j.files = DOMAIN job.files \cup {p} /\ j.files[p] = e
          /\ \A q \in DOMAIN job.files : q # p => j.files[q] = job.files[q]
      BY <3>1 DEF With
    <3> QED
      BY <1>6, <2>2, <3>1, <3>2
  <2> QED
    BY <2>1, <2>2
<1>8. Taking'
  <2>1. \A q \in DOMAIN job'.files : TakenFile(q, j.files[q]) <=> TakenFile(q, job.files[q])'
    BY <1>3, Kept
  <2>2. ParentTree' = ParentTree
    BY Kept
  <2> QED
    BY <1>3, <1>7, <2>1, <2>2 DEF Taking
<1>9. Passing'
  <2>1. \A i \in Walked :
          /\ Order[i] \in DOMAIN job.listed \/ Excused(Order[i])
          /\ i < job.at => Order[i] \in DOMAIN job.files \/ Excused(Order[i])
    BY DEF SnapInv, Passing
  <2>2. \A q : Excused(q) => Excused(q)'
    BY <1>1, <1>3, Kept
  <2>3. ExcusedBy(j.skipped, p) => Excused(p)'
    BY <1>3 DEF Excused, ExcusedBy, Seen, Absent
  <2>4. \A i \in Walked : i = job.at \/ i < job.at => Order[i] \in DOMAIN job'.files \/ Excused(Order[i])'
    BY <1>3, <1>7, <2>1, <2>2, <2>3, Zenon
  <2> QED
    BY <1>3, <2>1, <2>2, <2>4 DEF Passing
<1>10. Detecting'
  BY <1>3 DEF Detecting, DetectSteps
<1> QED
  BY <1>4, <1>5, <1>8, <1>9, <1>10 DEF SnapInv

\* A path is statted: what a cache hit stands for was there.
LEMMA StatStep ==
  ASSUME SnapInv, Stat
  PROVE  SnapInv'
<1>1. /\ pc = "stat" /\ job.at \in Walked /\ DOMAIN job = JobFields
      /\ UNCHANGED <<files, outside, now, commits, current, cache, detected, had, restored>>
  BY DEF Stat, SnapInv, Shapes
<1>2. PICK p \in Paths \ Excluded : p = Order[job.at]
  BY <1>1, PlaceIsPath
<1>3. CASE p \notin DOMAIN job.listed /\ NextFile(job, "stat", "commit")
  <2>1. ExcusedBy(job.skipped, p)
    BY <1>1, <1>2, <1>3 DEF SnapInv, Passing, Excused
  <2> QED
    BY <1>1, <1>2, <1>3, <2>1, WalkGoesOn
<1>4. CASE /\ p \in DOMAIN job.listed /\ p \in DOMAIN Cached /\ IsStatCacheHit(Cached[p], job.listed[p])
           /\ NextFile([job EXCEPT !.files = With(@, p, Cached[p])], "stat", "commit")
  <2> DEFINE j == [job EXCEPT !.files = With(@, p, Cached[p])]
  <2>1. /\ DOMAIN j = JobFields /\ j.listed = job.listed /\ j.skipped = job.skipped
        /\ j.files = With(job.files, p, Cached[p]) /\ j.written = job.written
    BY <1>1 DEF JobFields
  <2>2. Cached = cache.files /\ cache.base # 0 /\ current # 0 /\ cache.base = current
    BY <1>4 DEF Cached
  <2>3. ListedFile(p, job.listed[p])
    BY <1>1, <1>4 DEF SnapInv, Listing, SnapshotSteps
  <2>4. TakenFile(p, Cached[p])
    <3>1. Apt(p, Cached[p], Sources(Cached[p].oid))
      BY <1>4, <2>2 DEF SnapInv, Caching
    <3>2. /\ p \in DOMAIN commits[cache.base]
          /\ commits[cache.base][p] = [mode |-> Cached[p].mode, oid |-> Cached[p].oid]
      BY <1>4, <2>2 DEF SnapInv, Caching, CacheIsBaseTree
    <3>3. commits[cache.base] \in Trees
      BY <2>2 DEF SnapInv, Shapes
    <3>4. Cached[p].oid # Skip
      BY <3>2, <3>3, ContentsAssumption DEF Trees
    <3>5. job.listed[p].mode = Cached[p].mode
      BY <1>4 DEF IsStatCacheHit
    <3> QED
      BY <1>4, <2>3, <3>1, <3>4, <3>5 DEF TakenFile, ListedFile
  <2>5. p \in DOMAIN ParentTree /\ ParentTree[p] = [mode |-> Cached[p].mode, oid |-> Cached[p].oid]
    BY <1>4, <2>2 DEF ParentTree
  <2> HIDE DEF j
  <2>6. NextFile(j, "stat", "commit")
    BY <1>4 DEF j
  <2> QED
    BY <1>1, <1>2, <1>4, <2>1, <2>4, <2>5, <2>6, WalkGoesOn
<1>5. CASE /\ p \in DOMAIN job.listed /\ pc' = "read" /\ job' = [job EXCEPT !.stamp = now]
  <2>1. /\ DOMAIN job' = JobFields /\ job'.at = job.at /\ job'.listed = job.listed /\ job'.stamp = now
        /\ job'.files = job.files /\ job'.written = job.written /\ job'.skipped = job.skipped
    BY <1>1, <1>5 DEF JobFields
  <2>2. Shapes' /\ Seeing' /\ Caching' /\ Restoring'
    <3>1. \A q \in DOMAIN detected' : q \in Paths /\ Apt(q, detected'[q], {detected'[q].sha})
      BY <1>1 DEF SnapInv, Caching
    <3>2. Skips(job'.skipped)
      BY <1>1, <2>1 DEF SnapInv, Restoring, SnapshotSteps
    <3>3. DOMAIN had' = Paths /\ (\A q \in Paths : Seen(files[q]) \in had'[q])
          /\ (restored # 0 => \A q \in Paths \ Excluded : had'[q] = {Seen(files[q])})
      BY <1>1 DEF SnapInv, Shapes, Seeing, Restoring, SnapshotSteps
    <3> QED
      BY <1>1, <1>5, <2>1, <3>1, <3>2, <3>3, Frame DEF SnapshotSteps
  <2>3. Listing'
    <3>1. /\ DOMAIN job.listed \subseteq Paths \ Excluded /\ Flat(DOMAIN job.listed)
          /\ \A q \in DOMAIN job.listed : ListedFile(q, job.listed[q])
      BY <1>1 DEF SnapInv, Listing, SnapshotSteps
    <3>2. \A q \in DOMAIN job'.listed : ListedFile(q, job.listed[q])'
      BY <1>1, <2>1, <3>1, Kept
    <3>3. job'.stamp \in Nat /\ job'.stamp <= now'
      BY <1>1, <2>1 DEF SnapInv, Shapes
    <3>4. Order[job'.at] \in DOMAIN job'.listed
      BY <1>2, <1>5, <2>1
    <3> QED
      BY <1>5, <2>1, <3>1, <3>2, <3>3, <3>4 DEF Listing
  <2>4. Taking'
    <3>1. /\ DOMAIN job.files \subseteq DOMAIN job.listed
          /\ \A q \in DOMAIN job.files : TakenFile(q, job.files[q])
          /\ job.written \subseteq DOMAIN job.files
          /\ \A q \in DOMAIN job.files \ job.written :
               q \in DOMAIN ParentTree /\ ParentTree[q] = [mode |-> job.files[q].mode, oid |-> job.files[q].oid]
      BY <1>1 DEF SnapInv, Taking, SnapshotSteps
    <3>2. \A q \in DOMAIN job'.files : TakenFile(q, job.files[q])'
      BY <1>1, <2>1, <3>1, Kept
    <3>3. ParentTree' = ParentTree
      BY <1>1, Kept
    <3> QED
      BY <2>1, <3>1, <3>2, <3>3 DEF Taking
  <2>5. Passing'
    <3>1. \A q : Excused(q) => Excused(q)'
      BY <1>1, <2>1, Kept
    <3>2. \A i \in Walked :
            /\ Order[i] \in DOMAIN job.listed \/ Excused(Order[i])
            /\ i < job.at => Order[i] \in DOMAIN job.files \/ Excused(Order[i])
      BY <1>1 DEF SnapInv, Passing
    <3> QED
      BY <1>5, <2>1, <3>1, <3>2 DEF Passing
  <2>6. Detecting'
    BY <1>5 DEF Detecting, DetectSteps
  <2> QED
    BY <2>2, <2>3, <2>4, <2>5, <2>6 DEF SnapInv
<1> QED
  <2>1. IF p \notin DOMAIN job.listed THEN NextFile(job, "stat", "commit")
        ELSE IF p \in DOMAIN Cached /\ IsStatCacheHit(Cached[p], job.listed[p])
        THEN NextFile([job EXCEPT !.files = With(@, p, Cached[p])], "stat", "commit")
        ELSE pc' = "read" /\ job' = [job EXCEPT !.stamp = now]
    BY <1>2 DEF Stat
  <2> QED
    BY <1>3, <1>4, <1>5, <2>1, Zenon

\* After a pass ends nothing of it is left.
LEMMA Ended ==
  ASSUME SnapInv, End, UNCHANGED <<files, outside, now, commits, current, cache, restored>>,
         \A p \in DOMAIN detected' : p \in Paths /\ Apt(p, detected'[p], {detected'[p].sha})
  PROVE  SnapInv'
<1>1. /\ pc' = "idle" /\ DOMAIN job' = JobFields /\ DOMAIN had' = Paths
  BY DEF End, NoJob, Nothing, JobFields
<1>2. Shapes' /\ Seeing' /\ Caching' /\ Restoring'
  BY <1>1, Frame DEF SnapshotSteps
<1>3. Listing' /\ Taking' /\ Passing' /\ Detecting'
  BY <1>1 DEF Listing, Taking, Passing, Detecting, SnapshotSteps, DetectSteps
<1> QED
  BY <1>2, <1>3 DEF SnapInv

\* A path is read: what is taken is what is there, with the mode of its lstat.
LEMMA ReadStep ==
  ASSUME SnapInv, Read
  PROVE  SnapInv'
<1>1. /\ pc = "read" /\ job.at \in Walked /\ DOMAIN job = JobFields
      /\ UNCHANGED <<files, outside, now, commits, current, cache, detected, restored>>
  BY DEF Read, SnapInv, Shapes
<1>2. PICK p \in Paths \ Excluded : p = Order[job.at]
  BY <1>1, PlaceIsPath
<1>3. Seen(files[p]) \in had[p] /\ p \in DOMAIN job.listed
  BY <1>1, <1>2 DEF SnapInv, Seeing, Listing, SnapshotSteps
<1>4. CASE Present(p) /\ NextFile(Take(p, files[p].text), "stat", "commit") /\ UNCHANGED had
  <2> DEFINE text == files[p].text
             stat == job.listed[p]
             e == [mode |-> stat.mode, oid |-> Sanitized[text], size |-> stat.size,
                   mtime |-> stat.mtime, ino |-> stat.ino, hashedAt |-> job.stamp]
             j == Take(p, text)
  <2>1. text \in Contents
    BY <1>2, <1>4 DEF SnapInv, Shapes, Present, Absent, Files
  <2>2. CASE Sanitized[text] = Skip
    <3>1. j = [job EXCEPT !.skipped = @ \cup {[path |-> p, reason |-> "secret_detected"]}]
      BY <2>2 DEF Take
    <3> HIDE DEF j
    <3>2. /\ DOMAIN j = JobFields /\ j.listed = job.listed /\ j.files = job.files /\ j.written = job.written
          /\ j.skipped = job.skipped \cup {[path |-> p, reason |-> "secret_detected"]}
      BY <1>1, <3>1 DEF JobFields
    <3>3. Skips(j.skipped)
      <4>1. restored # 0 => p \in DOMAIN commits[restored] /\ ~Lasting(commits[restored][p].oid)
        <5> SUFFICES ASSUME restored # 0
                     PROVE  p \in DOMAIN commits[restored] /\ ~Lasting(commits[restored][p].oid)
          OBVIOUS
        <5>1. p \in DOMAIN commits[restored] /\ text \in CheckedOut[commits[restored][p].oid]
          BY <1>2, <1>4 DEF SnapInv, Restoring, Present, Absent
        <5> QED
          BY <2>1, <2>2, <5>1, ContentsAssumption DEF Lasting
      <4>2. Skips(job.skipped)
        BY <1>1 DEF SnapInv, Restoring, SnapshotSteps
      <4> QED
        BY <3>2, <4>1, <4>2 DEF Skips
    <3>4. ExcusedBy(j.skipped, p)
      <4>1. [path |-> p, reason |-> "secret_detected"] \in j.skipped
        BY <3>2
      <4>2. Seen(files[p]).text = text
        BY DEF Seen
      <4> QED
        BY <1>3, <2>2, <4>1, <4>2 DEF ExcusedBy
    <3>5. NextFile(j, "stat", "commit")
      BY <1>4 DEF j
    <3> QED
      BY <1>1, <1>2, <1>4, <3>2, <3>3, <3>4, <3>5, WalkGoesOn
  <2>3. CASE Sanitized[text] # Skip
    <3> DEFINE changed == p \notin DOMAIN ParentTree \/ ParentTree[p] # [mode |-> e.mode, oid |-> e.oid]
    <3>1. j = [job EXCEPT !.files = With(@, p, e), !.written = IF changed THEN @ \cup {p} ELSE @]
      BY <2>3 DEF Take
    <3>2. TakenFile(p, e)
      <4>1. ListedFile(p, stat)
        BY <1>1, <1>3 DEF SnapInv, Listing, SnapshotSteps
      <4>2. job.stamp \in Nat /\ job.stamp <= now
        BY <1>1 DEF SnapInv, Listing, SnapshotSteps
      <4>3. text \in Sources(Sanitized[text])
        BY <2>1 DEF Sources
      <4>4. Seen(files[p]).text = text
        BY DEF Seen
      <4>5. Apt(p, e, Sources(e.oid))
        BY <4>1, <4>2, <4>3 DEF Apt, ListedFile
      <4> HIDE DEF stat, text
      <4> QED
        BY <1>3, <2>1, <2>3, <4>1, <4>4, <4>5 DEF TakenFile, ListedFile
    <3> HIDE DEF j, e
    <3>3. /\ DOMAIN j = JobFields /\ j.listed = job.listed /\ j.skipped = job.skipped
          /\ j.files = With(job.files, p, e)
          /\ j.written = IF changed THEN job.written \cup {p} ELSE job.written
      BY <1>1, <3>1 DEF JobFields
    <3>4. NextFile(j, "stat", "commit")
      BY <1>4 DEF j
    <3> QED
      BY <1>1, <1>2, <1>3, <1>4, <3>2, <3>3, <3>4, WalkGoesOn
  <2> QED
    BY <2>2, <2>3
<1>5. CASE End
  <2>1. \A q \in DOMAIN detected' : q \in Paths /\ Apt(q, detected'[q], {detected'[q].sha})
    BY <1>1 DEF SnapInv, Caching
  <2> QED
    BY <1>1, <1>5, <2>1, Ended
<1>6. CASE ~Present(p) /\ NextFile(job, "stat", "commit") /\ UNCHANGED had
  <2>1. files[p] = Absent
    <3>1. files[p] \in Files \cup {Absent}
      BY <1>2 DEF SnapInv, Shapes
    <3>2. files[p].text = Gone
      BY <1>6 DEF Present
    <3> QED
      BY <3>1, <3>2, ContentsAssumption DEF Files
  <2>2. ExcusedBy(job.skipped, p)
    BY <1>3, <2>1 DEF ExcusedBy
  <2> QED
    BY <1>1, <1>2, <1>6, <2>2, WalkGoesOn
<1> QED
  BY <1>2, <1>4, <1>5, <1>6 DEF Read

-----------------------------------------------------------------------------
(* The commit.                                                               *)

\* What the delta was made against is the tree of the parent commit.
LEMMA ParentIsCommitted ==
  ASSUME SnapInv
  PROVE  ParentTree = IF current = 0 THEN <<>> ELSE commits[current]
BY DEF SnapInv, Caching, CacheIsBaseTree, ParentTree

\* The delta makes of the parent's tree that of the files taken.
LEMMA TreeOfPass ==
  ASSUME SnapInv, pc = "commit"
  PROVE  /\ CommitTree = [p \in DOMAIN job.files |-> [mode |-> job.files[p].mode, oid |-> job.files[p].oid]]
         /\ CommitTree \in Trees /\ Flat(DOMAIN CommitTree)
<1> DEFINE parent == IF current = 0 THEN <<>> ELSE commits[current]
           tree == [p \in DOMAIN job.files |-> [mode |-> job.files[p].mode, oid |-> job.files[p].oid]]
<1>1. /\ DOMAIN job.files \subseteq DOMAIN job.listed
      /\ \A p \in DOMAIN job.files : TakenFile(p, job.files[p])
      /\ job.written \subseteq DOMAIN job.files
      /\ \A p \in DOMAIN job.files \ job.written :
           p \in DOMAIN ParentTree /\ ParentTree[p] = [mode |-> job.files[p].mode, oid |-> job.files[p].oid]
  BY DEF SnapInv, Taking, SnapshotSteps
<1>2. ParentTree = parent
  BY ParentIsCommitted
<1>3. CommitTree = tree
  <2>1. CommitTree = [p \in job.written \cup (DOMAIN parent \ Deleted) |->
                        IF p \in job.written THEN Entry(p) ELSE parent[p]]
    BY DEF CommitTree
  <2>2. Deleted = DOMAIN parent \ DOMAIN job.files
    BY <1>2 DEF Deleted
  <2> HIDE DEF parent
  <2>3. job.written \cup (DOMAIN parent \ Deleted) = DOMAIN job.files
    BY <1>1, <1>2, <2>2
  <2>4. \A p \in DOMAIN job.files :
          (IF p \in job.written THEN Entry(p) ELSE parent[p]) = [mode |-> job.files[p].mode, oid |-> job.files[p].oid]
    BY <1>1, <1>2 DEF Entry
  <2> QED
    BY <2>1, <2>3, <2>4
<1>4. ASSUME NEW p \in DOMAIN job.files
      PROVE  job.files[p].mode \in Modes /\ job.files[p].oid \in Contents
  BY <1>1, <1>4, ContentsAssumption DEF TakenFile
<1>5. DOMAIN job.files \subseteq Paths \ Excluded /\ Flat(DOMAIN job.files)
  BY <1>1 DEF SnapInv, Listing, SnapshotSteps, Flat
<1>6. tree \in [DOMAIN job.files -> [mode : Modes, oid : Contents]]
  BY <1>4
<1>7. tree \in Trees
  BY <1>5, <1>6 DEF Trees
<1> QED
  BY <1>3, <1>4, <1>5, <1>7

\* A commit is added to those that there are.
LEMMA Committed ==
  ASSUME SnapInv, pc = "commit", commits' = Append(commits, CommitTree)
  PROVE  /\ commits' \in Seq(Trees) /\ Len(commits') = Len(commits) + 1 /\ Len(commits) \in Nat
         /\ \A c \in DOMAIN commits : commits'[c] = commits[c]
         /\ commits'[Len(commits) + 1] = CommitTree
         /\ DOMAIN commits' = DOMAIN commits \cup {Len(commits) + 1}
<1>1. commits \in Seq(Trees) /\ CommitTree \in Trees
  BY TreeOfPass DEF SnapInv, Shapes
<1> HIDE DEF CommitTree
<1> QED
  BY <1>1

\* A pass that comes to its commit ends, with a commit more or as many, and with
\* a cache of that commit or without one.
LEMMA PassCommitted ==
  ASSUME SnapInv, pc = "commit", End, UNCHANGED <<files, outside, now, detected, restored>>,
         \/ commits' = Append(commits, CommitTree) /\ current' = Len(commits) + 1
         \/ UNCHANGED <<commits, current>>,
         \/ cache' = NoCache
         \/ /\ commits' = Append(commits, CommitTree)
            /\ cache' = [base |-> Len(commits) + 1, files |-> job.files]
  PROVE  SnapInv'
<1>1. /\ pc' = "idle" /\ DOMAIN job' = JobFields /\ DOMAIN had' = Paths
  BY DEF End, NoJob, Nothing, JobFields
<1>2. /\ commits' \in Seq(Trees) /\ Len(commits) \in Nat /\ Len(commits) <= Len(commits')
      /\ current' \in 0..Len(commits')
      /\ \A c \in DOMAIN commits : c \in DOMAIN commits' /\ commits'[c] = commits[c]
  BY Committed DEF SnapInv, Shapes
<1>3. Shapes'
  <2>1. DOMAIN cache' = {"base", "files"} /\ cache'.base \in 0..Len(commits')
    BY <1>2, Committed DEF NoCache
  <2> QED
    BY <1>1, <1>2, <2>1 DEF SnapInv, Shapes
<1>4. Seeing'
  BY <1>1 DEF SnapInv, Seeing, Present, Own
<1>5. Caching'
  <2>1. \A p \in DOMAIN detected' : p \in Paths /\ Apt(p, detected[p], {detected[p].sha})'
    BY DEF SnapInv, Caching, Apt, Own, Present
  <2>2. CASE cache' = NoCache
    BY <2>1, <2>2 DEF Caching, CacheIsBaseTree, NoCache
  <2>3. CASE commits' = Append(commits, CommitTree) /\ cache' = [base |-> Len(commits) + 1, files |-> job.files]
    <3>1. cache'.base = Len(commits) + 1 /\ cache'.files = job.files
      BY <2>3
    <3>2. commits'[cache'.base] = [p \in DOMAIN job.files |-> [mode |-> job.files[p].mode, oid |-> job.files[p].oid]]
      BY <2>3, <3>1, Committed, TreeOfPass
    <3>3. CacheIsBaseTree'
      BY <3>1, <3>2 DEF CacheIsBaseTree
    <3>4. \A p \in DOMAIN job.files : p \in Paths /\ Apt(p, job.files[p], Sources(job.files[p].oid))
      BY DEF SnapInv, Listing, Taking, TakenFile, SnapshotSteps
    <3>5. \A p \in DOMAIN cache'.files : p \in Paths /\ Apt(p, cache.files[p], Sources(cache.files[p].oid))'
      BY <3>1, <3>4 DEF Apt, Own, Present, Sources
    <3> QED
      BY <2>1, <3>3, <3>5 DEF Caching
  <2> QED
    BY <2>2, <2>3
<1>6. Listing' /\ Taking' /\ Passing' /\ Detecting'
  BY <1>1 DEF Listing, Taking, Passing, Detecting, SnapshotSteps, DetectSteps
<1>7. Restoring'
  <2>1. \A c \in DOMAIN commits' : Flat(DOMAIN commits'[c])
    BY Committed, TreeOfPass DEF SnapInv, Restoring
  <2>2. restored # 0 => restored \in DOMAIN commits
    BY DEF SnapInv, Shapes
  <2>3. restored' # 0 =>
          \A p \in Paths \ Excluded :
            /\ p \in DOMAIN commits'[restored'] =>
                 /\ files'[p].text \in CheckedOut[commits'[restored'][p].oid]
                 /\ files'[p].mode = commits'[restored'][p].mode
            /\ p \notin DOMAIN commits'[restored'] => files'[p] = Absent
    BY <1>2, <2>2 DEF SnapInv, Restoring
  <2> QED
    BY <1>1, <2>1, <2>3 DEF Restoring, SnapshotSteps
<1> QED
  BY <1>3, <1>4, <1>5, <1>6, <1>7 DEF SnapInv

\* Whether the commit is made or fails, the pass ends.
LEMMA CommitStep ==
  ASSUME SnapInv, Commit \/ CommitFails
  PROVE  SnapInv'
BY PassCommitted DEF Commit, CommitFails

-----------------------------------------------------------------------------
(* A restore.                                                                *)

\* A restore writes files that are younger than any entry that will be trusted,
\* and leaves of the others only those that no pass is about.
LEMMA RestoreStep ==
  ASSUME SnapInv, Restore
  PROVE  SnapInv'
<1>1. /\ pc = "idle" /\ pc' = "idle" /\ cache' = NoCache
      /\ UNCHANGED <<outside, now, commits, detected, job, had>>
  BY DEF Restore
<1>0. PICK c \in DOMAIN commits :
        /\ \E text \in [DOMAIN commits[c] -> Contents], ino \in [Paths -> Inodes] :
             /\ \A p \in DOMAIN commits[c] : text[p] \in CheckedOut[commits[c][p].oid]
             /\ files' = [p \in Paths |-> RestoredFile(commits[c], p, text, ino[p])]
        /\ current' = c /\ restored' = c
  BY DEF Restore
<1>2. PICK text \in [DOMAIN commits[c] -> Contents], ino \in [Paths -> Inodes] :
        /\ \A p \in DOMAIN commits[c] : text[p] \in CheckedOut[commits[c][p].oid]
        /\ files' = [p \in Paths |-> RestoredFile(commits[c], p, text, ino[p])]
        /\ current' = c /\ restored' = c
  BY <1>0
<1>3. now \in Nat /\ commits \in Seq(Trees) /\ c \in 0..Len(commits) /\ c # 0 /\ commits[c] \in Trees
  BY DEF SnapInv, Shapes
<1>4. ASSUME NEW p \in Paths
      PROVE  /\ p \in DOMAIN commits[c] =>
                  /\ files'[p].text \in CheckedOut[commits[c][p].oid] /\ files'[p].mode = commits[c][p].mode
                  /\ files'[p].mtime = Coarse /\ files'[p].ino \in Inodes /\ files'[p] \in Files
             /\ p \notin DOMAIN commits[c] => files'[p] \in {files[p], Absent}
             /\ p \notin DOMAIN commits[c] \cup Excluded => files'[p] = Absent
  <2>1. files'[p] = RestoredFile(commits[c], p, text, ino[p])
    BY <1>2
  <2>2. p \in DOMAIN commits[c] =>
          /\ commits[c][p].mode \in Modes
          /\ text[p] \in Contents /\ text[p] \in CheckedOut[commits[c][p].oid]
    BY <1>2, <1>3 DEF Trees
  <2>3. Coarse \in Nat /\ ino[p] \in Inodes
    BY <1>3, CoarseIsRecent
  <2>4. Preserved \subseteq Excluded
    BY PathsAssumption
  <2> QED
    BY <2>1, <2>2, <2>3, <2>4 DEF RestoredFile, Files, Inos
<1>5. \A p \in Paths : files'[p] = files[p] \/ Rewritten(p)
  <2> TAKE p \in Paths
  <2>1. CASE p \in DOMAIN commits[c]
    BY <1>4, <2>1 DEF Rewritten
  <2>2. CASE p \notin DOMAIN commits[c]
    BY <1>4, <2>2 DEF Rewritten
  <2> QED
    BY <2>1, <2>2
<1>6. Shapes'
  <2>1. files' \in [Paths -> Files \cup {Absent}]
    <3>1. \A p \in Paths : files'[p] \in Files \cup {Absent}
      BY <1>4 DEF SnapInv, Shapes
    <3>2. DOMAIN files' = Paths /\ files' = [p \in Paths |-> files'[p]]
      BY <1>2
    <3> QED
      BY <3>1, <3>2
  <2> QED
    BY <1>1, <1>2, <1>3, <2>1 DEF SnapInv, Shapes, NoCache
<1>7. Seeing'
  <2> SUFFICES ASSUME NEW p \in Paths, Present(p)' PROVE Own(files[p].ino)'
    BY <1>1 DEF Seeing
  <2>1. CASE p \in DOMAIN commits[c]
    <3>1. files'[p].ino \in Inodes /\ outside' \subseteq Elsewhere
      BY <1>1, <1>4, <2>1 DEF SnapInv, Shapes
    <3> QED
      BY <3>1, FilesAssumption DEF Own
  <2>2. CASE p \notin DOMAIN commits[c]
    <3>1. files'[p] = files[p]
      <4>1. files'[p] \in {files[p], Absent}
        BY <1>4, <2>2
      <4>2. files'[p].text # Gone
        BY DEF Present
      <4> QED
        BY <4>1, <4>2 DEF Absent
    <3>2. Present(p)
      BY <3>1 DEF Present
    <3> QED
      BY <1>1, <3>1, <3>2 DEF SnapInv, Seeing, Own
  <2> QED
    BY <2>1, <2>2
<1>8. Caching'
  <2>1. \A p \in DOMAIN detected : p \in Paths /\ Apt(p, detected[p], {detected[p].sha})
    BY DEF SnapInv, Caching
  <2>2. \A p \in Paths : \A e, held : Apt(p, e, held) => Apt(p, e, held)'
    BY <1>1, <1>3, <1>5, StaysApt DEF SnapInv
  <2>3. \A p \in DOMAIN detected' : p \in Paths /\ Apt(p, detected[p], {detected[p].sha})'
    BY <1>1, <2>1, <2>2 DEF Apt
  <2> QED
    BY <1>1, <2>3 DEF Caching, CacheIsBaseTree, NoCache
<1>9. Listing' /\ Taking' /\ Passing' /\ Detecting'
  BY <1>1 DEF Listing, Taking, Passing, Detecting, SnapshotSteps, DetectSteps
<1>10. Restoring'
  <2>1. \A p \in Paths \ Excluded :
          /\ p \in DOMAIN commits[c] =>
               files'[p].text \in CheckedOut[commits[c][p].oid] /\ files'[p].mode = commits[c][p].mode
          /\ p \notin DOMAIN commits[c] => files'[p] = Absent
    BY <1>4
  <2> QED
    BY <1>1, <1>2, <2>1 DEF SnapInv, Restoring, SnapshotSteps
<1> QED
  BY <1>6, <1>7, <1>8, <1>9, <1>10 DEF SnapInv

-----------------------------------------------------------------------------
(* The steps of a detection.                                                 *)

\* Where there is nothing there is the absent file.
LEMMA NotPresent ==
  ASSUME Shapes, NEW p \in Paths, ~Present(p)
  PROVE  files[p] = Absent
<1>1. files[p] \in Files \cup {Absent} /\ files[p].text = Gone
  BY DEF Shapes, Present
<1> QED
  BY <1>1, ContentsAssumption DEF Files

\* A detection begins with a list of what there is.
LEMMA DetectStep ==
  ASSUME SnapInv, Detect
  PROVE  SnapInv'
<1> DEFINE there == {p \in Paths \ Excluded : Present(p)}
           listed == [p \in there |-> StatOf(p)]
<1>1. /\ UNCHANGED <<files, outside, now, commits, current, cache, detected, restored>>
      /\ pc' = "detect" /\ job' = [NoJob EXCEPT !.at = First(Walked), !.listed = listed]
      /\ had' = [p \in Paths |-> {Seen(files[p])}]
  BY DEF Detect
<1>2. First(Walked) \in Walked /\ \A i \in Walked : First(Walked) <= i
  BY FirstPlace, SomePlace
<1>3. \A i \in Walked : ~(i < First(Walked))
  <2>1. \A i \in Walked : i \in Nat
    BY PathsAssumption DEF Walked
  <2>2. First(Walked) \in Nat
    BY <1>2, <2>1
  <2> QED
    BY <1>2, <2>1, <2>2
<1>4. DOMAIN listed = there
  OBVIOUS
<1> HIDE DEF listed
<1>5. /\ DOMAIN job' = JobFields /\ job'.at = First(Walked) /\ job'.listed = listed /\ job'.files = <<>>
  BY <1>1 DEF NoJob, JobFields
<1>6. Shapes' /\ Seeing' /\ Caching' /\ Restoring'
  <2>1. \A q \in DOMAIN detected' : q \in Paths /\ Apt(q, detected'[q], {detected'[q].sha})
    BY <1>1 DEF SnapInv, Caching
  <2>2. DOMAIN had' = Paths /\ \A q \in Paths : had'[q] = {Seen(files[q])}
    BY <1>1
  <2> QED
    BY <1>1, <1>2, <1>5, <2>1, <2>2, Frame DEF SnapshotSteps, DetectSteps
<1>7. Listing' /\ Taking' /\ Passing'
  BY <1>1 DEF Listing, Taking, Passing, SnapshotSteps
<1>8. Detecting'
  <2>1. \A p \in Paths \ Excluded : p \in DOMAIN job'.listed \/ Seen(Absent)' \in had'[p]
    <3> TAKE p \in Paths \ Excluded
    <3>1. CASE Present(p)
      BY <1>4, <1>5, <3>1
    <3>2. CASE ~Present(p)
      <4>1. Seen(files[p]) \in had'[p] /\ files[p] = Absent
        BY <1>1, <3>2, NotPresent DEF SnapInv
      <4> QED
        BY <4>1 DEF Seen, Absent
    <3> QED
      BY <3>1, <3>2
  <2>2. DOMAIN job'.files = {}
    BY <1>5
  <2>3. \A i \in Walked : ~(i < job'.at)
    BY <1>3, <1>5
  <2> QED
    BY <1>1, <2>1, <2>2, <2>3 DEF Detecting
<1> QED
  BY <1>6, <1>7, <1>8 DEF SnapInv

\* A detection goes on past a path that it reports with a content seen, or that
\* it saw absent.
LEMMA DetectGoesOn ==
  ASSUME SnapInv, pc \in {"detect", "set"},
         UNCHANGED <<files, outside, now, commits, current, cache, had, restored>>,
         \A q \in DOMAIN detected' : q \in Paths /\ Apt(q, detected'[q], {detected'[q].sha}),
         NEW p, p = Order[job.at], NEW j, NextFile(j, "detect", "removed"),
         DOMAIN j = JobFields, j.listed = job.listed,
         \/ j.files = job.files /\ Seen(Absent) \in had[p]
         \/ \E s \in had[p] : j.files = With(job.files, p, s.text)
  PROVE  SnapInv'
<1>1. job.at \in Walked
  BY DEF SnapInv, Shapes
<1>2. p \in Paths \ Excluded
  BY <1>1, PlaceIsPath
<1>3. /\ DOMAIN job' = JobFields /\ job'.at \in Walked
      /\ job'.listed = job.listed /\ job'.files = j.files
      /\ \/ /\ pc' = "detect" /\ \A i \in Walked : i < job'.at <=> i = job.at \/ i < job.at
         \/ /\ pc' = "removed" /\ (\A i \in Walked : i = job.at \/ i < job.at)
  BY <1>1, NextPlace
<1>4. Shapes' /\ Seeing' /\ Caching' /\ Restoring'
  <2>1. DOMAIN had' = Paths /\ (\A q \in Paths : Seen(files[q]) \in had'[q])
        /\ (restored # 0 => \A q \in Paths \ Excluded : had'[q] = {Seen(files[q])})
    BY DEF SnapInv, Shapes, Seeing, Restoring
  <2> QED
    BY <1>3, <2>1, Frame DEF SnapshotSteps, DetectSteps
<1>5. Listing' /\ Taking' /\ Passing'
  BY <1>3 DEF Listing, Taking, Passing, SnapshotSteps
<1>6. /\ DOMAIN job.files \subseteq Paths
      /\ \A q \in DOMAIN job.files : \E s \in had[q] : s.text = job.files[q]
      /\ \A q \in Paths \ Excluded : q \in DOMAIN job.listed \/ Seen(Absent) \in had[q]
      /\ \A i \in Walked : i < job.at => Reported(Order[i])
  BY DEF SnapInv, Detecting, DetectSteps
<1>7. /\ DOMAIN j.files \subseteq Paths /\ DOMAIN job.files \subseteq DOMAIN j.files
      /\ \A q \in DOMAIN j.files : \E s \in had[q] : s.text = j.files[q]
      /\ p \in DOMAIN j.files \/ Seen(Absent) \in had[p]
  <2>1. CASE j.files = job.files /\ Seen(Absent) \in had[p]
    BY <1>6, <2>1
  <2>2. CASE \E s \in had[p] : j.files = With(job.files, p, s.text)
    <3>1. PICK s \in had[p] : j.files = With(job.files, p, s.text)
      BY <2>2
    <3>2. /\ DOMAIN j.files = DOMAIN job.files \cup {p} /\ j.files[p] = s.text
          /\ \A q \in DOMAIN job.files : q # p => j.files[q] = job.files[q]
      BY <3>1 DEF With
    <3> QED
      BY <1>2, <1>6, <3>2
  <2> QED
    BY <2>1, <2>2
<1>8. Detecting'
  <2>1. Seen(Absent)' = Seen(Absent)
    BY DEF Seen, Absent
  <2>2. \A q : Reported(q) => Reported(q)'
    BY <1>3, <1>7, <2>1 DEF Reported
  <2>3. Reported(p)'
    BY <1>3, <1>7, <2>1 DEF Reported
  <2>4. \A i \in Walked : i = job.at \/ i < job.at => Reported(Order[i])'
    BY <1>6, <2>2, <2>3, Zenon
  <2>5. pc' # "hash" /\ pc' # "set"
    BY <1>3
  <2>6. /\ DOMAIN job'.files \subseteq Paths
        /\ \A q \in DOMAIN job'.files : \E s \in had'[q] : s.text = job'.files[q]
        /\ \A q \in Paths \ Excluded : q \in DOMAIN job'.listed \/ Seen(Absent)' \in had'[q]
    BY <1>3, <1>6, <1>7, <2>1
  <2> QED
    BY <1>3, <2>4, <2>5, <2>6 DEF Detecting
<1> QED
  BY <1>4, <1>5, <1>8 DEF SnapInv

\* A detection stays at a path, with a stat of it that no file elsewhere has.
LEMMA DetectStays ==
  ASSUME SnapInv, pc \in DetectSteps, pc # "removed", pc' \in {"hash", "set"},
         UNCHANGED <<files, outside, now, commits, current, cache, detected, had, restored>>,
         DOMAIN job' = JobFields, job'.at = job.at, job'.files = job.files,
         DOMAIN job'.listed = DOMAIN job.listed,
         NEW p, p = Order[job.at], p \in DOMAIN job.listed,
         job'.listed[p].mtime \in Nat, Own(job'.listed[p].ino),
         job'.stamp \in Nat, job'.stamp <= now,
         pc' = "set" => /\ \E s \in had[p] : s.text = job'.text
                        /\ job'.text = files[p].text
  PROVE  SnapInv'
<1>1. job.at \in Walked
  BY DEF SnapInv, Shapes, DetectSteps
<1>2. Shapes' /\ Seeing' /\ Caching' /\ Restoring'
  <2>1. DOMAIN had' = Paths /\ (\A q \in Paths : Seen(files[q]) \in had'[q])
        /\ (restored # 0 => \A q \in Paths \ Excluded : had'[q] = {Seen(files[q])})
    BY DEF SnapInv, Shapes, Seeing, Restoring, DetectSteps
  <2>2. \A q \in DOMAIN detected' : q \in Paths /\ Apt(q, detected'[q], {detected'[q].sha})
    BY DEF SnapInv, Caching
  <2> QED
    BY <1>1, <2>1, <2>2, Frame DEF SnapshotSteps, DetectSteps
<1>3. Listing' /\ Taking' /\ Passing'
  BY DEF Listing, Taking, Passing, SnapshotSteps
<1>4. Detecting'
  <2>1. /\ DOMAIN job.files \subseteq Paths
        /\ \A q \in DOMAIN job.files : \E s \in had[q] : s.text = job.files[q]
        /\ \A q \in Paths \ Excluded : q \in DOMAIN job.listed \/ Seen(Absent) \in had[q]
        /\ \A i \in Walked : i < job.at => Reported(Order[i])
    BY DEF SnapInv, Detecting
  <2>2. Seen(Absent)' = Seen(Absent)
    BY DEF Seen, Absent
  <2>3. \A q : Reported(q) => Reported(q)'
    BY <2>2 DEF Reported
  <2>4. Order[job'.at] = p /\ p \in DOMAIN job'.listed
    OBVIOUS
  <2>5. Own(job.listed[Order[job.at]].ino)'
    BY <2>4 DEF Own
  <2>6. pc' = "set" =>
          /\ \E s \in had'[Order[job'.at]] : s.text = job'.text
          /\ Apt(Order[job.at], HashedEntry(job.listed[Order[job.at]]), {job.text})'
    <3> HAVE pc' = "set"
    <3> DEFINE e == HashedEntry(job.listed[Order[job.at]])
    <3>1. e'.mtime = job'.listed[p].mtime /\ e'.ino = job'.listed[p].ino /\ e'.hashedAt = job'.stamp
      BY <2>4 DEF HashedEntry
    <3> HIDE DEF e
    <3>2. Apt(Order[job.at], e, {job.text})'
      BY <2>4, <3>1 DEF Apt, Own
    <3> QED
      BY <2>4, <3>2 DEF e
  <2> QED
    BY <2>1, <2>2, <2>3, <2>4, <2>5, <2>6 DEF Detecting, DetectSteps
<1> QED
  BY <1>2, <1>3, <1>4 DEF SnapInv

\* A path is statted: a candidate's hash is of what was there.
LEMMA DetectStatStep ==
  ASSUME SnapInv, DetectStat
  PROVE  SnapInv'
<1>1. /\ pc = "detect" /\ job.at \in Walked /\ DOMAIN job = JobFields /\ now \in Nat
      /\ UNCHANGED <<files, outside, now, commits, current, cache, detected, restored>>
  BY DEF DetectStat, SnapInv, Shapes
<1>2. PICK p \in Paths \ Excluded : p = Order[job.at]
  BY <1>1, PlaceIsPath
<1>3. /\ Seen(files[p]) \in had[p]
      /\ p \in DOMAIN job.listed \/ Seen(Absent) \in had[p]
      /\ \A q \in DOMAIN detected' : q \in Paths /\ Apt(q, detected'[q], {detected'[q].sha})
  BY <1>1 DEF SnapInv, Seeing, Detecting, DetectSteps, Caching
<1>4. Seen(files[p]).text = files[p].text
  BY DEF Seen
<1>5. Present(p) => /\ StatOf(p).mtime = files[p].mtime /\ StatOf(p).ino = files[p].ino
                    /\ files[p].mtime \in Nat /\ Own(files[p].ino)
  <2>1. Present(p) => files[p] \in Files /\ Own(files[p].ino)
    BY <1>2 DEF SnapInv, Shapes, Seeing, Present, Absent
  <2> QED
    BY <2>1 DEF StatOf, Files
<1>6. CASE End
  BY <1>1, <1>3, <1>6, Ended
<1>7. CASE /\ p \notin DOMAIN job.listed \/ ~Present(p)
           /\ NextFile(job, "detect", "removed") /\ UNCHANGED had
  <2>1. Seen(Absent) \in had[p]
    BY <1>2, <1>3, <1>7, NotPresent DEF SnapInv
  <2> QED
    BY <1>1, <1>2, <1>3, <1>7, <2>1, DetectGoesOn
<1>8. CASE /\ Present(p) /\ p \in DOMAIN detected /\ IsCandidateUnchanged(detected[p], StatOf(p))
           /\ NextFile([job EXCEPT !.files = With(@, p, detected[p].sha)], "detect", "removed")
           /\ UNCHANGED had
  <2> DEFINE j == [job EXCEPT !.files = With(@, p, detected[p].sha)]
  <2>1. DOMAIN j = JobFields /\ j.listed = job.listed /\ j.files = With(job.files, p, detected[p].sha)
    BY <1>1 DEF JobFields
  <2>2. files[p].text = detected[p].sha
    <3>1. Apt(p, detected[p], {detected[p].sha})
      BY <1>8 DEF SnapInv, Caching
    <3> QED
      BY <1>5, <1>8, <3>1 DEF Apt, IsCandidateUnchanged
  <2> HIDE DEF j
  <2>3. NextFile(j, "detect", "removed")
    BY <1>8 DEF j
  <2> QED
    BY <1>1, <1>2, <1>3, <1>4, <1>8, <2>1, <2>2, <2>3, DetectGoesOn
<1>9. CASE /\ Present(p) /\ p \in DOMAIN job.listed /\ pc' = "hash"
           /\ job' = [job EXCEPT !.stamp = now, !.listed[p] = StatOf(p)] /\ UNCHANGED had
  <2>1. /\ DOMAIN job' = JobFields /\ job'.at = job.at /\ job'.files = job.files /\ job'.stamp = now
        /\ job'.listed = [job.listed EXCEPT ![p] = StatOf(p)]
    BY <1>1, <1>9 DEF JobFields
  <2>2. DOMAIN job'.listed = DOMAIN job.listed /\ job'.listed[p] = StatOf(p)
    BY <1>9, <2>1
  <2> QED
    BY <1>1, <1>2, <1>5, <1>9, <2>1, <2>2, DetectStays DEF DetectSteps
<1> QED
  <2>1. IF p \in DOMAIN job.listed /\ Displaced(p) THEN End
        ELSE IF p \notin DOMAIN job.listed \/ ~Present(p)
        THEN NextFile(job, "detect", "removed") /\ UNCHANGED had
        ELSE IF p \in DOMAIN detected /\ IsCandidateUnchanged(detected[p], StatOf(p))
        THEN NextFile([job EXCEPT !.files = With(@, p, detected[p].sha)], "detect", "removed")
             /\ UNCHANGED had
        ELSE /\ pc' = "hash"
             /\ job' = [job EXCEPT !.stamp = now, !.listed[p] = StatOf(p)]
             /\ UNCHANGED had
    BY <1>2 DEF DetectStat
  <2> QED
    BY <1>6, <1>7, <1>8, <1>9, <2>1, Zenon

\* A file is hashed: the entry to be made of it is right, however old its stat is.
LEMMA HashStep ==
  ASSUME SnapInv, Hash
  PROVE  SnapInv'
<1>1. /\ pc = "hash" /\ job.at \in Walked /\ DOMAIN job = JobFields
      /\ UNCHANGED <<files, outside, now, commits, current, cache, detected, restored>>
  BY DEF Hash, SnapInv, Shapes
<1>2. PICK p \in Paths \ Excluded : p = Order[job.at]
  BY <1>1, PlaceIsPath
<1>3. /\ Seen(files[p]) \in had[p] /\ Seen(files[p]).text = files[p].text
      /\ p \in DOMAIN job.listed /\ job.listed[p].mtime \in Nat /\ Own(job.listed[p].ino)
      /\ job.stamp \in Nat /\ job.stamp <= now
  BY <1>1, <1>2 DEF SnapInv, Seeing, Detecting, Seen
<1>4. CASE End
  <2>1. \A q \in DOMAIN detected' : q \in Paths /\ Apt(q, detected'[q], {detected'[q].sha})
    BY <1>1 DEF SnapInv, Caching
  <2> QED
    BY <1>1, <1>4, <2>1, Ended
<1>5. CASE pc' = "set" /\ job' = [job EXCEPT !.text = files[p].text] /\ UNCHANGED had
  <2>1. /\ DOMAIN job' = JobFields /\ job'.at = job.at /\ job'.files = job.files /\ job'.stamp = job.stamp
        /\ job'.listed = job.listed /\ job'.text = files[p].text
    BY <1>1, <1>5 DEF JobFields
  <2> QED
    BY <1>1, <1>2, <1>3, <1>5, <2>1, DetectStays DEF DetectSteps
<1> QED
  BY <1>2, <1>4, <1>5 DEF Hash

\* The entry is set, and the path reported.
LEMMA SetEntryStep ==
  ASSUME SnapInv, SetEntry
  PROVE  SnapInv'
<1>1. /\ pc = "set" /\ job.at \in Walked /\ DOMAIN job = JobFields
      /\ UNCHANGED <<files, outside, now, commits, current, cache, had, restored>>
  BY DEF SetEntry, SnapInv, Shapes
<1>2. PICK p \in Paths \ Excluded : p = Order[job.at]
  BY <1>1, PlaceIsPath
<1> DEFINE entry == HashedEntry(job.listed[p])
           j == [job EXCEPT !.files = With(@, p, job.text), !.text = Gone]
<1>3. detected' = With(detected, p, entry) /\ NextFile(j, "detect", "removed")
  BY <1>2 DEF SetEntry
<1>4. (\E s \in had[p] : s.text = job.text) /\ Apt(p, entry, {job.text}) /\ entry.sha = job.text
  BY <1>1, <1>2 DEF SnapInv, Detecting, HashedEntry
<1>5. DOMAIN j = JobFields /\ j.listed = job.listed /\ j.files = With(job.files, p, job.text)
  BY <1>1 DEF JobFields
<1> HIDE DEF j, entry
<1>6. \A q \in DOMAIN detected' : q \in Paths /\ Apt(q, detected'[q], {detected'[q].sha})
  <2>1. \A q \in DOMAIN detected : q \in Paths /\ Apt(q, detected[q], {detected[q].sha})
    BY DEF SnapInv, Caching
  <2> TAKE q \in DOMAIN detected'
  <2>2. CASE q = p
    <3>1. detected'[q] = entry
      BY <1>3, <2>2 DEF With
    <3> QED
      BY <1>4, <2>2, <3>1
  <2>3. CASE q # p
    <3>1. q \in DOMAIN detected /\ detected'[q] = detected[q]
      BY <1>3, <2>3 DEF With
    <3> QED
      BY <2>1, <3>1
  <2> QED
    BY <2>2, <2>3
<1> QED
  BY <1>1, <1>2, <1>3, <1>4, <1>5, <1>6, DetectGoesOn

\* What was not seen is dropped.
LEMMA DropRemovedStep ==
  ASSUME SnapInv, DropRemoved
  PROVE  SnapInv'
<1>1. /\ End /\ UNCHANGED <<files, outside, now, commits, current, cache, restored>>
      /\ detected' = [p \in DOMAIN detected \cap DOMAIN job.files |-> detected[p]]
  BY DEF DropRemoved
<1>2. \A p \in DOMAIN detected' : p \in Paths /\ Apt(p, detected'[p], {detected'[p].sha})
  BY <1>1 DEF SnapInv, Caching
<1> QED
  BY <1>1, <1>2, Ended

-----------------------------------------------------------------------------
(* The theorems.                                                             *)

\* The invariant holds of the workspaces that a run may begin with.
LEMMA SnapInvInit == Init => SnapInv
<1> SUFFICES ASSUME Init PROVE SnapInv
  OBVIOUS
<1>1. files \in [Paths -> [text : Contents, mode : Modes, mtime : Nat, ino : Inodes] \cup {Absent}]
  BY FilesAssumption DEF Init
<1>2. Shapes
  <2>1. files \in [Paths -> Files \cup {Absent}]
    <3>1. [text : Contents, mode : Modes, mtime : Nat, ino : Inodes] \subseteq Files
      BY DEF Files, Inos
    <3> QED
      BY <1>1, <3>1
  <2>2. DOMAIN job = JobFields /\ DOMAIN had = Paths /\ DOMAIN cache = {"base", "files"} /\ cache.base = 0
    BY DEF Init, NoJob, JobFields, Nothing, NoCache
  <2>3. commits \in Seq(Trees) /\ Len(commits) = 0
    BY DEF Init
  <2> QED
    BY <2>1, <2>2, <2>3 DEF Init, Shapes
<1>3. Seeing
  <2>1. ASSUME NEW p \in Paths, Present(p) PROVE Own(files[p].ino)
    <3>1. files[p].ino \in Inodes
      BY <1>1, <2>1 DEF Present, Absent
    <3> QED
      BY <3>1, FilesAssumption DEF Init, Own
  <2> QED
    BY <2>1 DEF Init, Seeing
<1>4. Caching
  BY DEF Init, Caching, CacheIsBaseTree, NoCache
<1>5. Listing /\ Taking /\ Passing /\ Detecting
  BY DEF Init, Listing, Taking, Passing, Detecting, SnapshotSteps, DetectSteps
<1>6. Restoring
  BY DEF Init, Restoring, Skips, SnapshotSteps
<1> QED
  BY <1>2, <1>3, <1>4, <1>5, <1>6 DEF SnapInv

\* Every step keeps the invariant.
LEMMA SnapInvStep == SnapInv /\ [Next]_vars => SnapInv'
<1> SUFFICES ASSUME SnapInv, [Next]_vars PROVE SnapInv'
  OBVIOUS
<1>1. CASE Tick \/ Agent
  BY <1>1, WorldStep
<1>2. CASE Checkpoint
  BY <1>2, CheckpointStep
<1>3. CASE List
  BY <1>3, ListStep
<1>4. CASE Stat
  BY <1>4, StatStep
<1>5. CASE Read
  BY <1>5, ReadStep
<1>6. CASE Commit \/ CommitFails
  BY <1>6, CommitStep
<1>7. CASE Restore
  BY <1>7, RestoreStep
<1>8. CASE Detect
  BY <1>8, DetectStep
<1>9. CASE DetectStat
  BY <1>9, DetectStatStep
<1>10. CASE Hash
  BY <1>10, HashStep
<1>11. CASE SetEntry
  BY <1>11, SetEntryStep
<1>12. CASE DropRemoved
  BY <1>12, DropRemovedStep
<1>13. CASE UNCHANGED vars
  <2>1. UNCHANGED <<files, outside, now, commits, current, cache, detected, pc, job, had, restored>>
    BY <1>13 DEF vars
  <2>2. Shapes' /\ Seeing'
    BY <2>1 DEF SnapInv, Shapes, Seeing, Present, Own
  <2>3. Caching'
    BY <2>1 DEF SnapInv, Caching, CacheIsBaseTree, Apt, Own, Present, Sources
  <2>4. Listing'
    <3>1. \A p, stat : ListedFile(p, stat) <=> ListedFile(p, stat)'
      BY <2>1, Kept
    <3>2. \A p \in DOMAIN job'.listed : ListedFile(p, job.listed[p]) <=> ListedFile(p, job.listed[p])'
      BY <2>1, <3>1
    <3> QED
      BY <2>1, <3>2 DEF SnapInv, Listing
  <2>5. Taking'
    <3>1. \A p, e : TakenFile(p, e) <=> TakenFile(p, e)'
      BY <2>1, Kept
    <3>2. \A p \in DOMAIN job'.files : TakenFile(p, job.files[p]) <=> TakenFile(p, job.files[p])'
      BY <2>1, <3>1
    <3>3. ParentTree' = ParentTree
      BY <2>1, Kept
    <3> QED
      BY <2>1, <3>2, <3>3 DEF SnapInv, Taking
  <2>6. Passing'
    BY <2>1 DEF SnapInv, Passing, Excused, ExcusedBy, Seen, Absent
  <2>7. Detecting'
    BY <2>1 DEF SnapInv, Detecting, Reported, Seen, Absent, HashedEntry, Apt, Own, Present
  <2>8. Restoring'
    BY <2>1 DEF SnapInv, Restoring, Skips, Seen
  <2> QED
    BY <2>2, <2>3, <2>4, <2>5, <2>6, <2>7, <2>8 DEF SnapInv
<1> QED
  BY <1>1, <1>2, <1>3, <1>4, <1>5, <1>6, <1>7, <1>8, <1>9, <1>10, <1>11, <1>12, <1>13 DEF Next

\* In every state of a workspace and its run, with any number of writes between
\* and during passes, the entries that the two stat caches trust are right.
THEOREM SnapshotInvariant == Spec => []SnapInv
<1>1. Init => SnapInv
  BY SnapInvInit
<1>2. SnapInv /\ [Next]_vars => SnapInv'
  BY SnapInvStep
<1> QED
  BY <1>1, <1>2, PTL DEF Spec

\* Every checkpoint holds recent contents and modes, sanitized, and accounts for
\* what it leaves out.
THEOREM CheckpointRecent == Spec => []CheckpointIsRecent
<1>1. SnapInv => CheckpointIsRecent
  <2> SUFFICES ASSUME SnapInv, pc = "commit", NEW p \in Paths
               PROVE  IF p \in DOMAIN CommitTree
                      THEN /\ p \notin Excluded
                           /\ \E s \in had[p] : s.text # Gone /\ CommitTree[p].oid = Sanitized[s.text]
                           /\ \E s \in had[p] : s.mode = CommitTree[p].mode
                      ELSE p \in Excluded \/ Excused(p)
    BY DEF CheckpointIsRecent, Excused, ExcusedBy
  <2>1. CommitTree = [q \in DOMAIN job.files |-> [mode |-> job.files[q].mode, oid |-> job.files[q].oid]]
    BY TreeOfPass
  <2>2. CASE p \in DOMAIN CommitTree
    <3>1. p \in DOMAIN job.files /\ CommitTree[p].oid = job.files[p].oid /\ CommitTree[p].mode = job.files[p].mode
      BY <2>1, <2>2
    <3>2. p \notin Excluded /\ TakenFile(p, job.files[p])
      BY <3>1 DEF SnapInv, Listing, Taking, SnapshotSteps
    <3> HIDE DEF CommitTree
    <3> QED
      BY <2>2, <3>1, <3>2, ContentsAssumption DEF TakenFile
  <2>3. CASE p \notin DOMAIN CommitTree
    <3>1. p \in Excluded \/ \E i \in Walked : Order[i] = p
      BY SomePlace
    <3>2. p \notin DOMAIN job.files
      BY <2>1, <2>3
    <3> QED
      BY <2>3, <3>1, <3>2 DEF SnapInv, Passing
  <2> QED
    BY <2>2, <2>3
<1> QED
  BY <1>1, SnapshotInvariant, PTL

\* The cache is the tree of its commit, and storage accepts every delta.
THEOREM DeltasFit == Spec => []DeltaAlwaysFits
<1>1. SnapInv => DeltaAlwaysFits
  <2> SUFFICES ASSUME SnapInv PROVE DeltaAlwaysFits
    OBVIOUS
  <2>1. CacheIsBaseTree
    BY DEF SnapInv, Caching
  <2>2. ASSUME pc = "commit", current # 0
        PROVE  DeltaFits(commits[current])
    <3> DEFINE tree == commits[current]
               Remains(p) == p \in job.written \/ (p \in DOMAIN tree /\ p \notin Deleted)
    <3>1. Deleted = DOMAIN tree \ DOMAIN job.files
      BY <2>2, ParentIsCommitted DEF Deleted
    <3>2. job.written \subseteq DOMAIN job.files /\ DOMAIN job.files \subseteq DOMAIN job.listed
      BY <2>2 DEF SnapInv, Taking, SnapshotSteps
    <3>3. Flat(DOMAIN job.listed)
      BY <2>2 DEF SnapInv, Listing, SnapshotSteps
    <3>4. \A p : Remains(p) => p \in DOMAIN job.listed
      BY <3>1, <3>2
    <3>5. \A p \in job.written : \A q \in Above[p] \cup Below(p) : ~Remains(q)
      <4> SUFFICES ASSUME NEW p \in job.written, NEW q \in Above[p] \cup Below(p), Remains(q) PROVE FALSE
        OBVIOUS
      <4> HIDE DEF Remains
      <4>1. p \in DOMAIN job.listed /\ q \in DOMAIN job.listed
        BY <3>2, <3>4
      <4> QED
        BY <3>3, <4>1 DEF Flat, Below
    <3>6. job.written \cap Deleted = {} /\ Deleted \subseteq DOMAIN tree
      BY <3>1, <3>2
    <3> QED
      BY <3>5, <3>6 DEF DeltaFits
  <2> QED
    BY <2>1, <2>2 DEF DeltaAlwaysFits
<1> QED
  BY <1>1, SnapshotInvariant, PTL

\* A workspace as it was restored is checkpointed as the commit it is of
\* (materialize, buildSnapshot, createCheckpoint): with its files and no others,
\* each with its content and mode, but for contents that a checkout or Redaction
\* converts or that outgrew the limit.
THEOREM RestoredIsUnchanged == Spec => []RestoredUnchanged
<1>1. SnapInv => RestoredUnchanged
  <2> SUFFICES ASSUME SnapInv, pc = "commit", restored # 0 PROVE RestoredUnchanged
    BY DEF RestoredUnchanged
  <2> DEFINE tree == commits[restored]
  <2>1. restored \in DOMAIN commits /\ tree \in Trees
    BY DEF SnapInv, Shapes
  <2>2. DOMAIN tree \subseteq Paths \ Excluded /\ tree \in [DOMAIN tree -> [mode : Modes, oid : Contents]]
    BY <2>1 DEF Trees
  <2>3. \A s \in job.skipped : s.path \in DOMAIN tree /\ ~Lasting(tree[s.path].oid)
    BY DEF SnapInv, Restoring, Skips, SnapshotSteps
  <2>4. \A p \in Paths \ Excluded :
          /\ p \in DOMAIN tree => files[p].text \in CheckedOut[tree[p].oid] /\ files[p].mode = tree[p].mode
          /\ p \notin DOMAIN tree => files[p] = Absent
          /\ had[p] = {[text |-> files[p].text, mode |-> files[p].mode]}
    BY DEF SnapInv, Restoring, Seen
  <2>5. DOMAIN job.files \subseteq Paths \ Excluded /\ \A p \in DOMAIN job.files : TakenFile(p, job.files[p])
    BY DEF SnapInv, Listing, Taking, SnapshotSteps
  <2>6. CommitTree = [p \in DOMAIN job.files |-> [mode |-> job.files[p].mode, oid |-> job.files[p].oid]]
    BY TreeOfPass
  <2> HIDE DEF tree
  <2>7. ASSUME NEW p \in DOMAIN job.files
        PROVE  p \in DOMAIN tree /\ job.files[p].oid = Sanitized[files[p].text] /\ job.files[p].mode = tree[p].mode
    <3>1. files[p].text \in Contents /\ job.files[p].oid = Sanitized[files[p].text] /\ job.files[p].mode = files[p].mode
      BY <2>4, <2>5 DEF TakenFile
    <3>2. p \in DOMAIN tree
      BY <2>4, <2>5, <3>1, ContentsAssumption DEF Absent
    <3> QED
      BY <2>4, <2>5, <3>1, <3>2
  <2>8. ASSUME NEW p \in DOMAIN tree, Lasting(tree[p].oid)
        PROVE  p \in DOMAIN CommitTree /\ CommitTree[p] = tree[p]
    <3>1. files[p].text = tree[p].oid /\ tree[p].oid \in Contents /\ Sanitized[files[p].text] = tree[p].oid
      BY <2>2, <2>4, <2>8 DEF Lasting
    <3>2. Seen(Absent) \notin had[p]
      BY <2>2, <2>4, <3>1, ContentsAssumption DEF Seen, Absent
    <3>3. ~Excused(p)
      BY <2>3, <2>8, <3>2 DEF Excused, ExcusedBy
    <3>4. \E i \in Walked : Order[i] = p
      BY <2>2, SomePlace
    <3>5. p \in DOMAIN job.files
      BY <3>3, <3>4 DEF SnapInv, Passing
    <3>6. tree[p] = [mode |-> tree[p].mode, oid |-> tree[p].oid]
      BY <2>2
    <3> QED
      BY <2>6, <2>7, <3>1, <3>5, <3>6
  <2>9. DOMAIN CommitTree \subseteq DOMAIN tree
    BY <2>6, <2>7
  <2> QED
    BY <2>3, <2>8, <2>9 DEF RestoredUnchanged, tree
<1> QED
  BY <1>1, SnapshotInvariant, PTL

\* A detection reports of each file a content that it had meanwhile.
THEOREM DetectionRecent == Spec => []DetectedIsRecent
<1>1. SnapInv => DetectedIsRecent
  <2> SUFFICES ASSUME SnapInv, pc = "removed", NEW p \in Paths \ Excluded
               PROVE  IF p \in DOMAIN job.files THEN \E s \in had[p] : s.text = job.files[p]
                      ELSE Seen(Absent) \in had[p]
    BY DEF DetectedIsRecent
  <2>1. PICK i \in Walked : Order[i] = p
    BY SomePlace
  <2> QED
    BY <2>1 DEF SnapInv, Detecting, DetectSteps, Reported
<1> QED
  BY <1>1, SnapshotInvariant, PTL

-----------------------------------------------------------------------------
(* The inductive invariant of a forest                                       *)

Events == [type : {"checkpoint", "restored", "forked", "observation"}, run : Nat, seq : Nat, at : Nat]

\* What the functions of the state are defined on.
ForestTyped ==
  /\ runs \in Seq([parent : Nat, from : Nat]) /\ runs # <<>>
  /\ ledger \in Seq(Seq(Events)) /\ Len(ledger) = Len(runs)
  /\ forking \subseteq Runs \ {1}

\* The first run begins with a checkpoint; every other one was forked from a
\* checkpoint of an earlier run.
Rooted ==
  /\ runs[1] = [parent |-> 0, from |-> 0]
  /\ ledger[1] # <<>> /\ ledger[1][1].type = "checkpoint"
  /\ \A r \in Runs : r # 1 => /\ runs[r].parent \in 1..(r - 1)
                              /\ runs[r].from \in CheckpointSeqs(runs[r].parent)

\* What an event at seq of run r may name.
Names(r, seq, event) ==
  /\ event.type = "checkpoint" => event.seq = 0 \/ event.seq \in CheckpointSeqs(r) \cap (1..(seq - 1))
  /\ event.type = "restored" => event.seq \in CheckpointSeqs(r) \cap (1..(seq - 1))
  /\ event.type = "forked" => r # 1 /\ event.run = runs[r].parent /\ event.seq = runs[r].from

ForestInv ==
  /\ ForestTyped
  /\ Rooted
  /\ \A r \in Runs : \A seq \in DOMAIN ledger[r] : Names(r, seq, ledger[r][seq])

\* The greatest of a set of numbers up to n.
LEMMA LastUpTo ==
  ASSUME NEW n \in Nat, NEW S \in SUBSET (0..n), S # {}
  PROVE  Max(S) \in S /\ \A i \in S : i <= Max(S)
<1> DEFINE T == {n - i : i \in S}
<1>1. T \in SUBSET Nat /\ T # {}
  <2>1. \A i \in S : i \in 0..n /\ n - i \in Nat
    OBVIOUS
  <2>2. \E i \in S : TRUE
    OBVIOUS
  <2> QED
    BY <2>1, <2>2
<1>2. PICK m \in T : \A i \in T : <<i, m>> \notin OpToRel(<, Nat)
  <2>1. IsWellFoundedOn(OpToRel(<, Nat), Nat)
    BY NatLessThanWellFounded
  <2> QED
    BY <1>1, <2>1, WFMin
<1>3. \A i \in T : i \in Nat /\ ~(i < m)
  BY <1>1, <1>2, Zenon DEF OpToRel
<1>4. PICK k \in S : m = n - k
  BY <1>2
<1>5. \A i \in S : i <= k
  <2> TAKE i \in S
  <2>1. n - i \in T /\ i \in 0..n /\ k \in 0..n
    OBVIOUS
  <2> QED
    BY <1>3, <1>4, <2>1
<1> QED
  BY <1>5 DEF Max

\* The least of a set of numbers.
LEMMA FirstOf ==
  ASSUME NEW S \in SUBSET Nat, S # {}
  PROVE  Min(S) \in S /\ \A i \in S : Min(S) <= i
<1>1. PICK m \in S : \A i \in S : <<i, m>> \notin OpToRel(<, Nat)
  <2>1. IsWellFoundedOn(OpToRel(<, Nat), Nat)
    BY NatLessThanWellFounded
  <2> QED
    BY <2>1, WFMin
<1>2. \A i \in S : ~(i < m)
  BY <1>1, Zenon DEF OpToRel
<1>3. \A i \in S : m <= i
  BY <1>2
<1> QED
  BY <1>3 DEF Min

\* A property of the numbers up to n that goes from those before a number to it.
LEMMA ByEarlier ==
  ASSUME NEW n \in Nat, NEW good, \A k \in 0..n : (\A i \in 0..(k - 1) : i \in good) => k \in good
  PROVE  \A k \in 0..n : k \in good
<1> DEFINE bad == {k \in 0..n : k \notin good}
<1> SUFFICES ASSUME bad # {} PROVE FALSE
  OBVIOUS
<1>1. Min(bad) \in bad /\ \A i \in bad : Min(bad) <= i
  BY FirstOf
<1>2. \A i \in 0..(Min(bad) - 1) : i \in good
  BY <1>1
<1> QED
  BY <1>1, <1>2

\* The first run, with its checkpoint.
LEMMA ForestInvInit == ForestInit => ForestInv
<1> SUFFICES ASSUME ForestInit PROVE ForestInv
  OBVIOUS
<1> DEFINE e == Event("checkpoint", 1, 0, 0)
<1>1. e \in Events /\ e.type = "checkpoint" /\ e.seq = 0
  BY DEF Event, Events
<1> HIDE DEF e
<1>2. runs = <<[parent |-> 0, from |-> 0]>> /\ ledger = <<<<e>>>> /\ forking = {}
  BY DEF ForestInit, e
<1>3. Runs = {1} /\ DOMAIN ledger[1] = {1} /\ ledger[1][1] = e
  BY <1>2 DEF Runs
<1>4. ForestTyped
  BY <1>1, <1>2 DEF ForestTyped
<1>5. Rooted
  BY <1>1, <1>2, <1>3 DEF Rooted
<1>6. \A r \in Runs : \A seq \in DOMAIN ledger[r] : Names(r, seq, ledger[r][seq])
  BY <1>1, <1>2, <1>3 DEF Names
<1> QED
  BY <1>4, <1>5, <1>6 DEF ForestInv

\* An element of a sequence, and a sequence that goes on.
LEMMA ElementOf ==
  ASSUME NEW S, NEW s \in Seq(S), NEW i \in 1..Len(s)
  PROVE  s[i] \in S
OBVIOUS

\* A sequence that goes on.
LEMMA AppendOf ==
  ASSUME NEW S, NEW s \in Seq(S), NEW x \in S
  PROVE  /\ Append(s, x) \in Seq(S) /\ Append(s, x) # <<>> /\ Len(Append(s, x)) = Len(s) + 1
         /\ DOMAIN Append(s, x) = 1..(Len(s) + 1) /\ Append(s, x)[Len(s) + 1] = x
         /\ \A i \in 1..Len(s) : Append(s, x)[i] = s[i]
OBVIOUS

\* Types of the parts of a run.
LEMMA OfRun ==
  ASSUME ForestTyped, NEW r \in Runs
  PROVE  /\ Runs = 1..Len(runs) /\ Len(runs) \in Nat /\ 1 \in Runs /\ r \in Nat
         /\ runs[r] \in [parent : Nat, from : Nat]
         /\ ledger[r] \in Seq(Events) /\ DOMAIN ledger[r] = 1..Len(ledger[r]) /\ Len(ledger[r]) \in Nat
         /\ \A seq \in DOMAIN ledger[r] : ledger[r][seq] \in Events
         /\ CheckpointSeqs(r) \subseteq 1..Len(ledger[r])
<1>1. Runs = 1..Len(runs) /\ Len(runs) \in Nat /\ Len(runs) # 0 /\ DOMAIN ledger = Runs
  BY DEF ForestTyped, Runs
<1>2. runs[r] \in [parent : Nat, from : Nat] /\ ledger[r] \in Seq(Events)
  <2>1. runs \in Seq([parent : Nat, from : Nat]) /\ ledger \in Seq(Seq(Events))
    BY DEF ForestTyped
  <2>2. r \in 1..Len(runs) /\ r \in 1..Len(ledger)
    BY <1>1 DEF ForestTyped
  <2>3. runs[r] \in [parent : Nat, from : Nat]
    BY <2>1, <2>2, ElementOf
  <2>4. ledger[r] \in Seq(Events)
    BY <2>1, <2>2, ElementOf
  <2> QED
    BY <2>3, <2>4
<1>3. DOMAIN ledger[r] = 1..Len(ledger[r]) /\ Len(ledger[r]) \in Nat
  BY <1>2
<1>4. \A seq \in DOMAIN ledger[r] : ledger[r][seq] \in Events
  BY <1>2
<1> QED
  BY <1>1, <1>2, <1>3, <1>4 DEF CheckpointSeqs

\* An event that names what it may keeps the invariant.
LEMMA AppendKeeps ==
  ASSUME ForestInv, NEW r \in Runs, NEW event \in Events,
         runs' = runs, ledger' = [ledger EXCEPT ![r] = Append(@, event)],
         forking' \subseteq forking, Names(r, Len(ledger[r]) + 1, event)
  PROVE  ForestInv'
<1> USE DEF ForestInv
<1>1. ForestTyped /\ Runs' = Runs /\ DOMAIN ledger = Runs /\ Len(ledger) = Len(runs)
  BY DEF Runs, ForestTyped
<1>2. PICK n \in Nat : n = Len(ledger[r])
  BY <1>1, OfRun
<1>3. /\ \A q \in Runs : q # r => ledger'[q] = ledger[q]
      /\ ledger'[r] = Append(ledger[r], event)
  BY <1>1
<1>4. /\ DOMAIN ledger'[r] = 1..(n + 1) /\ DOMAIN ledger[r] = 1..n /\ ledger'[r][n + 1] = event
      /\ \A seq \in 1..n : ledger'[r][seq] = ledger[r][seq]
      /\ ledger'[r] \in Seq(Events)
  BY <1>1, <1>2, <1>3, OfRun
<1>5. \A q \in Runs : \A seq \in DOMAIN ledger[q] : seq \in DOMAIN ledger'[q] /\ ledger'[q][seq] = ledger[q][seq]
  BY <1>2, <1>3, <1>4
<1>6. \A q \in Runs : \A seq \in DOMAIN ledger'[q] : seq \in DOMAIN ledger[q] \/ (q = r /\ seq = n + 1)
  BY <1>2, <1>3, <1>4
<1>7. \A q \in Runs : CheckpointSeqs(q) \subseteq CheckpointSeqs(q)'
  BY <1>5 DEF CheckpointSeqs
<1>8. ForestTyped'
  <2>1. ledger' \in Seq(Seq(Events)) /\ Len(ledger') = Len(runs)
    BY <1>1, <1>4 DEF ForestTyped
  <2>2. /\ runs' \in Seq([parent : Nat, from : Nat]) /\ runs' # <<>>
        /\ forking' \subseteq Runs' \ {1}
    BY <1>1 DEF ForestTyped
  <2> QED
    BY <2>1, <2>2 DEF ForestTyped
<1>9. Rooted'
  <2>1. 1 \in Runs /\ 1 \in DOMAIN ledger[1] /\ ledger[1][1].type = "checkpoint"
    <3>1. 1 \in Runs
      BY <1>1, OfRun
    <3>2. ledger[1] \in Seq(Events) /\ ledger[1] # <<>>
      BY <1>1, <3>1, OfRun DEF Rooted
    <3> QED
      BY <3>1, <3>2 DEF Rooted
  <2>2. ledger'[1][1].type = "checkpoint" /\ ledger'[1] # <<>>
    BY <1>5, <2>1
  <2>3. \A q \in Runs : q # 1 => runs[q].parent \in 1..(q - 1) /\ runs[q].parent \in Runs
    <3> TAKE q \in Runs
    <3> HAVE q # 1
    <3>1. Runs = 1..Len(runs) /\ Len(runs) \in Nat
      BY <1>1, OfRun
    <3> QED
      BY <3>1 DEF Rooted
  <2>4. \A q \in Runs : q # 1 => runs[q].from \in CheckpointSeqs(runs[q].parent)'
    BY <1>7, <2>3 DEF Rooted
  <2> QED
    BY <1>1, <2>2, <2>3, <2>4 DEF Rooted
<1>10. ASSUME NEW q \in Runs, NEW seq \in DOMAIN ledger'[q]
       PROVE  Names(q, seq, ledger[q][seq])'
  <2>1. PICK e : e = ledger'[q][seq]
    OBVIOUS
  <2>2. Names(q, seq, e)
    <3>1. CASE seq \in DOMAIN ledger[q]
      BY <1>5, <2>1, <3>1
    <3>2. CASE q = r /\ seq = n + 1
      BY <1>2, <1>4, <2>1, <3>2
    <3> QED
      BY <1>6, <3>1, <3>2
  <2>3. Names(q, seq, e)'
    BY <1>1, <1>7, <2>2 DEF Names
  <2> QED
    BY <2>1, <2>3
<1> QED
  BY <1>1, <1>8, <1>9, <1>10

\* Where a run is at is one of its checkpoints, if it has any.
LEMMA CurrentIs ==
  ASSUME ForestInv, NEW r \in Runs
  PROVE  Current(r) = 0 \/ Current(r) \in CheckpointSeqs(r)
<1> DEFINE moves == {seq \in DOMAIN ledger[r] : ledger[r][seq].type \in {"checkpoint", "restored"}}
<1>1. PICK n \in Nat : n = Len(ledger[r]) /\ DOMAIN ledger[r] = 1..n
  BY OfRun DEF ForestInv
<1>2. moves \in SUBSET (0..n)
  BY <1>1
<1>3. CASE moves # {}
  <2>1. PICK m \in moves : m = Max(moves)
    BY <1>1, <1>2, <1>3, LastUpTo
  <2>2. m \in DOMAIN ledger[r] /\ ledger[r][m].type \in {"checkpoint", "restored"}
    OBVIOUS
  <2>3. Names(r, m, ledger[r][m])
    BY <2>2 DEF ForestInv
  <2>4. Current(r) = IF ledger[r][m].type = "restored" THEN ledger[r][m].seq ELSE m
    BY <1>3, <2>1 DEF Current
  <2> QED
    BY <2>2, <2>3, <2>4 DEF Names, CheckpointSeqs
<1>4. CASE moves = {}
  BY <1>4 DEF Current
<1> QED
  BY <1>3, <1>4

\* The run of a fork is listed from when backend.fork has created it.
LEMMA ForkKeeps ==
  ASSUME ForestInv, NEW r \in Runs, NEW seq \in CheckpointSeqs(r), Fork(r, seq)
  PROVE  ForestInv'
<1> USE DEF ForestInv
<1>1. PICK n \in Nat : n = Len(runs) /\ Runs = 1..n /\ r \in 1..n /\ n >= 1
  BY OfRun
<1>2. PICK record \in [parent : Nat, from : Nat] : record = [parent |-> r, from |-> seq]
  <2>1. r \in Nat /\ seq \in Nat
    BY OfRun
  <2> QED
    BY <2>1
<1>3. runs' = Append(runs, record) /\ ledger' = Append(ledger, <<>>) /\ forking' = forking \cup {n + 1}
  BY <1>1, <1>2 DEF Fork
<1>4. runs \in Seq([parent : Nat, from : Nat]) /\ ledger \in Seq(Seq(Events)) /\ Len(ledger) = n
  BY <1>1 DEF ForestTyped
<1>5. /\ Runs' = 1..(n + 1) /\ runs'[n + 1] = record /\ ledger'[n + 1] = <<>>
      /\ \A q \in 1..n : runs'[q] = runs[q] /\ ledger'[q] = ledger[q]
  BY <1>1, <1>3, <1>4 DEF Runs
<1>6. \A q \in 1..n : CheckpointSeqs(q)' = CheckpointSeqs(q)
  BY <1>5 DEF CheckpointSeqs
<1>7. ForestTyped'
  <2>1. runs' \in Seq([parent : Nat, from : Nat]) /\ runs' # <<>> /\ Len(runs') = n + 1
    BY <1>1, <1>3, <1>4, AppendOf
  <2>2. ledger' \in Seq(Seq(Events)) /\ Len(ledger') = n + 1
    <3>1. <<>> \in Seq(Events)
      OBVIOUS
    <3> QED
      BY <1>3, <1>4, <3>1
  <2>3. forking \subseteq (1..n) \ {1} /\ n + 1 # 1
    BY <1>1 DEF ForestTyped
  <2>4. forking' \subseteq Runs' \ {1}
    <3>1. Runs' = 1..(n + 1) /\ forking' = forking \cup {n + 1}
      BY <1>3, <1>5
    <3> QED
      BY <2>3, <3>1
  <2> QED
    BY <1>3, <2>1, <2>2, <2>4 DEF ForestTyped
<1>8. Rooted'
  <2>1. runs'[1] = [parent |-> 0, from |-> 0] /\ ledger'[1] # <<>> /\ ledger'[1][1].type = "checkpoint"
    BY <1>1, <1>5 DEF Rooted
  <2>2. ASSUME NEW q \in 1..(n + 1), q # 1
        PROVE  runs'[q].parent \in 1..(q - 1) /\ (runs[q].from \in CheckpointSeqs(runs[q].parent))'
    <3>1. CASE q = n + 1
      BY <1>1, <1>2, <1>5, <1>6, <3>1
    <3>2. CASE q \in 1..n
      <4>1. runs[q].parent \in 1..(q - 1) /\ runs[q].from \in CheckpointSeqs(runs[q].parent)
        BY <1>1, <2>2, <3>2 DEF Rooted
      <4>2. runs[q].parent \in 1..n
        BY <3>2, <4>1
      <4> QED
        BY <1>5, <1>6, <3>2, <4>1, <4>2
    <3> QED
      BY <3>1, <3>2
  <2> QED
    BY <1>5, <2>1, <2>2 DEF Rooted
<1>9. ASSUME NEW q \in 1..(n + 1), NEW s \in DOMAIN ledger'[q]
      PROVE  Names(q, s, ledger[q][s])'
  <2>1. q \in 1..n /\ s \in DOMAIN ledger[q] /\ ledger'[q][s] = ledger[q][s]
    <3>1. q # n + 1
      BY <1>5
    <3> QED
      BY <1>5, <3>1
  <2>2. PICK e : e = ledger[q][s]
    OBVIOUS
  <2>3. Names(q, s, e)
    BY <1>1, <2>1, <2>2
  <2>4. Names(q, s, e)'
    BY <1>5, <1>6, <2>1, <2>3 DEF Names
  <2> QED
    BY <2>1, <2>2, <2>4
<1> QED
  BY <1>5, <1>7, <1>8, <1>9

\* Every action keeps it.
LEMMA ForestInvNext == ForestInv /\ [ForestNext]_forestVars => ForestInv'
<1> SUFFICES ASSUME ForestInv, [ForestNext]_forestVars PROVE ForestInv'
  OBVIOUS
<1>1. ForestTyped
  BY DEF ForestInv, ForestTyped
<1>2. CASE UNCHANGED forestVars
  BY <1>2 DEF ForestInv, ForestTyped, Rooted, Names, Runs, CheckpointSeqs, forestVars
<1>3. ASSUME NEW r \in Runs, Record(r) PROVE ForestInv'
  <2>1. PICK e : e = Event("observation", 0, 0, 0)
    OBVIOUS
  <2>2. e \in Events /\ e.type = "observation"
    BY <2>1 DEF Event, Events
  <2>3. Names(r, Len(ledger[r]) + 1, e)
    BY <2>2 DEF Names
  <2>4. /\ runs' = runs /\ ledger' = [ledger EXCEPT ![r] = Append(@, e)]
        /\ forking' \subseteq forking
    BY <1>1, <1>3, <2>1 DEF Record, AppendEvent
  <2> QED
    BY <2>2, <2>3, <2>4, AppendKeeps
<1>4. ASSUME NEW r \in Runs, TakeCheckpoint(r) PROVE ForestInv'
  <2>1. PICK at \in 0..MaxMillis : AppendEvent(r, Event("checkpoint", r, Current(r), at))
    BY <1>4 DEF TakeCheckpoint
  <2>2. PICK e : e = Event("checkpoint", r, Current(r), at)
    OBVIOUS
  <2>3. /\ CheckpointSeqs(r) \subseteq 1..Len(ledger[r]) /\ Len(ledger[r]) \in Nat /\ r \in Nat
    BY <1>1, OfRun
  <2>4. Current(r) = 0 \/ Current(r) \in CheckpointSeqs(r)
    BY CurrentIs
  <2>5. e \in Events /\ e.type = "checkpoint" /\ e.seq = Current(r)
    BY <2>1, <2>2, <2>3, <2>4 DEF Event, Events
  <2>6. Names(r, Len(ledger[r]) + 1, e)
    BY <2>3, <2>4, <2>5 DEF Names
  <2>7. /\ runs' = runs /\ ledger' = [ledger EXCEPT ![r] = Append(@, e)]
        /\ forking' \subseteq forking
    BY <1>4, <2>1, <2>2 DEF TakeCheckpoint, AppendEvent
  <2> QED
    BY <2>5, <2>6, <2>7, AppendKeeps
<1>5. ASSUME NEW r \in Runs, AppendForked(r) PROVE ForestInv'
  <2>1. r # 1 /\ runs[r].parent \in Nat /\ runs[r].from \in Nat
    BY <1>1, <1>5, OfRun DEF AppendForked, ForestTyped
  <2>2. PICK e : e = Event("forked", runs[r].parent, runs[r].from, 0)
    OBVIOUS
  <2>3. e \in Events /\ e.type = "forked" /\ Names(r, Len(ledger[r]) + 1, e)
    BY <2>1, <2>2 DEF Event, Events, Names
  <2>4. /\ runs' = runs /\ ledger' = [ledger EXCEPT ![r] = Append(@, e)]
        /\ forking' \subseteq forking
    BY <1>1, <1>5, <2>2 DEF AppendForked, AppendEvent
  <2> QED
    BY <2>3, <2>4, AppendKeeps
<1>6. ASSUME NEW r \in Runs, ForkDies(r) PROVE ForestInv'
  <2>1. runs' = runs /\ ledger' = ledger /\ forking' \subseteq forking
    BY <1>6 DEF ForkDies
  <2> QED
    BY <2>1 DEF ForestInv, ForestTyped, Rooted, Names, Runs, CheckpointSeqs
<1>7. ASSUME NEW r \in Runs, NEW seq \in CheckpointSeqs(r), RestoreTo(r, seq) PROVE ForestInv'
  <2>1. r \in Nat /\ seq \in Nat /\ seq \in 1..Len(ledger[r]) /\ Len(ledger[r]) \in Nat
    BY <1>1, OfRun
  <2>2. PICK e : e = Event("restored", r, seq, 0)
    OBVIOUS
  <2>3. e \in Events /\ e.type = "restored" /\ Names(r, Len(ledger[r]) + 1, e)
    BY <2>1, <2>2 DEF Event, Events, Names
  <2>4. /\ runs' = runs /\ ledger' = [ledger EXCEPT ![r] = Append(@, e)]
        /\ forking' \subseteq forking
    BY <1>1, <1>7, <2>2 DEF RestoreTo, AppendEvent
  <2> QED
    BY <2>3, <2>4, AppendKeeps
<1> QED
  BY <1>2, <1>3, <1>4, <1>5, <1>6, <1>7, ForkKeeps DEF ForestNext

-----------------------------------------------------------------------------
(* Recursive functions, and the lineage that diff goes by                    *)

\* At a leaf x the value is b[x], and elsewhere a step from the value at p[x], where
\* m is smaller.
Descends(D, S, N, m, leaf, b, p, step) ==
  /\ N \in Nat /\ m \in [D -> 0..N]
  /\ \A x \in D : x \in leaf => b[x] \in S
  /\ \A x \in D : x \notin leaf => /\ p[x] \in D /\ m[p[x]] < m[x]
                                   /\ \A s \in S : step[x][s] \in S

\* There is a function that is computed so.
LEMMA ByDescent ==
  ASSUME NEW D, NEW S, NEW N, NEW m, NEW leaf, NEW b, NEW p, NEW step,
         Descends(D, S, N, m, leaf, b, p, step)
  PROVE  \E f \in [D -> S] : \A x \in D : f[x] = IF x \in leaf THEN b[x] ELSE step[x][f[p[x]]]
<1> USE DEF Descends
<1> DEFINE BelowTop(n) == {x \in D : m[x] < n}
           Good(f, n) == \A x \in BelowTop(n) : f[x] = IF x \in leaf THEN b[x] ELSE step[x][f[p[x]]]
           good == {n \in 0..(N + 1) : \E f \in [BelowTop(n) -> S] : Good(f, n)}
<1>1. \A x \in D : m[x] \in 0..N
  OBVIOUS
<1>2. ASSUME NEW n \in 0..(N + 1), \A i \in 0..(n - 1) : i \in good PROVE n \in good
  <2>1. CASE n = 0
    <3>1. BelowTop(0) = {}
      BY <1>1
    <3>2. [x \in {} |-> 0] \in [BelowTop(0) -> S]
      BY <3>1
    <3>3. Good([x \in {} |-> 0], 0)
      BY <3>1
    <3> HIDE DEF BelowTop, Good
    <3> QED
      BY <2>1, <3>2, <3>3
  <2>2. CASE n # 0
    <3>1. n - 1 \in 0..(n - 1) /\ n - 1 \in Nat
      BY <2>2
    <3>2. PICK f \in [BelowTop(n - 1) -> S] : Good(f, n - 1)
      BY <1>2, <3>1
    <3> DEFINE g == [x \in BelowTop(n) |-> IF x \in leaf THEN b[x] ELSE step[x][f[p[x]]]]
    <3>3. \A x \in BelowTop(n) : x \notin leaf => p[x] \in BelowTop(n - 1) /\ p[x] \in BelowTop(n)
      BY <1>1, <3>1
    <3>4. \A x \in BelowTop(n) : g[x] \in S
      <4> TAKE x \in BelowTop(n)
      <4>1. CASE x \in leaf
        BY <4>1
      <4>2. CASE x \notin leaf
        <5>1. p[x] \in BelowTop(n - 1)
          BY <3>3, <4>2
        <5>2. f[p[x]] \in S
          BY <3>2, <5>1
        <5> QED
          BY <4>2, <5>2
      <4> QED
        BY <4>1, <4>2
    <3>5. \A x \in BelowTop(n - 1) : x \in BelowTop(n) /\ g[x] = f[x]
      <4> TAKE x \in BelowTop(n - 1)
      <4>1. x \in BelowTop(n)
        BY <1>1, <3>1
      <4>2. f[x] = IF x \in leaf THEN b[x] ELSE step[x][f[p[x]]]
        BY <3>2
      <4> QED
        BY <4>1, <4>2
    <3>6. Good(g, n)
      <4> SUFFICES ASSUME NEW x \in BelowTop(n)
                   PROVE  g[x] = IF x \in leaf THEN b[x] ELSE step[x][g[p[x]]]
        OBVIOUS
      <4>1. g[x] = IF x \in leaf THEN b[x] ELSE step[x][f[p[x]]]
        OBVIOUS
      <4>2. x \notin leaf => g[p[x]] = f[p[x]]
        BY <3>3, <3>5
      <4> QED
        BY <4>1, <4>2
    <3>7. g \in [BelowTop(n) -> S]
      BY <3>4
    <3> HIDE DEF g, Good, BelowTop
    <3> QED
      BY <3>6, <3>7
  <2> QED
    BY <2>1, <2>2
<1>3. N + 1 \in good
  <2> HIDE DEF good
  <2>1. N + 1 \in Nat /\ N + 1 \in 0..(N + 1)
    OBVIOUS
  <2> QED
    BY <1>2, <2>1, ByEarlier
<1>4. BelowTop(N + 1) = D
  BY <1>1
<1>5. PICK f \in [BelowTop(N + 1) -> S] : Good(f, N + 1)
  BY <1>3
<1> QED
  BY <1>4, <1>5

\* Whatever is computed so is in S.
LEMMA Descended ==
  ASSUME NEW D, NEW S, NEW N, NEW m, NEW leaf, NEW b, NEW p, NEW step,
         Descends(D, S, N, m, leaf, b, p, step), NEW f,
         \A x \in D : x \in leaf => f[x] = b[x],
         \A x \in D : x \notin leaf /\ f[p[x]] \in S => f[x] = step[x][f[p[x]]]
  PROVE  \A x \in D : f[x] \in S
<1> DEFINE good == {k \in 0..N : \A x \in D : m[x] = k => f[x] \in S}
<1>1. N \in Nat /\ \A x \in D : m[x] \in 0..N
  BY DEF Descends
<1>2. ASSUME NEW k \in 0..N, \A i \in 0..(k - 1) : i \in good PROVE k \in good
  <2> SUFFICES ASSUME NEW x \in D, m[x] = k PROVE f[x] \in S
    OBVIOUS
  <2>1. CASE x \in leaf
    BY <2>1 DEF Descends
  <2>2. CASE x \notin leaf
    <3>1. p[x] \in D /\ m[p[x]] < k /\ \A s \in S : step[x][s] \in S
      BY <2>2 DEF Descends
    <3>2. m[p[x]] \in 0..(k - 1)
      BY <1>1, <3>1
    <3>3. f[p[x]] \in S
      BY <1>2, <3>1, <3>2
    <3> QED
      BY <2>2, <3>1, <3>3
  <2> QED
    BY <2>1, <2>2
<1>3. \A k \in 0..N : k \in good
  <2> HIDE DEF good
  <2> QED
    BY <1>1, <1>2, ByEarlier
<1> QED
  BY <1>1, <1>3

\* A sequence with an element before it.
LEMMA Prepended ==
  ASSUME NEW S, NEW s \in Seq(S), NEW x \in S
  PROVE  /\ <<x>> \o s \in Seq(S) /\ Len(<<x>> \o s) = Len(s) + 1
         /\ (<<x>> \o s)[1] = x /\ \A i \in 1..Len(s) : (<<x>> \o s)[i + 1] = s[i]
OBVIOUS

\* A sequence of one element.
LEMMA SingleOf ==
  ASSUME NEW S, NEW x \in S
  PROVE  <<x>> \in Seq(S) /\ Len(<<x>>) = 1 /\ <<x>>[1] = x
OBVIOUS

\* A checkpoint is a position of a run.
LEMMA CheckpointIs ==
  ASSUME ForestInv
  PROVE  /\ \A c \in Checkpoints : /\ c \in Positions /\ c.seq \in CheckpointSeqs(c.run)
                                   /\ c.seq \in DOMAIN ledger[c.run] /\ c = Ref(c.run, c.seq)
         /\ \A r \in Runs : \A seq \in CheckpointSeqs(r) : Ref(r, seq) \in Checkpoints
<1>1. ASSUME NEW c \in Checkpoints
      PROVE  /\ c \in Positions /\ c.seq \in CheckpointSeqs(c.run)
             /\ c.seq \in DOMAIN ledger[c.run] /\ c = Ref(c.run, c.seq)
  <2>1. PICK r \in Runs : \E seq \in CheckpointSeqs(r) : c = Ref(r, seq)
    BY DEF Checkpoints
  <2>2. PICK seq \in CheckpointSeqs(r) : c = Ref(r, seq)
    BY <2>1
  <2>3. CheckpointSeqs(r) \subseteq 1..Len(ledger[r]) /\ Len(ledger[r]) \in Nat
    BY OfRun DEF ForestInv
  <2>4. seq \in Nat /\ seq \in DOMAIN ledger[r]
    BY <2>3 DEF CheckpointSeqs
  <2> QED
    BY <2>2, <2>4 DEF Ref, Positions
<1>2. ASSUME NEW r \in Runs, NEW seq \in CheckpointSeqs(r) PROVE Ref(r, seq) \in Checkpoints
  BY DEF Checkpoints
<1> QED
  BY <1>1, <1>2

\* A fork comes from a checkpoint of an earlier run; the first run from none.
LEMMA SourceIs ==
  ASSUME ForestInv
  PROVE  /\ ForkSource(1) = None /\ 1 \in Runs /\ Runs = 1..Len(runs) /\ Len(runs) \in Nat
         /\ None \notin Positions
         /\ \A r \in Runs : r # 1 => /\ runs[r].parent \in Runs /\ runs[r].parent < r /\ runs[r].parent # 0
                                     /\ ForkSource(r).run = runs[r].parent
                                     /\ ForkSource(r) \in Checkpoints /\ ForkSource(r) \in Positions
                                     /\ ForkSource(r) # None
         /\ runs[1].parent = 0
<1>1. PICK n \in Nat : n = Len(runs) /\ Runs = 1..n /\ 1 \in Runs
  <2>1. ForestTyped /\ runs # <<>> /\ runs \in Seq([parent : Nat, from : Nat])
    BY DEF ForestInv, ForestTyped
  <2>2. DOMAIN runs = 1..Len(runs) /\ Len(runs) \in Nat /\ Len(runs) # 0
    BY <2>1
  <2>3. 1 \in 1..Len(runs)
    BY <2>2
  <2>4. Runs = 1..Len(runs)
    BY <2>2 DEF Runs
  <2> QED
    BY <2>2, <2>3, <2>4
<1>2. ForkSource(1) = None /\ runs[1].parent = 0
  BY DEF ForestInv, Rooted, ForkSource, None
<1>3. None \notin Positions
  BY <1>1 DEF None, Positions, Ref
<1>4. ASSUME NEW r \in Runs, r # 1
      PROVE  /\ runs[r].parent \in Runs /\ runs[r].parent < r /\ runs[r].parent # 0
             /\ ForkSource(r).run = runs[r].parent
             /\ ForkSource(r) \in Checkpoints /\ ForkSource(r) \in Positions
  <2>1. runs[r].parent \in 1..(r - 1) /\ runs[r].from \in CheckpointSeqs(runs[r].parent)
    BY <1>4 DEF ForestInv, Rooted
  <2>2. runs[r].parent \in Runs /\ runs[r].parent < r /\ runs[r].parent # 0
    BY <1>1, <2>1
  <2>3. ForkSource(r) \in Checkpoints /\ ForkSource(r).run = runs[r].parent
    BY <2>1, <2>2, CheckpointIs DEF ForkSource, Ref
  <2> QED
    BY <2>2, <2>3, CheckpointIs
<1> QED
  BY <1>1, <1>2, <1>3, <1>4

\* The event that announces a fork names its source.
LEMMA ForkedFromIs ==
  ASSUME ForestInv, NEW r \in Runs
  PROVE  ForkedFrom(r) = None \/ (r # 1 /\ ForkedFrom(r) = ForkSource(r))
<1> DEFINE forks == {seq \in DOMAIN ledger[r] : ledger[r][seq].type = "forked"}
<1>1. PICK n \in Nat : n = Len(ledger[r]) /\ DOMAIN ledger[r] = 1..n
  BY OfRun DEF ForestInv
<1>2. CASE forks = {}
  BY <1>2 DEF ForkedFrom
<1>3. CASE forks # {}
  <2>1. forks \in SUBSET (0..n)
    BY <1>1
  <2>2. PICK m \in forks : m = Max(forks)
    BY <1>3, <2>1, LastUpTo
  <2>3. ForkedFrom(r) = Ref(ledger[r][m].run, ledger[r][m].seq)
    BY <1>3, <2>2 DEF ForkedFrom
  <2>4. m \in DOMAIN ledger[r] /\ ledger[r][m].type = "forked"
    OBVIOUS
  <2>5. Names(r, m, ledger[r][m])
    BY <2>4 DEF ForestInv
  <2> QED
    BY <2>3, <2>4, <2>5 DEF Names, ForkSource
<1> QED
  BY <1>2, <1>3

\* The steps of the lineage.
LEMMA LineageSteps ==
  ASSUME ForestInv
  PROVE  \A c \in Positions :
           /\ EngineLineage[c] \in Seq(Positions)
           /\ EngineLineage[c] = IF ForkedFrom(c.run) = None THEN <<c>>
                                 ELSE <<c>> \o EngineLineage[ForkedFrom(c.run)]
<1> DEFINE S == Seq(Positions)
           Is(f) == f = [c \in Positions |-> IF ForkedFrom(c.run) = None THEN <<c>>
                                             ELSE <<c>> \o f[ForkedFrom(c.run)]]
<1>1. EngineLineage = CHOOSE f : Is(f)
  BY Zenon DEF EngineLineage
<1>2. PICK n \in Nat : n = Len(runs) /\ Runs = 1..n
  BY SourceIs
<1>3. \A c \in Positions : c.run \in Runs /\ c.run \in 0..n
  BY <1>2 DEF Positions
<1>4. \A c \in Positions : ForkedFrom(c.run) # None =>
        ForkedFrom(c.run) \in Positions /\ ForkedFrom(c.run).run < c.run
  BY <1>3, ForkedFromIs, SourceIs
<1>5. PICK m : m = [c \in Positions |-> c.run]
  OBVIOUS
<1>6. PICK p : p = [c \in Positions |-> ForkedFrom(c.run)]
  OBVIOUS
<1>7. PICK b : b = [c \in Positions |-> <<c>>]
  OBVIOUS
<1>8. PICK step : step = [c \in Positions |-> [s \in S |-> <<c>> \o s]]
  OBVIOUS
<1>9. PICK leaf : leaf = {c \in Positions : ForkedFrom(c.run) = None}
  OBVIOUS
<1>10. m \in [Positions -> 0..n] /\ \A c \in Positions : m[c] = c.run /\ p[c] = ForkedFrom(c.run) /\ b[c] = <<c>>
  BY <1>3, <1>5, <1>6, <1>7
<1>11. \A c \in Positions : \A s \in S : step[c][s] = <<c>> \o s
  BY <1>8
<1>12. \A c \in Positions : c \in leaf => b[c] \in S
  BY <1>10, SingleOf
<1>13. \A c \in Positions : c \notin leaf => /\ p[c] \in Positions /\ m[p[c]] < m[c]
                                             /\ \A s \in S : step[c][s] \in S
  <2> TAKE c \in Positions
  <2> HAVE c \notin leaf
  <2>1. p[c] \in Positions /\ m[p[c]] < m[c]
    BY <1>4, <1>9, <1>10
  <2>2. ASSUME NEW s \in S PROVE step[c][s] \in S
    <3>1. <<c>> \o s \in S
      BY Prepended
    <3> QED
      BY <1>11, <3>1
  <2> QED
    BY <2>1, <2>2
<1> HIDE DEF S
<1>13a. Descends(Positions, S, n, m, leaf, b, p, step)
  BY <1>2, <1>10, <1>12, <1>13 DEF Descends
<1>14. PICK f \in [Positions -> S] : \A c \in Positions : f[c] = IF c \in leaf THEN b[c] ELSE step[c][f[p[c]]]
  BY <1>13a, ByDescent
<1>15. \A c \in Positions : f[c] = IF ForkedFrom(c.run) = None THEN <<c>> ELSE <<c>> \o f[ForkedFrom(c.run)]
  <2> TAKE c \in Positions
  <2>1. CASE c \in leaf
    BY <1>9, <1>10, <1>14, <2>1
  <2>2. CASE c \notin leaf
    <3>1. p[c] \in Positions /\ p[c] = ForkedFrom(c.run) /\ ForkedFrom(c.run) # None
      BY <1>9, <1>10, <1>13, <2>2
    <3>2. f[p[c]] \in S /\ f[c] = step[c][f[p[c]]]
      BY <1>14, <2>2, <3>1
    <3> QED
      BY <1>11, <3>1, <3>2
  <2> QED
    BY <2>1, <2>2
<1>16. Is(f)
  <2>1. f = [c \in Positions |-> f[c]]
    BY <1>14
  <2> QED
    BY <1>15, <2>1, Zenon
<1>17. Is(EngineLineage)
  <2> HIDE DEF Is
  <2> QED
    BY <1>1, <1>16, Zenon
<1>18. \A c \in Positions : EngineLineage[c] = IF ForkedFrom(c.run) = None THEN <<c>>
                                               ELSE <<c>> \o EngineLineage[ForkedFrom(c.run)]
  BY <1>17, Zenon
<1>19. \A c \in Positions : c \in leaf => EngineLineage[c] = b[c]
  BY <1>9, <1>10, <1>18
<1>20. \A c \in Positions : c \notin leaf /\ EngineLineage[p[c]] \in S => EngineLineage[c] = step[c][EngineLineage[p[c]]]
  <2> TAKE c \in Positions
  <2> HAVE c \notin leaf /\ EngineLineage[p[c]] \in S
  <2>1. PICK s \in S : s = EngineLineage[p[c]]
    OBVIOUS
  <2>2. step[c][s] = <<c>> \o s
    BY <1>11
  <2>3. EngineLineage[c] = <<c>> \o s
    BY <1>9, <1>10, <1>18, <2>1
  <2> QED
    BY <2>1, <2>2, <2>3
<1>21. \A c \in Positions : EngineLineage[c] \in S
  BY <1>13a, <1>19, <1>20, Descended
<1> QED
  BY <1>18, <1>21 DEF S

\* The lineage of a position begins with it and goes on through earlier runs.
LineageFine(c) ==
  LET lineage == EngineLineage[c]
  IN  /\ lineage \in Seq(Positions) /\ Len(lineage) >= 1 /\ lineage[1] = c
      /\ \A i, j \in 1..Len(lineage) : i < j => lineage[j].run < lineage[i].run

\* Every lineage does.
LEMMA LineageIs ==
  ASSUME ForestInv
  PROVE  \A c \in Positions : LineageFine(c)
<1>1. PICK n \in Nat : n = Len(runs) /\ Runs = 1..n
  BY SourceIs
<1>2. \A c \in Positions : c.run \in Runs /\ c.run \in 0..n /\ c.run \in Nat
  BY <1>1 DEF Positions
<1> DEFINE good == {k \in 0..n : \A c \in Positions : c.run = k => LineageFine(c)}
<1>3. ASSUME NEW k \in 0..n, \A i \in 0..(k - 1) : i \in good PROVE k \in good
  <2> SUFFICES ASSUME NEW c \in Positions, c.run = k PROVE LineageFine(c)
    OBVIOUS
  <2>1. PICK s \in Seq(Positions) : s = EngineLineage[c]
    BY LineageSteps
  <2>2. CASE ForkedFrom(c.run) = None
    <3>1. s = <<c>>
      BY <2>1, <2>2, LineageSteps
    <3>2. Len(s) = 1 /\ s[1] = c
      BY <3>1
    <3> QED
      BY <2>1, <3>2 DEF LineageFine
  <2>3. CASE ForkedFrom(c.run) # None
    <3>1. PICK q \in Positions : q = ForkedFrom(c.run) /\ q.run < c.run
      BY <1>2, <2>3, ForkedFromIs, SourceIs
    <3>2. q.run \in 0..(k - 1)
      BY <1>2, <3>1
    <3>3. LineageFine(q)
      BY <1>3, <3>2
    <3>4. PICK t \in Seq(Positions) : t = EngineLineage[q]
      BY LineageSteps
    <3>5. s = <<c>> \o t
      BY <2>1, <2>3, <3>1, <3>4, LineageSteps
    <3>6. PICK l \in Nat : l = Len(t)
      BY <3>4
    <3>7. /\ l >= 1 /\ t[1] = q
          /\ \A i, j \in 1..l : i < j => t[j].run < t[i].run
      BY <3>3, <3>4, <3>6 DEF LineageFine
    <3>8. Len(s) = l + 1 /\ s[1] = c /\ \A i \in 1..l : s[i + 1] = t[i]
      BY <3>5, <3>6, Prepended
    <3>9. \A i \in 1..l : t[i].run < c.run /\ t[i].run \in Nat
      <4> TAKE i \in 1..l
      <4>1. t[i] \in Positions /\ t[1] \in Positions
        BY <3>4, <3>6, <3>7
      <4>2. i = 1 \/ t[i].run < t[1].run
        BY <3>7
      <4> QED
        BY <1>2, <3>1, <3>7, <4>1, <4>2
    <3>10. ASSUME NEW i \in 1..(l + 1), NEW j \in 1..(l + 1), i < j PROVE s[j].run < s[i].run
      <4>1. j - 1 \in 1..l /\ s[j] = t[j - 1]
        <5>1. j - 1 \in 1..l /\ (j - 1) + 1 = j
          BY <3>10
        <5> QED
          BY <3>8, <5>1
      <4>2. CASE i = 1
        BY <3>8, <3>9, <4>1, <4>2
      <4>3. CASE i # 1
        <5>1. i - 1 \in 1..l /\ (i - 1) + 1 = i /\ i - 1 < j - 1
          BY <3>10, <4>3
        <5>2. s[i] = t[i - 1]
          BY <3>8, <5>1
        <5> QED
          BY <3>7, <4>1, <5>1, <5>2
      <4> QED
        BY <4>2, <4>3
    <3> QED
      BY <2>1, <3>7, <3>8, <3>10 DEF LineageFine
  <2> QED
    BY <2>2, <2>3
<1>4. \A k \in 0..n : k \in good
  <2> HIDE DEF good
  <2> QED
    BY <1>3, ByEarlier
<1> QED
  BY <1>2, <1>4

\* What diff reads of a lineage: where it leaves a run.
LEMMA SeqInIs ==
  ASSUME ForestInv, NEW c \in Positions, NEW r \in Runs
  PROVE  /\ SeqIn(EngineLineage[c], r) \in Nat
         /\ \A k \in Nat : Ref(r, k) \in Covered(c) <=> k \in 1..SeqIn(EngineLineage[c], r)
         /\ (\A i \in DOMAIN EngineLineage[c] : EngineLineage[c][i].run # r) => SeqIn(EngineLineage[c], r) = 0
<1>1. PICK s \in Seq(Positions) : s = EngineLineage[c]
  BY LineageSteps
<1>2. PICK l \in Nat : l = Len(s) /\ DOMAIN s = 1..l
  OBVIOUS
<1>3. \A i, j \in 1..l : i < j => s[j].run < s[i].run
  BY <1>1, <1>2, LineageIs DEF LineageFine
<1>4. \A i \in 1..l : s[i].run \in Nat /\ s[i].seq \in Nat
  <2>1. Runs \subseteq Nat
    BY SourceIs
  <2>2. \A i \in 1..l : s[i] \in Positions
    BY <1>2, ElementOf
  <2> QED
    BY <2>1, <2>2 DEF Positions
<1> DEFINE entries == {i \in DOMAIN s : s[i].run = r}
<1>5. ASSUME NEW k \in Nat
      PROVE  Ref(r, k) \in Covered(c) <=> \E i \in entries : k \in 1..s[i].seq
  <2>1. Ref(r, k) \in Covered(c) <=> \E entry \in Range(s) : Ref(r, k) \in {Ref(entry.run, seq) : seq \in 1..entry.seq}
    BY <1>1 DEF Covered
  <2>2. \A entry \in Positions : Ref(r, k) \in {Ref(entry.run, seq) : seq \in 1..entry.seq}
                                   <=> entry.run = r /\ k \in 1..entry.seq
    BY DEF Ref
  <2>3. \A i \in DOMAIN s : s[i] \in Positions
    BY <1>2
  <2> QED
    BY <2>1, <2>2, <2>3 DEF Range
<1>6. CASE entries = {}
  <2>1. SeqIn(s, r) = 0
    BY <1>6 DEF SeqIn
  <2> QED
    BY <1>1, <1>5, <1>6, <2>1
<1>7. CASE entries # {}
  <2>1. entries \in SUBSET Nat
    BY <1>2
  <2>2. PICK m \in entries : m = Min(entries)
    BY <1>7, <2>1, FirstOf
  <2>3. SeqIn(s, r) = s[m].seq
    BY <1>7, <2>2 DEF SeqIn
  <2>4. \A i \in entries : i = m
    BY <1>2, <1>3, <1>4
  <2> QED
    BY <1>1, <1>2, <1>4, <1>5, <2>2, <2>3, <2>4
<1> QED
  BY <1>6, <1>7

\* The range of one side of a diff.
LEMMA RangeIs ==
  ASSUME ForestInv, NEW a \in Checkpoints, NEW b \in Positions, NEW z, z = SeqIn(EngineLineage[b], a.run)
  PROVE  /\ z \in Nat /\ a.seq \in Nat
         /\ DiffRange(a, b) = Min({z, a.seq})..a.seq
<1>1. a \in Positions /\ a.run \in Runs /\ a.seq \in Nat
  BY CheckpointIs DEF Positions
<1>2. z \in Nat
  BY <1>1, SeqInIs
<1>3. PICK mine \in Seq(Positions) : mine = EngineLineage[a]
  BY <1>1, LineageSteps
<1>4. PICK theirs \in Seq(Positions) : theirs = EngineLineage[b]
  BY LineageSteps
<1>5. Len(mine) >= 1 /\ mine[1] = a
  BY <1>1, <1>3, LineageIs DEF LineageFine
<1> DEFINE shared == {i \in DOMAIN mine : \E j \in DOMAIN theirs : theirs[j].run = mine[i].run}
           start == IF shared # {} /\ Min(shared) = 1 THEN Min({a.seq, SeqIn(theirs, a.run)}) ELSE 0
<1>6. DiffRange(a, b) = Min({start, a.seq})..a.seq
  BY <1>3, <1>4 DEF DiffRange
<1>7. shared \in SUBSET Nat /\ DOMAIN mine = 1..Len(mine)
  <2>1. DOMAIN mine = 1..Len(mine) /\ Len(mine) \in Nat
    OBVIOUS
  <2> QED
    BY <2>1
<1>8. \A x, y \in Nat : Min({x, y}) = IF x <= y THEN x ELSE y
  <2> TAKE x, y \in Nat
  <2>1. {x, y} \in SUBSET Nat /\ {x, y} # {}
    OBVIOUS
  <2>2. Min({x, y}) \in {x, y} /\ \A i \in {x, y} : Min({x, y}) <= i
    BY <2>1, FirstOf
  <2> QED
    BY <2>2
<1>9. CASE 1 \in shared
  <2>1. Min(shared) = 1
    <3>1. Min(shared) \in shared /\ Min(shared) <= 1
      BY <1>7, <1>9, FirstOf
    <3> QED
      BY <1>7, <3>1
  <2>2. start = Min({a.seq, z})
    BY <1>4, <1>9, <2>1
  <2>3. Min({start, a.seq}) = Min({z, a.seq})
    <3> HIDE DEF start, shared
    <3>1. start \in Nat
      BY <1>1, <1>2, <1>8, <2>2
    <3> QED
      BY <1>1, <1>2, <1>8, <2>2, <3>1
  <2> QED
    BY <1>1, <1>2, <1>6, <2>3
<1>10. CASE 1 \notin shared
  <2>1. start = 0
    <3>1. shared # {} => Min(shared) # 1
      BY <1>7, <1>10, FirstOf
    <3> QED
      BY <3>1
  <2>2. \A j \in DOMAIN theirs : theirs[j].run # a.run
    BY <1>5, <1>7, <1>10
  <2>3. z = 0
    BY <1>1, <1>4, <2>2, SeqInIs
  <2> QED
    BY <1>1, <1>2, <1>6, <2>1, <2>3
<1> QED
  BY <1>9, <1>10

-----------------------------------------------------------------------------
(* The checkpoints of a forest in the order of their runs and cursors        *)

Under(x, y) == x.run < y.run \/ (x.run = y.run /\ x.seq < y.seq)

\* The numbers of a position.
LEMMA PositionIs ==
  ASSUME ForestInv
  PROVE  /\ \A c \in Positions : c.run \in Nat /\ c.seq \in Nat /\ c.run \in Runs /\ c = Ref(c.run, c.seq)
         /\ \A r \in Runs, seq \in Nat : Ref(r, seq) \in Positions /\ Ref(r, seq).run = r /\ Ref(r, seq).seq = seq
         /\ Checkpoints \subseteq Positions
         /\ \A c \in Checkpoints : c.seq # 0
<1>1. Runs \subseteq Nat
  BY SourceIs
<1>2. ASSUME NEW c \in Checkpoints PROVE c \in Positions /\ c.seq # 0
  <2>1. c \in Positions /\ c.run \in Runs /\ c.seq \in CheckpointSeqs(c.run)
    BY CheckpointIs DEF Positions
  <2>2. CheckpointSeqs(c.run) \subseteq 1..Len(ledger[c.run]) /\ Len(ledger[c.run]) \in Nat
    BY <2>1, OfRun DEF ForestInv
  <2> QED
    BY <2>1, <2>2
<1>3. ASSUME NEW c \in Positions
      PROVE  c.run \in Nat /\ c.seq \in Nat /\ c.run \in Runs /\ c = Ref(c.run, c.seq)
  <2>1. c.run \in Runs /\ c.seq \in Nat /\ c = [run |-> c.run, seq |-> c.seq]
    BY DEF Positions
  <2> QED
    BY <1>1, <2>1 DEF Ref
<1>4. ASSUME NEW r \in Runs, NEW seq \in Nat
      PROVE  Ref(r, seq) \in Positions /\ Ref(r, seq).run = r /\ Ref(r, seq).seq = seq
  BY DEF Positions, Ref
<1> QED
  BY <1>2, <1>3, <1>4

\* Places are positions, and every checkpoint is at one.
LEMMA PlaceIs ==
  ASSUME ForestInv
  PROVE  /\ Places \subseteq Positions /\ Checkpoints \subseteq Places
         /\ \A r \in Runs : \A seq \in 0..Len(ledger[r]) : Ref(r, seq) \in Places
         /\ \A x \in Places : /\ x.run \in Runs /\ x.seq \in 0..Len(ledger[x.run]) /\ Len(ledger[x.run]) \in Nat
                              /\ x.seq # 0 => x.seq \in DOMAIN ledger[x.run]
<1>1. \A r \in Runs : Len(ledger[r]) \in Nat /\ DOMAIN ledger[r] = 1..Len(ledger[r])
  BY OfRun DEF ForestInv
<1>2. ASSUME NEW c \in Checkpoints PROVE c \in Places
  <2>1. c \in Positions /\ c.seq \in DOMAIN ledger[c.run] /\ c.run \in Runs
    BY CheckpointIs, PositionIs
  <2> QED
    BY <1>1, <2>1 DEF Places
<1>3. ASSUME NEW r \in Runs, NEW seq \in 0..Len(ledger[r]) PROVE Ref(r, seq) \in Places
  <2>1. seq \in Nat /\ seq <= Len(ledger[r])
    BY <1>1
  <2> QED
    BY <2>1, PositionIs DEF Places
<1>4. ASSUME NEW x \in Places
      PROVE  /\ x.run \in Runs /\ x.seq \in 0..Len(ledger[x.run]) /\ Len(ledger[x.run]) \in Nat
             /\ x.seq # 0 => x.seq \in DOMAIN ledger[x.run]
  <2>1. x \in Positions /\ x.seq <= Len(ledger[x.run]) /\ x.run \in Runs /\ x.seq \in Nat
    BY PositionIs DEF Places
  <2> QED
    BY <1>1, <2>1
<1>5. Places \subseteq Positions
  BY DEF Places
<1> QED
  BY <1>2, <1>3, <1>4, <1>5

\* There are finitely many.
LEMMA PlacesFinite == ForestInv => IsFiniteSet(Places)
<1> SUFFICES ASSUME ForestInv PROVE IsFiniteSet(Places)
  OBVIOUS
<1>1. PICK n \in Nat : n = Len(runs) /\ Runs = 1..n
  BY SourceIs
<1> DEFINE Part(k) == {x \in Places : x.run <= k}
           good == {k \in 0..n : IsFiniteSet(Part(k))}
<1>2. \A x \in Places : x.run \in 1..n /\ x.run \in Nat
  BY <1>1, PlaceIs
<1>3. ASSUME NEW k \in 0..n, \A i \in 0..(k - 1) : i \in good PROVE k \in good
  <2>1. CASE k = 0
    <3>1. Part(0) = {}
      BY <1>2
    <3> QED
      BY <2>1, <3>1, FS_EmptySet
  <2>2. CASE k # 0
    <3>1. k - 1 \in 0..(k - 1) /\ k \in Runs
      BY <1>1, <2>2
    <3>2. IsFiniteSet(Part(k - 1))
      BY <1>3, <3>1
    <3>3. PICK S : S = 0..Len(ledger[k])
      OBVIOUS
    <3>4. IsFiniteSet(S)
      <4>1. 0 \in Int /\ Len(ledger[k]) \in Int
        BY <3>1, OfRun DEF ForestInv
      <4> QED
        BY <3>3, <4>1, FS_Interval
    <3> DEFINE T == {Ref(k, seq) : seq \in S}
               f == [seq \in S |-> Ref(k, seq)]
    <3>5. f \in Surjection(S, T)
      BY DEF Surjection
    <3>6. IsFiniteSet(T)
      <4> HIDE DEF f, T
      <4> QED
        BY <3>4, <3>5, FS_Surjection
    <3>7. Part(k) = Part(k - 1) \cup T
      <4>1. ASSUME NEW x \in Part(k), x \notin Part(k - 1) PROVE x \in T
        <5>1. x.run = k
          BY <1>2, <3>1, <4>1
        <5>2. x = Ref(x.run, x.seq) /\ x.seq \in S
          BY <3>3, <5>1, PlaceIs, PositionIs
        <5> QED
          BY <5>1, <5>2
      <4>2. ASSUME NEW x \in T PROVE x \in Part(k)
        <5>1. PICK seq \in S : x = Ref(k, seq)
          BY <4>2
        <5>2. x \in Places /\ x.run = k
          BY <3>1, <3>3, <5>1, PlaceIs DEF Ref
        <5> QED
          BY <5>2
      <4>3. Part(k - 1) \subseteq Part(k)
        BY <1>2, <3>1
      <4> QED
        BY <4>1, <4>2, <4>3
    <3> QED
      BY <3>2, <3>6, <3>7, FS_Union
  <2> QED
    BY <2>1, <2>2
<1>4. n \in good
  <2> HIDE DEF good
  <2>1. \A k \in 0..n : k \in good
    BY <1>3, ByEarlier
  <2> QED
    BY <2>1
<1>5. Part(n) = Places
  BY <1>2
<1> QED
  BY <1>4, <1>5

\* How many are before a position.
BeforeIt(c) == Cardinality({x \in Places : Under(x, c)})

\* It grows from a position to any that comes after.
LEMMA BeforeGrows ==
  ASSUME ForestInv
  PROVE  /\ Cardinality(Places) \in Nat
         /\ \A x \in Places : BeforeIt(x) \in 0..Cardinality(Places)
         /\ \A x, y \in Places : Under(x, y) => BeforeIt(x) < BeforeIt(y)
         /\ \A c \in Checkpoints : BeforeIt(c) \in 0..Cardinality(Places)
         /\ \A x, y \in Checkpoints : Under(x, y) => BeforeIt(x) < BeforeIt(y)
<1> DEFINE Part(c) == {x \in Places : Under(x, c)}
<1>1. IsFiniteSet(Places) /\ Cardinality(Places) \in Nat
  BY PlacesFinite, FS_CardinalityType
<1>2. ASSUME NEW c PROVE IsFiniteSet(Part(c)) /\ Cardinality(Part(c)) \in 0..Cardinality(Places)
  <2>1. Part(c) \in SUBSET Places
    OBVIOUS
  <2>2. IsFiniteSet(Part(c)) /\ Cardinality(Part(c)) <= Cardinality(Places)
    BY <1>1, <2>1, FS_Subset
  <2>3. Cardinality(Part(c)) \in Nat
    BY <2>2, FS_CardinalityType
  <2> QED
    BY <1>1, <2>2, <2>3
<1>3. ASSUME NEW x \in Places, NEW y \in Places, Under(x, y) PROVE BeforeIt(x) < BeforeIt(y)
  <2>1. \A c \in Places : c.run \in Nat /\ c.seq \in Nat
    BY PlaceIs, PositionIs
  <2>2. Part(x) \in SUBSET Part(y)
    BY <1>3, <2>1 DEF Under
  <2>3. x \in Part(y) /\ x \notin Part(x)
    BY <1>3, <2>1 DEF Under
  <2>4. Cardinality(Part(x)) <= Cardinality(Part(y)) /\ Cardinality(Part(x)) # Cardinality(Part(y))
    <3> HIDE DEF Part
    <3>1. IsFiniteSet(Part(y))
      BY <1>2
    <3>2. Cardinality(Part(x)) <= Cardinality(Part(y)) /\ (Cardinality(Part(y)) = Cardinality(Part(x)) => Part(y) = Part(x))
      BY <2>2, <3>1, FS_Subset
    <3> QED
      BY <2>3, <3>2
  <2>5. Cardinality(Part(x)) \in Nat /\ Cardinality(Part(y)) \in Nat
    BY <1>1, <1>2
  <2> QED
    BY <2>4, <2>5 DEF BeforeIt
<1>4. \A x \in Places : BeforeIt(x) \in 0..Cardinality(Places)
  BY <1>2 DEF BeforeIt
<1>5. Checkpoints \subseteq Places
  BY PlaceIs
<1> QED
  BY <1>1, <1>3, <1>4, <1>5

\* The parent of a checkpoint is an earlier one of its run.
LEMMA ParentIsEarlier ==
  ASSUME ForestInv, NEW c \in Checkpoints
  PROVE  /\ ParentOf(c) \in Nat
         /\ ParentOf(c) # 0 => LET parent == Ref(c.run, ParentOf(c))
                               IN  parent \in Checkpoints /\ parent.run = c.run /\ parent.seq = ParentOf(c)
                                   /\ Under(parent, c) /\ ParentOf(c) < c.seq
<1>1. c \in Positions /\ c.seq \in CheckpointSeqs(c.run) /\ c.seq \in DOMAIN ledger[c.run] /\ c.run \in Runs
      /\ c.seq \in Nat
  BY CheckpointIs, PositionIs
<1>2. ledger[c.run][c.seq].type = "checkpoint"
  BY <1>1 DEF CheckpointSeqs
<1>3. Names(c.run, c.seq, ledger[c.run][c.seq])
  BY <1>1 DEF ForestInv
<1>4. ParentOf(c) = 0 \/ (ParentOf(c) \in CheckpointSeqs(c.run) /\ ParentOf(c) \in 1..(c.seq - 1))
  BY <1>2, <1>3 DEF Names, ParentOf
<1>5. ParentOf(c) \in Nat /\ (ParentOf(c) # 0 => ParentOf(c) < c.seq)
  BY <1>1, <1>4
<1>6. ASSUME ParentOf(c) # 0 PROVE Ref(c.run, ParentOf(c)) \in Checkpoints
  BY <1>1, <1>4, <1>6, CheckpointIs
<1> QED
  BY <1>5, <1>6 DEF Ref, Under

\* A fork is known to the context builder by its first event.
LEMMA OriginIs ==
  ASSUME ForestInv, NEW r \in Runs, ledger[r] # <<>>
  PROVE  ForkOrigin(r) = IF ledger[r][1].type = "forked" THEN ForkSource(r) ELSE None
<1>1. 1 \in DOMAIN ledger[r]
  BY OfRun DEF ForestInv
<1>2. Names(r, 1, ledger[r][1])
  BY <1>1 DEF ForestInv
<1> QED
  BY <1>2 DEF Names, ForkOrigin, ForkSource

\* Where the walk goes next: to an earlier checkpoint, or it ends.
LEMMA PreviousIs ==
  ASSUME ForestInv, NEW c \in Checkpoints
  PROVE  /\ ledger[c.run] # <<>> /\ c.run \in Runs
         /\ Previous(c) = IF ParentOf(c) # 0 THEN Ref(c.run, ParentOf(c))
                          ELSE IF ledger[c.run][1].type = "forked" THEN ForkSource(c.run) ELSE None
         /\ c.run = 1 => ledger[c.run][1].type # "forked"
         /\ Previous(c) # None => Previous(c) \in Checkpoints /\ Under(Previous(c), c)
<1>1. c.run \in Runs /\ c.seq \in DOMAIN ledger[c.run] /\ c.run \in Nat
  BY CheckpointIs, PositionIs
<1>2. ledger[c.run] # <<>>
  BY <1>1
<1>3. Previous(c) = IF ParentOf(c) # 0 THEN Ref(c.run, ParentOf(c))
                    ELSE IF ledger[c.run][1].type = "forked" THEN ForkSource(c.run) ELSE None
  BY <1>1, <1>2, OriginIs DEF Previous
<1>4. c.run = 1 => ledger[c.run][1].type # "forked"
  BY DEF ForestInv, Rooted
<1>5. CASE ParentOf(c) # 0
  BY <1>1, <1>2, <1>3, <1>4, <1>5, ParentIsEarlier
<1>6. CASE ParentOf(c) = 0
  <2>1. c.run # 1 => ForkSource(c.run) \in Checkpoints /\ ForkSource(c.run).run < c.run
    BY <1>1, SourceIs
  <2>2. Previous(c) # None => c.run # 1 /\ Previous(c) = ForkSource(c.run)
    BY <1>3, <1>4, <1>6
  <2> QED
    BY <1>1, <1>2, <1>3, <1>4, <2>1, <2>2 DEF Under
<1> QED
  BY <1>5, <1>6

-----------------------------------------------------------------------------
(* The elements of a set in order                                            *)

\* A sequence of elements of a set, each of them, and each in `order` to those
\* that follow.
Ordered(q, S, order) ==
  /\ q \in Seq(S)
  /\ \A x \in S : \E i \in 1..Len(q) : q[i] = x
  /\ \A i, j \in 1..Len(q) : i < j => <<q[i], q[j]>> \in order

\* What takes the last element off, again and again.
Unlists(S, last, order) ==
  /\ IsFiniteSet(S)
  /\ \A T \in SUBSET S : T # {} => last[T] \in T /\ \A x \in T \ {last[T]} : <<x, last[T]>> \in order

\* The function that does so for every part of the set.
Lists(f, S, last) ==
  /\ f \in [SUBSET S -> Seq(S)]
  /\ \A T \in SUBSET S : f[T] = IF T = {} THEN <<>> ELSE Append(f[T \ {last[T]}], last[T])

\* There is one.
LEMMA ListingExists ==
  ASSUME NEW S, NEW last, NEW order, Unlists(S, last, order)
  PROVE  \E f : Lists(f, S, last)
<1>0. PICK D : D = SUBSET S
  OBVIOUS
<1>0a. PICK Q : Q = Seq(S) /\ <<>> \in Q
  <2>1. <<>> \in Seq(S)
    OBVIOUS
  <2> QED
    BY <2>1
<1>1. PICK m : m = [T \in D |-> Cardinality(T)]
  OBVIOUS
<1>2. PICK b : b = [T \in D |-> <<>>]
  OBVIOUS
<1>3. PICK p : p = [T \in D |-> T \ {last[T]}]
  OBVIOUS
<1>4. PICK step : step = [T \in D |-> [q \in Q |-> Append(q, last[T])]]
  OBVIOUS
<1>5. PICK N : N = Cardinality(S)
  OBVIOUS
<1>6. N \in Nat /\ \A T \in D : IsFiniteSet(T) /\ Cardinality(T) \in 0..N
  <2>1. N \in Nat
    BY <1>5, FS_CardinalityType DEF Unlists
  <2>2. \A T \in D : IsFiniteSet(T) /\ Cardinality(T) <= N /\ Cardinality(T) \in Nat
    BY <1>0, <1>5, FS_Subset, FS_CardinalityType DEF Unlists
  <2> QED
    BY <2>1, <2>2
<1>7. m \in [D -> 0..N] /\ \A T \in D : m[T] = Cardinality(T) /\ b[T] = <<>> /\ p[T] = T \ {last[T]}
  <2>1. m \in [D -> 0..N] /\ \A T \in D : m[T] = Cardinality(T)
    BY <1>1, <1>6
  <2> QED
    BY <1>2, <1>3, <2>1
<1>8. \A T \in D : \A q \in Q : step[T][q] = Append(q, last[T])
  BY <1>4
<1>9. ASSUME NEW T \in D, T # {}
      PROVE  p[T] \in D /\ m[p[T]] < m[T] /\ \A q \in Q : step[T][q] \in Q
  <2>1. last[T] \in T /\ last[T] \in S
    BY <1>0, <1>9 DEF Unlists
  <2>2. p[T] \in D /\ p[T] = T \ {last[T]}
    BY <1>0, <1>7
  <2>3. Cardinality(T \ {last[T]}) = Cardinality(T) - 1
    BY <1>6, <2>1, FS_RemoveElement
  <2>4. m[p[T]] < m[T]
    <3>1. m[T] = Cardinality(T) /\ m[p[T]] = Cardinality(T \ {last[T]}) /\ Cardinality(T) \in 0..N
      BY <1>6, <1>7, <2>2
    <3> QED
      BY <1>6, <2>3, <3>1
  <2>5. ASSUME NEW q \in Q PROVE step[T][q] \in Q
    <3>1. Append(q, last[T]) \in Q
      BY <1>0a, <2>1, AppendOf
    <3> QED
      BY <1>8, <3>1
  <2> QED
    BY <2>2, <2>4, <2>5
<1>9a. PICK leaf : leaf = {{}}
  OBVIOUS
<1>10. Descends(D, Q, N, m, leaf, b, p, step)
  <2>1. \A T \in D : T \in leaf => b[T] \in Q
    BY <1>0a, <1>7
  <2> QED
    BY <1>6, <1>7, <1>9, <1>9a, <2>1 DEF Descends
<1>11. PICK f \in [D -> Q] : \A T \in D : f[T] = IF T \in leaf THEN b[T] ELSE step[T][f[p[T]]]
  BY <1>10, ByDescent
<1>12. ASSUME NEW T \in D PROVE f[T] = IF T = {} THEN <<>> ELSE Append(f[T \ {last[T]}], last[T])
  <2>1. CASE T = {}
    BY <1>7, <1>9a, <1>11, <2>1
  <2>2. CASE T # {}
    <3>1. p[T] \in D /\ p[T] = T \ {last[T]}
      BY <1>7, <1>9, <2>2
    <3>2. PICK q \in Q : q = f[p[T]]
      BY <1>11, <3>1
    <3>3. f[T] = step[T][q]
      BY <1>9a, <1>11, <2>2, <3>2
    <3> QED
      BY <1>8, <2>2, <3>1, <3>2, <3>3
  <2> QED
    BY <2>1, <2>2
<1> QED
  BY <1>0, <1>0a, <1>11, <1>12 DEF Lists

\* Its value for the whole set has the elements in order.
LEMMA ListingIs ==
  ASSUME NEW S, NEW last, NEW order, Unlists(S, last, order), NEW g,
         \A T \in SUBSET S : g[T] = IF T = {} THEN <<>> ELSE Append(g[T \ {last[T]}], last[T])
  PROVE  Ordered(g[S], S, order)
<1>1. PICK N : N = Cardinality(S)
  OBVIOUS
<1>2. N \in Nat /\ \A T \in SUBSET S : IsFiniteSet(T) /\ Cardinality(T) \in 0..N
  <2>1. N \in Nat
    BY <1>1, FS_CardinalityType DEF Unlists
  <2>2. \A T \in SUBSET S : IsFiniteSet(T) /\ Cardinality(T) <= N /\ Cardinality(T) \in Nat
    BY <1>1, FS_Subset, FS_CardinalityType DEF Unlists
  <2> QED
    BY <2>1, <2>2
<1> DEFINE good == {k \in 0..N : \A T \in SUBSET S : Cardinality(T) = k => Ordered(g[T], T, order)}
<1>3. ASSUME NEW k \in 0..N, \A i \in 0..(k - 1) : i \in good PROVE k \in good
  <2> SUFFICES ASSUME NEW T \in SUBSET S, Cardinality(T) = k PROVE Ordered(g[T], T, order)
    OBVIOUS
  <2>1. CASE T = {}
    <3>1. g[T] = <<>>
      BY <2>1
    <3> QED
      BY <2>1, <3>1 DEF Ordered
  <2>2. CASE T # {}
    <3>1. PICK x \in T : x = last[T]
      BY <2>2 DEF Unlists
    <3>2. PICK U \in SUBSET S : U = T \ {x}
      OBVIOUS
    <3>3. Cardinality(U) \in 0..(k - 1)
      <4>1. Cardinality(U) = k - 1
        BY <1>2, <3>2, FS_RemoveElement
      <4> QED
        BY <1>2, <4>1
    <3>4. Ordered(g[U], U, order)
      BY <1>3, <3>3
    <3>5. PICK q \in Seq(U) : q = g[U]
      BY <3>4 DEF Ordered
    <3>6. PICK l \in Nat : l = Len(q)
      OBVIOUS
    <3>7. /\ \A y \in U : \E i \in 1..l : q[i] = y
          /\ \A i, j \in 1..l : i < j => <<q[i], q[j]>> \in order
      BY <3>4, <3>5, <3>6 DEF Ordered
    <3>8. PICK s : s = Append(q, x)
      OBVIOUS
    <3>9. g[T] = s
      BY <2>2, <3>1, <3>2, <3>5, <3>8
    <3>10. q \in Seq(T) /\ \A i \in 1..l : q[i] \in U
      <4>1. \A i \in 1..l : q[i] \in U
        BY <3>5, <3>6, ElementOf
      <4>2. q = [i \in 1..l |-> q[i]]
        BY <3>5, <3>6
      <4>3. \A i \in 1..l : q[i] \in T
        BY <3>2, <4>1
      <4> QED
        BY <4>1, <4>2, <4>3
    <3>11. s \in Seq(T) /\ Len(s) = l + 1 /\ s[l + 1] = x /\ \A i \in 1..l : s[i] = q[i]
      BY <3>6, <3>8, <3>10, AppendOf
    <3>12. \A y \in T : \E i \in 1..(l + 1) : s[i] = y
      <4> TAKE y \in T
      <4>1. CASE y = x
        BY <3>6, <3>11, <4>1
      <4>2. CASE y # x
        <5>1. PICK i \in 1..l : q[i] = y
          BY <3>2, <3>7, <4>2
        <5>2. i \in 1..(l + 1) /\ s[i] = y
          BY <3>11, <5>1
        <5> QED
          BY <5>2
      <4> QED
        BY <4>1, <4>2
    <3>13. ASSUME NEW i \in 1..(l + 1), NEW j \in 1..(l + 1), i < j PROVE <<s[i], s[j]>> \in order
      <4>1. i \in 1..l /\ s[i] = q[i] /\ q[i] \in U
        BY <3>10, <3>11, <3>13
      <4>2. CASE j = l + 1
        <5>1. <<q[i], x>> \in order
          BY <2>2, <3>1, <3>2, <4>1 DEF Unlists
        <5> QED
          BY <3>11, <4>1, <4>2, <5>1
      <4>3. CASE j \in 1..l
        BY <3>7, <3>11, <3>13, <4>1, <4>3
      <4> QED
        BY <4>2, <4>3
    <3> QED
      BY <3>9, <3>11, <3>12, <3>13 DEF Ordered
  <2> QED
    BY <2>1, <2>2
<1>4. \A k \in 0..N : k \in good
  <2> HIDE DEF good
  <2> QED
    BY <1>2, <1>3, ByEarlier
<1> QED
  BY <1>2, <1>4

Smaller(S) == {pair \in S \X S : pair[1] < pair[2]}

\* Numbers in order.
LEMMA NumbersInOrder ==
  ASSUME NEW n \in Nat, NEW S \in SUBSET (0..n)
  PROVE  Ordered(InOrder(S, Max), S, Smaller(S))
<1> DEFINE IsIter(g) == g = [s \in SUBSET S |-> IF s = {} THEN <<>> ELSE Append(g[s \ {Max(s)}], Max(s))]
<1>1. InOrder(S, Max) = (CHOOSE g : IsIter(g))[S]
  BY Zenon DEF InOrder, MapThenFoldSet
<1>2. PICK last : last = [s \in SUBSET S |-> Max(s)]
  OBVIOUS
<1>3. \A s \in SUBSET S : last[s] = Max(s)
  BY <1>2
<1>4. Unlists(S, last, Smaller(S))
  <2>1. IsFiniteSet(S)
    <3>1. 0 \in Int /\ n \in Int
      OBVIOUS
    <3> QED
      BY <3>1, FS_Interval, FS_Subset
  <2>2. ASSUME NEW s \in SUBSET S, s # {}
        PROVE  last[s] \in s /\ \A x \in s \ {last[s]} : <<x, last[s]>> \in Smaller(S)
    <3>1. s \in SUBSET (0..n)
      OBVIOUS
    <3>2. Max(s) \in s /\ \A x \in s : x <= Max(s)
      BY <2>2, <3>1, LastUpTo
    <3>3. PICK y \in s : y = last[s]
      BY <1>3, <3>2
    <3>4. \A x \in s \ {y} : x \in S /\ y \in S /\ x < y
      BY <1>3, <3>1, <3>2, <3>3
    <3> QED
      BY <3>3, <3>4 DEF Smaller
  <2> QED
    BY <2>1, <2>2 DEF Unlists
<1>5. PICK f : Lists(f, S, last)
  BY <1>4, ListingExists
<1>6. IsIter(f)
  <2>1. f = [s \in SUBSET S |-> f[s]]
    BY <1>5 DEF Lists
  <2>2. \A s \in SUBSET S : f[s] = IF s = {} THEN <<>> ELSE Append(f[s \ {Max(s)}], Max(s))
    BY <1>3, <1>5 DEF Lists
  <2> QED
    BY <2>1, <2>2, Zenon
<1>7. PICK G : G = CHOOSE g : IsIter(g)
  OBVIOUS
<1>8. IsIter(G)
  <2>1. \E g : IsIter(g)
    BY <1>6
  <2> HIDE DEF IsIter
  <2> QED
    BY <1>7, <2>1
<1>9. \A s \in SUBSET S : G[s] = IF s = {} THEN <<>> ELSE Append(G[s \ {last[s]}], last[s])
  <2>1. \A s \in SUBSET S : G[s] = IF s = {} THEN <<>> ELSE Append(G[s \ {Max(s)}], Max(s))
    BY <1>8, Zenon
  <2> QED
    BY <1>3, <2>1
<1>10. Ordered(G[S], S, Smaller(S))
  BY <1>4, <1>9, ListingIs
<1> QED
  BY <1>1, <1>7, <1>10

\* Refs of a run in checkpoint order.
LEMMA RefsAre ==
  ASSUME ForestInv, NEW r \in Runs, NEW seqs \in SUBSET CheckpointSeqs(r), NEW q, q = RefsOf(r, seqs)
  PROVE  /\ q \in Seq(Checkpoints) /\ Range(q) = {Ref(r, seq) : seq \in seqs}
         /\ \A i \in 1..Len(q) : q[i].run = r /\ q[i].seq \in seqs
         /\ \A i, j \in 1..Len(q) : i < j => Under(q[i], q[j])
<1>1. PICK n \in Nat : seqs \in SUBSET (0..n)
  <2>1. CheckpointSeqs(r) \subseteq 1..Len(ledger[r]) /\ Len(ledger[r]) \in Nat
    BY OfRun DEF ForestInv
  <2>2. seqs \in SUBSET (0..Len(ledger[r]))
    BY <2>1
  <2> QED
    BY <2>1, <2>2
<1>2. PICK list : list = InOrder(seqs, Max)
  OBVIOUS
<1>3. Ordered(list, seqs, Smaller(seqs))
  BY <1>1, <1>2, NumbersInOrder
<1>4. PICK l \in Nat : l = Len(list) /\ DOMAIN list = 1..l
  <2>1. list \in Seq(seqs)
    BY <1>3 DEF Ordered
  <2> QED
    BY <2>1
<1>5. /\ \A i \in 1..l : list[i] \in seqs
      /\ \A x \in seqs : \E i \in 1..l : list[i] = x
      /\ \A i, j \in 1..l : i < j => list[i] < list[j]
  <2>1. \A i \in 1..l : list[i] \in seqs
    BY <1>3, <1>4, ElementOf DEF Ordered
  <2>2. \A i, j \in 1..l : i < j => <<list[i], list[j]>> \in Smaller(seqs)
    BY <1>3, <1>4 DEF Ordered
  <2>3. \A i, j \in 1..l : <<list[i], list[j]>> \in Smaller(seqs) => list[i] < list[j]
    BY DEF Smaller
  <2>4. \A x \in seqs : \E i \in 1..l : list[i] = x
    BY <1>3, <1>4 DEF Ordered
  <2> QED
    BY <2>1, <2>2, <2>3, <2>4
<1>6. q = [i \in 1..l |-> Ref(r, list[i])]
  BY <1>2, <1>4 DEF RefsOf
<1>7. Len(q) = l /\ DOMAIN q = 1..l /\ \A i \in 1..l : q[i] = Ref(r, list[i])
  BY <1>6
<1>8. \A i \in 1..l : q[i] \in Checkpoints /\ q[i].run = r /\ q[i].seq = list[i]
  BY <1>5, <1>7, CheckpointIs DEF Ref
<1>9. q \in Seq(Checkpoints)
  BY <1>6, <1>8
<1>10. Range(q) = {Ref(r, seq) : seq \in seqs}
  <2>1. Range(q) = {q[i] : i \in 1..l}
    BY <1>7 DEF Range
  <2>2. ASSUME NEW seq \in seqs PROVE Ref(r, seq) \in Range(q)
    <3>1. PICK i \in 1..l : list[i] = seq
      BY <1>5
    <3> QED
      BY <1>7, <2>1, <3>1
  <2>3. ASSUME NEW i \in 1..l PROVE q[i] \in {Ref(r, seq) : seq \in seqs}
    BY <1>5, <1>7
  <2> QED
    BY <2>1, <2>2, <2>3
<1>11. \A i, j \in 1..l : i < j => Under(q[i], q[j])
  BY <1>5, <1>8 DEF Under
<1> QED
  BY <1>5, <1>7, <1>8, <1>9, <1>10, <1>11

-----------------------------------------------------------------------------
(* The reads that go up the forest agree                                     *)

\* The steps of the ancestry.
LEMMA AncestrySteps ==
  ASSUME ForestInv
  PROVE  \A r \in Runs : /\ Ancestry[r] \in SUBSET Runs
                             /\ Ancestry[r] = {r} \cup (IF runs[r].parent = 0 THEN {} ELSE Ancestry[runs[r].parent])
<1> DEFINE Is(f) == f = [r \in Runs |-> {r} \cup (IF runs[r].parent = 0 THEN {} ELSE f[runs[r].parent])]
<1>1. Ancestry = CHOOSE f : Is(f)
  BY Zenon DEF Ancestry
<1>2. PICK D : D = Runs
  OBVIOUS
<1>3. PICK Q : Q = SUBSET Runs
  OBVIOUS
<1>4. PICK n \in Nat : n = Len(runs) /\ Runs = 1..n
  BY SourceIs
<1>5. PICK m : m = [r \in D |-> r]
  OBVIOUS
<1>6. PICK p : p = [r \in D |-> runs[r].parent]
  OBVIOUS
<1>7. PICK b : b = [r \in D |-> {r}]
  OBVIOUS
<1>8. PICK step : step = [r \in D |-> [s \in Q |-> {r} \cup s]]
  OBVIOUS
<1>9. PICK leaf : leaf = {r \in D : runs[r].parent = 0}
  OBVIOUS
<1>10. m \in [D -> 0..n] /\ \A r \in D : m[r] = r
  BY <1>2, <1>4, <1>5
<1>11. \A r \in D : p[r] = runs[r].parent /\ b[r] = {r} /\ (r \in leaf <=> runs[r].parent = 0)
  BY <1>6, <1>7, <1>9
<1>12. \A r \in D : \A s \in Q : step[r][s] = {r} \cup s
  BY <1>8
<1>13. \A r \in D : r \in leaf => b[r] \in Q
  BY <1>2, <1>3, <1>11
<1>14. \A r \in D : r \notin leaf => p[r] \in D /\ m[p[r]] < m[r]
  BY <1>2, <1>10, <1>11, SourceIs
<1>15. \A r \in D : r \notin leaf => \A s \in Q : step[r][s] \in Q
  BY <1>2, <1>3, <1>12
<1>16. Descends(D, Q, n, m, leaf, b, p, step)
  BY <1>10, <1>13, <1>14, <1>15 DEF Descends
<1>17. PICK f \in [D -> Q] : \A r \in D : f[r] = IF r \in leaf THEN b[r] ELSE step[r][f[p[r]]]
  BY <1>16, ByDescent
<1>18. \A r \in D : f[r] = {r} \cup (IF runs[r].parent = 0 THEN {} ELSE f[runs[r].parent])
  <2> TAKE r \in D
  <2>1. CASE r \in leaf
    BY <1>11, <1>17, <2>1
  <2>2. CASE r \notin leaf
    <3>1. PICK s \in Q : s = f[runs[r].parent]
      BY <1>11, <1>14, <1>17, <2>2
    <3>2. f[r] = step[r][s]
      BY <1>11, <1>17, <2>2, <3>1
    <3> QED
      BY <1>11, <1>12, <2>2, <3>1, <3>2
  <2> QED
    BY <2>1, <2>2
<1>19. Is(f)
  <2>1. f = [r \in D |-> f[r]]
    BY <1>17
  <2> QED
    BY <1>2, <1>18, <2>1, Zenon
<1>20. Is(Ancestry)
  <2> HIDE DEF Is
  <2> QED
    BY <1>1, <1>19, Zenon
<1>21. \A r \in D : Ancestry[r] = {r} \cup (IF runs[r].parent = 0 THEN {} ELSE Ancestry[runs[r].parent])
  BY <1>2, <1>20, Zenon
<1>22. \A r \in D : r \in leaf => Ancestry[r] = b[r]
  BY <1>11, <1>21
<1>23. \A r \in D : r \notin leaf /\ Ancestry[p[r]] \in Q => Ancestry[r] = step[r][Ancestry[p[r]]]
  <2> TAKE r \in D
  <2> HAVE r \notin leaf /\ Ancestry[p[r]] \in Q
  <2>1. PICK s \in Q : s = Ancestry[p[r]]
    OBVIOUS
  <2>2. step[r][s] = {r} \cup s
    BY <1>12
  <2>3. Ancestry[r] = {r} \cup s
    BY <1>11, <1>21, <2>1
  <2> QED
    BY <2>1, <2>2, <2>3
<1>24. \A r \in D : Ancestry[r] \in Q
  BY <1>16, <1>22, <1>23, Descended
<1> QED
  BY <1>2, <1>3, <1>21, <1>24

\* The steps of the chain of parents.
LEMMA ChainSteps ==
  ASSUME ForestInv
  PROVE  \A c \in Checkpoints : /\ Chain[c] \in SUBSET Nat
                             /\ Chain[c] = {c.seq} \cup (IF ParentOf(c) = 0 THEN {} ELSE Chain[Ref(c.run, ParentOf(c))])
<1> DEFINE Is(f) == f = [c \in Checkpoints |-> {c.seq} \cup (IF ParentOf(c) = 0 THEN {} ELSE f[Ref(c.run, ParentOf(c))])]
<1>1. Chain = CHOOSE f : Is(f)
  BY Zenon DEF Chain
<1>2. PICK D : D = Checkpoints
  OBVIOUS
<1>3. PICK Q : Q = SUBSET Nat
  OBVIOUS
<1>4. PICK n \in Nat : n = Cardinality(Places)
  BY BeforeGrows
<1>5. PICK m : m = [c \in D |-> BeforeIt(c)]
  OBVIOUS
<1>6. PICK p : p = [c \in D |-> Ref(c.run, ParentOf(c))]
  OBVIOUS
<1>7. PICK b : b = [c \in D |-> {c.seq}]
  OBVIOUS
<1>8. PICK step : step = [c \in D |-> [s \in Q |-> {c.seq} \cup s]]
  OBVIOUS
<1>9. PICK leaf : leaf = {c \in D : ParentOf(c) = 0}
  OBVIOUS
<1>10. m \in [D -> 0..n] /\ \A c \in D : m[c] = BeforeIt(c)
  BY <1>2, <1>4, <1>5, BeforeGrows
<1>11. \A c \in D : p[c] = Ref(c.run, ParentOf(c)) /\ b[c] = {c.seq} /\ (c \in leaf <=> ParentOf(c) = 0)
  BY <1>6, <1>7, <1>9
<1>12. \A c \in D : \A s \in Q : step[c][s] = {c.seq} \cup s
  BY <1>8
<1>13. \A c \in D : c \in leaf => b[c] \in Q
  <2>1. \A c \in D : {c.seq} \in Q
    BY <1>2, <1>3, PositionIs
  <2> QED
    BY <1>11, <2>1
<1>14. \A c \in D : c \notin leaf => p[c] \in D /\ m[p[c]] < m[c]
  <2> TAKE c \in D
  <2> HAVE c \notin leaf
  <2>1. PICK x \in Checkpoints : x = Ref(c.run, ParentOf(c)) /\ Under(x, c)
    BY <1>2, <1>11, ParentIsEarlier
  <2>2. BeforeIt(x) < BeforeIt(c)
    BY <1>2, <2>1, BeforeGrows
  <2> QED
    BY <1>2, <1>10, <1>11, <2>1, <2>2
<1>15. \A c \in D : c \notin leaf => \A s \in Q : step[c][s] \in Q
  <2>1. \A c \in D : c.seq \in Nat
    BY <1>2, PositionIs
  <2> QED
    BY <1>3, <1>12, <2>1
<1>16. Descends(D, Q, n, m, leaf, b, p, step)
  BY <1>10, <1>13, <1>14, <1>15 DEF Descends
<1>17. PICK f \in [D -> Q] : \A c \in D : f[c] = IF c \in leaf THEN b[c] ELSE step[c][f[p[c]]]
  BY <1>16, ByDescent
<1>18. \A c \in D : f[c] = {c.seq} \cup (IF ParentOf(c) = 0 THEN {} ELSE f[Ref(c.run, ParentOf(c))])
  <2> TAKE c \in D
  <2>1. CASE c \in leaf
    BY <1>11, <1>17, <2>1
  <2>2. CASE c \notin leaf
    <3>1. PICK s \in Q : s = f[Ref(c.run, ParentOf(c))]
      BY <1>11, <1>14, <1>17, <2>2
    <3>2. f[c] = step[c][s]
      BY <1>11, <1>17, <2>2, <3>1
    <3> QED
      BY <1>11, <1>12, <2>2, <3>1, <3>2
  <2> QED
    BY <2>1, <2>2
<1>19. Is(f)
  <2>1. f = [c \in D |-> f[c]]
    BY <1>17
  <2> QED
    BY <1>2, <1>18, <2>1, Zenon
<1>20. Is(Chain)
  <2> HIDE DEF Is
  <2> QED
    BY <1>1, <1>19, Zenon
<1>21. \A c \in D : Chain[c] = {c.seq} \cup (IF ParentOf(c) = 0 THEN {} ELSE Chain[Ref(c.run, ParentOf(c))])
  BY <1>2, <1>20, Zenon
<1>22. \A c \in D : c \in leaf => Chain[c] = b[c]
  BY <1>11, <1>21
<1>23. \A c \in D : c \notin leaf /\ Chain[p[c]] \in Q => Chain[c] = step[c][Chain[p[c]]]
  <2> TAKE c \in D
  <2> HAVE c \notin leaf /\ Chain[p[c]] \in Q
  <2>1. PICK s \in Q : s = Chain[p[c]]
    OBVIOUS
  <2>2. step[c][s] = {c.seq} \cup s
    BY <1>12
  <2>3. Chain[c] = {c.seq} \cup s
    BY <1>11, <1>21, <2>1
  <2> QED
    BY <2>1, <2>2, <2>3
<1>24. \A c \in D : Chain[c] \in Q
  BY <1>16, <1>22, <1>23, Descended
<1> QED
  BY <1>2, <1>3, <1>21, <1>24

\* A chain is of checkpoints of one run, up to the one it begins with.
LEMMA ChainIs ==
  ASSUME ForestInv
  PROVE  \A c \in Checkpoints : Chain[c] \subseteq CheckpointSeqs(c.run) /\ c.seq \in Chain[c]
<1>1. PICK n \in Nat : n = Cardinality(Places)
  BY BeforeGrows
<1>2. \A c \in Checkpoints : BeforeIt(c) \in 0..n
  BY <1>1, BeforeGrows
<1> DEFINE good == {k \in 0..n : \A c \in Checkpoints : BeforeIt(c) = k => Chain[c] \subseteq CheckpointSeqs(c.run)}
<1>3. ASSUME NEW k \in 0..n, \A i \in 0..(k - 1) : i \in good PROVE k \in good
  <2> SUFFICES ASSUME NEW c \in Checkpoints, BeforeIt(c) = k PROVE Chain[c] \subseteq CheckpointSeqs(c.run)
    OBVIOUS
  <2>1. c.seq \in CheckpointSeqs(c.run)
    BY CheckpointIs
  <2>2. CASE ParentOf(c) = 0
    BY <2>1, <2>2, ChainSteps
  <2>3. CASE ParentOf(c) # 0
    <3>1. PICK x \in Checkpoints : x = Ref(c.run, ParentOf(c)) /\ x.run = c.run /\ Under(x, c)
      BY <2>3, ParentIsEarlier
    <3>2. BeforeIt(x) \in 0..(k - 1)
      BY <1>2, <3>1, BeforeGrows
    <3>3. Chain[x] \subseteq CheckpointSeqs(x.run)
      BY <1>3, <3>2
    <3> QED
      BY <2>1, <2>3, <3>1, <3>3, ChainSteps
  <2> QED
    BY <2>2, <2>3
<1>4. \A k \in 0..n : k \in good
  <2> HIDE DEF good
  <2> QED
    BY <1>3, ByEarlier
<1>5. \A c \in Checkpoints : c.seq \in Chain[c]
  BY ChainSteps
<1> QED
  BY <1>2, <1>4, <1>5

\* One sequence after another.
LEMMA ConcatOf ==
  ASSUME NEW S, NEW s \in Seq(S), NEW t \in Seq(S)
  PROVE  /\ s \o t \in Seq(S) /\ Len(s \o t) = Len(s) + Len(t)
         /\ \A i \in 1..Len(s) : (s \o t)[i] = s[i]
         /\ \A i \in 1..Len(t) : (s \o t)[Len(s) + i] = t[i]
OBVIOUS

\* The elements of a sequence.
LEMMA RangeOf ==
  ASSUME NEW S, NEW s \in Seq(S)
  PROVE  Range(s) = {s[i] : i \in 1..Len(s)} /\ Range(s) \subseteq S
<1>1. DOMAIN s = 1..Len(s)
  OBVIOUS
<1>2. \A i \in 1..Len(s) : s[i] \in S
  BY ElementOf
<1> QED
  BY <1>1, <1>2 DEF Range

\* The elements of two sequences, one after the other.
LEMMA RangeOfConcat ==
  ASSUME NEW S, NEW s \in Seq(S), NEW t \in Seq(S)
  PROVE  Range(s \o t) = Range(s) \cup Range(t)
<1>1. PICK q \in Seq(S) : q = s \o t
  BY ConcatOf
<1>2. PICK l \in Nat : l = Len(s)
  OBVIOUS
<1>3. PICK k \in Nat : k = Len(t)
  OBVIOUS
<1>4. /\ Len(q) = l + k /\ \A i \in 1..l : q[i] = s[i]
      /\ \A i \in 1..k : q[l + i] = t[i]
  BY <1>1, <1>2, <1>3, ConcatOf
<1>5. Range(q) = {q[i] : i \in 1..(l + k)} /\ Range(s) = {s[i] : i \in 1..l} /\ Range(t) = {t[i] : i \in 1..k}
  BY <1>2, <1>3, <1>4, RangeOf
<1>6. ASSUME NEW i \in 1..(l + k) PROVE q[i] \in Range(s) \cup Range(t)
  <2>1. CASE i \in 1..l
    BY <1>4, <1>5, <2>1
  <2>2. CASE i \notin 1..l
    <3>1. i - l \in 1..k /\ l + (i - l) = i
      BY <2>2
    <3>2. q[i] = t[i - l]
      BY <1>4, <3>1
    <3> QED
      BY <1>5, <3>1, <3>2
  <2> QED
    BY <2>1, <2>2
<1>7. ASSUME NEW i \in 1..l PROVE s[i] \in Range(q)
  <2>1. i \in 1..(l + k)
    OBVIOUS
  <2> QED
    BY <1>4, <1>5, <2>1
<1>8. ASSUME NEW i \in 1..k PROVE t[i] \in Range(q)
  <2>1. l + i \in 1..(l + k)
    OBVIOUS
  <2> QED
    BY <1>4, <1>5, <2>1
<1> QED
  BY <1>1, <1>5, <1>6, <1>7, <1>8

\* What the listing has of a fork's parent: the refs of a chain.
SegmentOf(r) == RefsOf(runs[r].parent, Chain[Ref(runs[r].parent, runs[r].from)])

\* It is a listing of that chain.
LEMMA SegmentIs ==
  ASSUME ForestInv, NEW r \in Runs, runs[r].parent # 0
  PROVE  /\ SegmentOf(r) \in Seq(Checkpoints)
         /\ Range(SegmentOf(r)) = {Ref(runs[r].parent, seq) : seq \in Chain[ForkSource(r)]}
         /\ \A i \in 1..Len(SegmentOf(r)) : SegmentOf(r)[i].run = runs[r].parent
         /\ \A i, j \in 1..Len(SegmentOf(r)) : i < j => Under(SegmentOf(r)[i], SegmentOf(r)[j])
<1>1. PICK x \in Checkpoints : x = ForkSource(r) /\ x.run = runs[r].parent /\ runs[r].parent \in Runs
  BY SourceIs
<1>2. PICK q : q = SegmentOf(r)
  OBVIOUS
<1>3. PICK seqs \in SUBSET CheckpointSeqs(x.run) : seqs = Chain[x]
  BY ChainIs
<1>4. q = RefsOf(x.run, seqs)
  BY <1>1, <1>2, <1>3 DEF SegmentOf, ForkSource
<1>5. /\ q \in Seq(Checkpoints) /\ Range(q) = {Ref(x.run, seq) : seq \in seqs}
      /\ \A i \in 1..Len(q) : q[i].run = x.run
      /\ \A i, j \in 1..Len(q) : i < j => Under(q[i], q[j])
  BY <1>1, <1>4, RefsAre
<1> QED
  BY <1>1, <1>2, <1>3, <1>5

\* The steps of the segments.
LEMMA SegmentSteps ==
  ASSUME ForestInv
  PROVE  \A r \in Runs : /\ ParentSegments[r] \in Seq(Checkpoints)
                             /\ ParentSegments[r] = IF runs[r].parent = 0 THEN <<>> ELSE ParentSegments[runs[r].parent] \o SegmentOf(r)
<1> DEFINE Is(f) == f = [r \in Runs |-> IF runs[r].parent = 0 THEN <<>> ELSE f[runs[r].parent] \o SegmentOf(r)]
<1>1. ParentSegments = CHOOSE f : Is(f)
  BY Zenon DEF ParentSegments, SegmentOf
<1>2. PICK D : D = Runs
  OBVIOUS
<1>3. PICK Q : Q = Seq(Checkpoints)
  OBVIOUS
<1>4. PICK n \in Nat : n = Len(runs) /\ Runs = 1..n
  BY SourceIs
<1>5. PICK m : m = [r \in D |-> r]
  OBVIOUS
<1>6. PICK p : p = [r \in D |-> runs[r].parent]
  OBVIOUS
<1>7. PICK b : b = [r \in D |-> <<>>]
  OBVIOUS
<1>8. PICK step : step = [r \in D |-> [s \in Q |-> s \o SegmentOf(r)]]
  OBVIOUS
<1>9. PICK leaf : leaf = {r \in D : runs[r].parent = 0}
  OBVIOUS
<1>10. m \in [D -> 0..n] /\ \A r \in D : m[r] = r
  BY <1>2, <1>4, <1>5
<1>11. \A r \in D : p[r] = runs[r].parent /\ b[r] = <<>> /\ (r \in leaf <=> runs[r].parent = 0)
  BY <1>6, <1>7, <1>9
<1>12. \A r \in D : \A s \in Q : step[r][s] = s \o SegmentOf(r)
  BY <1>8
<1>13. \A r \in D : r \in leaf => b[r] \in Q
  <2>1. <<>> \in Seq(Checkpoints)
    OBVIOUS
  <2> QED
    BY <1>3, <1>11, <2>1
<1>14. \A r \in D : r \notin leaf => p[r] \in D /\ m[p[r]] < m[r]
  BY <1>2, <1>10, <1>11, SourceIs
<1>15. \A r \in D : r \notin leaf => \A s \in Q : step[r][s] \in Q
  <2> TAKE r \in D
  <2> HAVE r \notin leaf
  <2>1. SegmentOf(r) \in Q
    BY <1>2, <1>3, <1>11, SegmentIs
  <2>2. ASSUME NEW s \in Q PROVE s \o SegmentOf(r) \in Q
    BY <1>3, <2>1, ConcatOf
  <2> QED
    BY <1>12, <2>2
<1>16. Descends(D, Q, n, m, leaf, b, p, step)
  BY <1>10, <1>13, <1>14, <1>15 DEF Descends
<1>17. PICK f \in [D -> Q] : \A r \in D : f[r] = IF r \in leaf THEN b[r] ELSE step[r][f[p[r]]]
  BY <1>16, ByDescent
<1>18. \A r \in D : f[r] = IF runs[r].parent = 0 THEN <<>> ELSE f[runs[r].parent] \o SegmentOf(r)
  <2> TAKE r \in D
  <2>1. CASE r \in leaf
    BY <1>11, <1>17, <2>1
  <2>2. CASE r \notin leaf
    <3>1. PICK s \in Q : s = f[runs[r].parent]
      BY <1>11, <1>14, <1>17, <2>2
    <3>2. f[r] = step[r][s]
      BY <1>11, <1>17, <2>2, <3>1
    <3> QED
      BY <1>11, <1>12, <2>2, <3>1, <3>2
  <2> QED
    BY <2>1, <2>2
<1>19. Is(f)
  <2>1. f = [r \in D |-> f[r]]
    BY <1>17
  <2> QED
    BY <1>2, <1>18, <2>1, Zenon
<1>20. Is(ParentSegments)
  <2> HIDE DEF Is
  <2> QED
    BY <1>1, <1>19, Zenon
<1>21. \A r \in D : ParentSegments[r] = IF runs[r].parent = 0 THEN <<>> ELSE ParentSegments[runs[r].parent] \o SegmentOf(r)
  BY <1>2, <1>20, Zenon
<1>22. \A r \in D : r \in leaf => ParentSegments[r] = b[r]
  BY <1>11, <1>21
<1>23. \A r \in D : r \notin leaf /\ ParentSegments[p[r]] \in Q => ParentSegments[r] = step[r][ParentSegments[p[r]]]
  <2> TAKE r \in D
  <2> HAVE r \notin leaf /\ ParentSegments[p[r]] \in Q
  <2>1. PICK s \in Q : s = ParentSegments[p[r]]
    OBVIOUS
  <2>2. step[r][s] = s \o SegmentOf(r)
    BY <1>12
  <2>3. ParentSegments[r] = s \o SegmentOf(r)
    BY <1>11, <1>21, <2>1
  <2> QED
    BY <2>1, <2>2, <2>3
<1>24. \A r \in D : ParentSegments[r] \in Q
  BY <1>16, <1>22, <1>23, Descended
<1> QED
  BY <1>2, <1>3, <1>21, <1>24

\* The steps of the walk for claims.
LEMMA WalkSteps ==
  ASSUME ForestInv
  PROVE  \A c \in Checkpoints \cup {None} : /\ ClaimWalk[c] \in Seq(Checkpoints)
                             /\ ClaimWalk[c] = IF c = None THEN <<>> ELSE <<c>> \o ClaimWalk[Previous(c)]
<1> DEFINE Is(f) == f = [c \in Checkpoints \cup {None} |-> IF c = None THEN <<>> ELSE <<c>> \o f[Previous(c)]]
<1>1. ClaimWalk = CHOOSE f : Is(f)
  BY Zenon DEF ClaimWalk
<1>2. PICK D : D = Checkpoints \cup {None}
  OBVIOUS
<1>3. PICK Q : Q = Seq(Checkpoints)
  OBVIOUS
<1>4. PICK n \in Nat : n = Cardinality(Places) + 1
  BY BeforeGrows
<1>5. PICK m : m = [c \in D |-> IF c = None THEN 0 ELSE BeforeIt(c) + 1]
  OBVIOUS
<1>6. PICK p : p = [c \in D |-> Previous(c)]
  OBVIOUS
<1>7. PICK b : b = [c \in D |-> <<>>]
  OBVIOUS
<1>8. PICK step : step = [c \in D |-> [s \in Q |-> <<c>> \o s]]
  OBVIOUS
<1>9. PICK leaf : leaf = {c \in D : c = None}
  OBVIOUS
<1>10. m \in [D -> 0..n] /\ \A c \in D : m[c] = IF c = None THEN 0 ELSE BeforeIt(c) + 1
  <2>1. \A c \in D : (IF c = None THEN 0 ELSE BeforeIt(c) + 1) \in 0..n
    BY <1>2, <1>4, BeforeGrows
  <2> QED
    BY <1>5, <2>1
<1>11. \A c \in D : p[c] = Previous(c) /\ b[c] = <<>> /\ (c \in leaf <=> c = None)
  BY <1>6, <1>7, <1>9
<1>12. \A c \in D : \A s \in Q : step[c][s] = <<c>> \o s
  BY <1>8
<1>13. \A c \in D : c \in leaf => b[c] \in Q
  <2>1. <<>> \in Seq(Checkpoints)
    OBVIOUS
  <2> QED
    BY <1>3, <1>11, <2>1
<1>14. \A c \in D : c \notin leaf => p[c] \in D /\ m[p[c]] < m[c]
  <2> TAKE c \in D
  <2> HAVE c \notin leaf
  <2>1. c \in Checkpoints /\ c # None /\ BeforeIt(c) \in Nat
    BY <1>2, <1>11, BeforeGrows
  <2>2. Previous(c) \in D /\ p[c] = Previous(c) /\ m[c] = BeforeIt(c) + 1
    BY <1>2, <1>10, <1>11, <2>1, PreviousIs
  <2>3. CASE Previous(c) = None
    BY <1>10, <2>1, <2>2, <2>3
  <2>4. CASE Previous(c) # None
    <3>1. PICK x \in Checkpoints : x = Previous(c) /\ Under(x, c)
      BY <2>1, <2>4, PreviousIs
    <3>2. BeforeIt(x) < BeforeIt(c) /\ BeforeIt(x) \in Nat
      BY <2>1, <3>1, BeforeGrows
    <3> QED
      BY <1>10, <2>1, <2>2, <2>4, <3>1, <3>2
  <2> QED
    BY <2>3, <2>4
<1>15. \A c \in D : c \notin leaf => \A s \in Q : step[c][s] \in Q
  <2> TAKE c \in D
  <2> HAVE c \notin leaf
  <2>1. c \in Checkpoints
    BY <1>2, <1>11
  <2>2. ASSUME NEW s \in Q PROVE <<c>> \o s \in Q
    BY <1>3, <2>1, Prepended
  <2> QED
    BY <1>12, <2>2
<1>16. Descends(D, Q, n, m, leaf, b, p, step)
  BY <1>10, <1>13, <1>14, <1>15 DEF Descends
<1>17. PICK f \in [D -> Q] : \A c \in D : f[c] = IF c \in leaf THEN b[c] ELSE step[c][f[p[c]]]
  BY <1>16, ByDescent
<1>18. \A c \in D : f[c] = IF c = None THEN <<>> ELSE <<c>> \o f[Previous(c)]
  <2> TAKE c \in D
  <2>1. CASE c \in leaf
    BY <1>11, <1>17, <2>1
  <2>2. CASE c \notin leaf
    <3>1. PICK s \in Q : s = f[Previous(c)]
      BY <1>11, <1>14, <1>17, <2>2
    <3>2. f[c] = step[c][s]
      BY <1>11, <1>17, <2>2, <3>1
    <3> QED
      BY <1>11, <1>12, <2>2, <3>1, <3>2
  <2> QED
    BY <2>1, <2>2
<1>19. Is(f)
  <2>1. f = [c \in D |-> f[c]]
    BY <1>17
  <2> QED
    BY <1>2, <1>18, <2>1, Zenon
<1>20. Is(ClaimWalk)
  <2> HIDE DEF Is
  <2> QED
    BY <1>1, <1>19, Zenon
<1>21. \A c \in D : ClaimWalk[c] = IF c = None THEN <<>> ELSE <<c>> \o ClaimWalk[Previous(c)]
  BY <1>2, <1>20, Zenon
<1>22. \A c \in D : c \in leaf => ClaimWalk[c] = b[c]
  BY <1>11, <1>21
<1>23. \A c \in D : c \notin leaf /\ ClaimWalk[p[c]] \in Q => ClaimWalk[c] = step[c][ClaimWalk[p[c]]]
  <2> TAKE c \in D
  <2> HAVE c \notin leaf /\ ClaimWalk[p[c]] \in Q
  <2>1. PICK s \in Q : s = ClaimWalk[p[c]]
    OBVIOUS
  <2>2. step[c][s] = <<c>> \o s
    BY <1>12
  <2>3. ClaimWalk[c] = <<c>> \o s
    BY <1>11, <1>21, <2>1
  <2> QED
    BY <2>1, <2>2, <2>3
<1>24. \A c \in D : ClaimWalk[c] \in Q
  BY <1>16, <1>22, <1>23, Descended
<1> QED
  BY <1>2, <1>3, <1>21, <1>24

\* The order of the checkpoints is strict.
LEMMA UnderOrders ==
  ASSUME ForestInv
  PROVE  \A x, y, z \in Checkpoints : ~Under(x, x) /\ (Under(x, y) => ~Under(y, x))
                                      /\ (Under(x, y) /\ Under(y, z) => Under(x, z))
<1>1. \A c \in Checkpoints : c.run \in Nat /\ c.seq \in Nat
  BY PositionIs
<1> QED
  BY <1>1 DEF Under

\* The walk begins with the checkpoint and descends.
Walks(c) ==
  LET walk == ClaimWalk[c]
  IN  /\ walk \in Seq(Checkpoints) /\ Len(walk) >= 1 /\ walk[1] = c
      /\ \A i, j \in 1..Len(walk) : i < j => Under(walk[j], walk[i])

\* Every walk does.
LEMMA WalkIs ==
  ASSUME ForestInv
  PROVE  \A c \in Checkpoints : Walks(c)
<1>1. PICK n \in Nat : n = Cardinality(Places)
  BY BeforeGrows
<1>2. \A c \in Checkpoints : BeforeIt(c) \in 0..n
  BY <1>1, BeforeGrows
<1> DEFINE good == {k \in 0..n : \A c \in Checkpoints : BeforeIt(c) = k => Walks(c)}
<1>3. ASSUME NEW k \in 0..n, \A i \in 0..(k - 1) : i \in good PROVE k \in good
  <2> SUFFICES ASSUME NEW c \in Checkpoints, BeforeIt(c) = k PROVE Walks(c)
    OBVIOUS
  <2>1. c # None
    BY SourceIs, PositionIs
  <2>2. PICK s \in Seq(Checkpoints) : s = ClaimWalk[c]
    BY WalkSteps
  <2>3. CASE Previous(c) = None
    <3>1. ClaimWalk[None] = <<>>
      BY WalkSteps
    <3>2. s = <<c>> \o <<>>
      BY <2>1, <2>2, <2>3, <3>1, WalkSteps
    <3>3. Len(s) = 1 /\ s[1] = c
      BY <3>2
    <3> QED
      BY <2>2, <3>3 DEF Walks
  <2>4. CASE Previous(c) # None
    <3>1. PICK q \in Checkpoints : q = Previous(c) /\ Under(q, c)
      BY <2>4, PreviousIs
    <3>2. BeforeIt(q) \in 0..(k - 1)
      BY <1>2, <3>1, BeforeGrows
    <3>3. Walks(q)
      BY <1>3, <3>2
    <3>4. PICK t \in Seq(Checkpoints) : t = ClaimWalk[q]
      BY WalkSteps
    <3>5. s = <<c>> \o t
      BY <2>1, <2>2, <3>1, <3>4, WalkSteps
    <3>6. PICK l \in Nat : l = Len(t)
      BY <3>4
    <3>7. /\ l >= 1 /\ t[1] = q
          /\ \A i, j \in 1..l : i < j => Under(t[j], t[i])
      BY <3>3, <3>4, <3>6 DEF Walks
    <3>8. Len(s) = l + 1 /\ s[1] = c /\ \A i \in 1..l : s[i + 1] = t[i]
      BY <3>5, <3>6, Prepended
    <3>9. \A i \in 1..l : t[i] \in Checkpoints /\ Under(t[i], c)
      <4> TAKE i \in 1..l
      <4>1. t[i] \in Checkpoints
        BY <3>4, <3>6, ElementOf
      <4>2. i = 1 \/ Under(t[i], q)
        BY <3>7
      <4> QED
        BY <3>1, <3>7, <4>1, <4>2, UnderOrders
    <3>10. ASSUME NEW i \in 1..(l + 1), NEW j \in 1..(l + 1), i < j PROVE Under(s[j], s[i])
      <4>1. j - 1 \in 1..l /\ s[j] = t[j - 1]
        <5>1. j - 1 \in 1..l /\ (j - 1) + 1 = j
          BY <3>10
        <5> QED
          BY <3>8, <5>1
      <4>2. CASE i = 1
        BY <3>8, <3>9, <4>1, <4>2
      <4>3. CASE i # 1
        <5>1. i - 1 \in 1..l /\ (i - 1) + 1 = i /\ i - 1 < j - 1
          BY <3>10, <4>3
        <5>2. s[i] = t[i - 1]
          BY <3>8, <5>1
        <5> QED
          BY <3>7, <4>1, <5>1, <5>2
      <4> QED
        BY <4>2, <4>3
    <3>11. Len(s) >= 1 /\ \A i, j \in 1..Len(s) : i < j => Under(s[j], s[i])
      BY <3>7, <3>8, <3>10
    <3> QED
      BY <2>2, <3>8, <3>11 DEF Walks
  <2> QED
    BY <2>3, <2>4
<1>4. \A k \in 0..n : k \in good
  <2> HIDE DEF good
  <2> QED
    BY <1>3, ByEarlier
<1> QED
  BY <1>2, <1>4

\* A sequence of checkpoints that climbs, of runs that are before r.
Climbs(q, r) ==
  /\ q \in Seq(Checkpoints)
  /\ \A i \in 1..Len(q) : q[i].run < r
  /\ \A i, j \in 1..Len(q) : i < j => Under(q[i], q[j])

\* What is put after it is of a later run.
LEMMA ClimbsOn ==
  ASSUME ForestInv, NEW r \in Nat, NEW k \in Nat, r < k, NEW q, Climbs(q, r), NEW t \in Seq(Checkpoints),
         \A i \in 1..Len(t) : t[i].run = r,
         \A i, j \in 1..Len(t) : i < j => Under(t[i], t[j])
  PROVE  Climbs(q \o t, k)
<1>1. q \in Seq(Checkpoints)
  BY DEF Climbs
<1>2. PICK s \in Seq(Checkpoints) : s = q \o t
  BY <1>1, ConcatOf
<1>3. PICK l \in Nat : l = Len(q)
  BY <1>1
<1>4. PICK n \in Nat : n = Len(t)
  OBVIOUS
<1>5. /\ Len(s) = l + n /\ \A i \in 1..l : s[i] = q[i]
      /\ \A i \in 1..n : s[l + i] = t[i]
  BY <1>1, <1>2, <1>3, <1>4, ConcatOf
<1>6. \A i \in 1..(l + n) : i \notin 1..l => i - l \in 1..n /\ s[i] = t[i - l]
  <2> TAKE i \in 1..(l + n)
  <2> HAVE i \notin 1..l
  <2>1. i - l \in 1..n /\ l + (i - l) = i
    OBVIOUS
  <2> QED
    BY <1>5, <2>1
<1>7. /\ \A i \in 1..l : q[i].run < r
      /\ \A i, j \in 1..l : i < j => Under(q[i], q[j])
  BY <1>3 DEF Climbs
<1>8. \A i \in 1..(l + n) : s[i].run \in Nat
  <2> TAKE i \in 1..(l + n)
  <2>1. s[i] \in Checkpoints
    BY <1>5, ElementOf
  <2> QED
    BY <2>1, PositionIs
<1>9. ASSUME NEW i \in 1..(l + n) PROVE s[i].run < k
  <2>1. CASE i \in 1..l
    <3>1. s[i].run < r /\ s[i].run \in Nat
      BY <1>5, <1>7, <1>8, <2>1
    <3> QED
      BY <3>1
  <2>2. CASE i \notin 1..l
    BY <1>4, <1>6, <2>2
  <2> QED
    BY <2>1, <2>2
<1>10. ASSUME NEW i \in 1..(l + n), NEW j \in 1..(l + n), i < j PROVE Under(s[i], s[j])
  <2>1. CASE j \in 1..l
    BY <1>5, <1>7, <1>10, <2>1
  <2>2. CASE j \notin 1..l /\ i \in 1..l
    <3>1. s[j].run = r /\ s[i].run < r
      BY <1>4, <1>5, <1>6, <1>7, <2>2
    <3> QED
      BY <3>1 DEF Under
  <2>3. CASE j \notin 1..l /\ i \notin 1..l
    <3>1. i - l \in 1..n /\ j - l \in 1..n /\ i - l < j - l
      BY <1>6, <1>10, <2>3
    <3> QED
      BY <1>4, <1>6, <2>3, <3>1
  <2> QED
    BY <1>10, <2>1, <2>2, <2>3
<1> QED
  BY <1>2, <1>5, <1>9, <1>10 DEF Climbs

\* The segments climb, through earlier runs.
LEMMA SegmentsClimb ==
  ASSUME ForestInv
  PROVE  \A r \in Runs : Climbs(ParentSegments[r], r)
<1>1. PICK n \in Nat : n = Len(runs) /\ Runs = 1..n
  BY SourceIs
<1> DEFINE good == {k \in 0..n : k \in Runs => Climbs(ParentSegments[k], k)}
<1>2. ASSUME NEW k \in 0..n, \A i \in 0..(k - 1) : i \in good PROVE k \in good
  <2> SUFFICES ASSUME k \in Runs PROVE Climbs(ParentSegments[k], k)
    OBVIOUS
  <2>1. CASE runs[k].parent = 0
    <3>1. ParentSegments[k] = <<>>
      BY <2>1, SegmentSteps
    <3>2. <<>> \in Seq(Checkpoints) /\ Len(<<>>) = 0
      OBVIOUS
    <3> QED
      BY <3>1, <3>2 DEF Climbs
  <2>2. CASE runs[k].parent # 0
    <3>1. PICK r \in Runs : r = runs[k].parent /\ r < k /\ r \in 0..(k - 1)
      <4>1. k # 1
        BY <2>2, SourceIs
      <4>2. runs[k].parent \in Runs /\ runs[k].parent < k
        BY <4>1, SourceIs
      <4> QED
        BY <1>1, <4>2
    <3>2. Climbs(ParentSegments[r], r)
      BY <1>2, <3>1
    <3>3. PICK t \in Seq(Checkpoints) :
            /\ t = SegmentOf(k) /\ \A i \in 1..Len(t) : t[i].run = r
            /\ \A i, j \in 1..Len(t) : i < j => Under(t[i], t[j])
      BY <2>2, <3>1, SegmentIs
    <3>4. ParentSegments[k] = ParentSegments[r] \o t
      BY <2>2, <3>1, <3>3, SegmentSteps
    <3>5. PICK q : q = ParentSegments[r]
      OBVIOUS
    <3>6. Climbs(q \o t, k)
      BY <1>1, <3>1, <3>2, <3>3, <3>5, ClimbsOn
    <3> QED
      BY <3>4, <3>5, <3>6
  <2> QED
    BY <2>1, <2>2
<1>3. \A k \in 0..n : k \in good
  <2> HIDE DEF good
  <2> QED
    BY <1>2, ByEarlier
<1> QED
  BY <1>1, <1>3

\* And so does the listing, which ends with the checkpoints of the run.
LEMMA ListedIs ==
  ASSUME ForestInv, NEW r \in Runs
  PROVE  /\ Climbs(LineageCheckpoints(r), r + 1)
         /\ Range(LineageCheckpoints(r)) = Range(ParentSegments[r]) \cup {Ref(r, seq) : seq \in CheckpointSeqs(r)}
<1>1. PICK seqs \in SUBSET CheckpointSeqs(r) : seqs = CheckpointSeqs(r)
  OBVIOUS
<1>2. PICK t : t = RefsOf(r, seqs)
  OBVIOUS
<1>3. /\ t \in Seq(Checkpoints) /\ Range(t) = {Ref(r, seq) : seq \in seqs}
      /\ \A i \in 1..Len(t) : t[i].run = r
      /\ \A i, j \in 1..Len(t) : i < j => Under(t[i], t[j])
  BY <1>2, RefsAre
<1>4. PICK q \in Seq(Checkpoints) : q = ParentSegments[r] /\ Climbs(q, r)
  BY SegmentsClimb DEF Climbs
<1>5. LineageCheckpoints(r) = q \o t
  BY <1>1, <1>2, <1>4 DEF LineageCheckpoints, ListCheckpoints
<1>6. Climbs(q \o t, r + 1)
  <2>1. r \in Nat /\ r + 1 \in Nat /\ r < r + 1
    BY SourceIs
  <2>2. PICK k \in Nat : k = r + 1
    BY <2>1
  <2>3. Climbs(q \o t, k)
    BY <1>3, <1>4, <2>1, <2>2, ClimbsOn
  <2> QED
    BY <2>2, <2>3
<1>7. Range(q \o t) = Range(q) \cup Range(t)
  BY <1>3, RangeOfConcat
<1> QED
  BY <1>1, <1>3, <1>4, <1>5, <1>6, <1>7

\* An announced fork's parent is announced.
LEMMA AnnouncedIs ==
  ASSUME ForestInv, NEW r \in Runs, Announced(r), runs[r].parent # 0
  PROVE  Announced(runs[r].parent) /\ ledger[r] # <<>> /\ ledger[r][1].type = "forked"
<1>1. PICK q \in Runs : q = runs[r].parent
  BY SourceIs
<1>2. Ancestry[r] = {r} \cup Ancestry[q]
  BY <1>1, AncestrySteps
<1>3. Announced(q)
  BY <1>2 DEF Announced
<1>4. runs[r].parent = 0 \/ (ledger[r] # <<>> /\ ledger[r][1].type = "forked")
  BY <1>2 DEF Announced
<1> QED
  BY <1>1, <1>3, <1>4

\* The refs of a checkpoint and its ancestors of the run.
ChainRefs(c) == {Ref(c.run, seq) : seq \in Chain[c]}

\* The walk has those, and then those of the parents.
WalkAgrees(c) ==
  /\ Range(ClaimWalk[c]) \subseteq Range(ParentSegments[c.run]) \cup ChainRefs(c)
  /\ Announced(c.run) => Range(ParentSegments[c.run]) \cup ChainRefs(c) \subseteq Range(ClaimWalk[c])

\* Every walk does.
LEMMA WalkAgreesIs ==
  ASSUME ForestInv
  PROVE  \A c \in Checkpoints : WalkAgrees(c)
<1>1. PICK n \in Nat : n = Cardinality(Places)
  BY BeforeGrows
<1>2. \A c \in Checkpoints : BeforeIt(c) \in 0..n
  BY <1>1, BeforeGrows
<1> DEFINE good == {k \in 0..n : \A c \in Checkpoints : BeforeIt(c) = k => WalkAgrees(c)}
<1>3. ASSUME NEW k \in 0..n, \A i \in 0..(k - 1) : i \in good PROVE k \in good
  <2> SUFFICES ASSUME NEW c \in Checkpoints, BeforeIt(c) = k PROVE WalkAgrees(c)
    OBVIOUS
  <2>1. c # None /\ c = Ref(c.run, c.seq) /\ c.run \in Runs
    BY SourceIs, PositionIs, CheckpointIs
  <2>2. PICK above : above = Range(ParentSegments[c.run])
    OBVIOUS
  <2>3. PICK s \in Seq(Checkpoints) : s = ClaimWalk[c]
    BY WalkSteps
  <2>4. Chain[c] = {c.seq} \cup (IF ParentOf(c) = 0 THEN {} ELSE Chain[Ref(c.run, ParentOf(c))])
    BY ChainSteps
  <2>5. ASSUME NEW x \in Checkpoints, x = Previous(c), x # None, BeforeIt(x) < k
        PROVE  WalkAgrees(x) /\ Range(s) = {c} \cup Range(ClaimWalk[x])
    <3>1. BeforeIt(x) \in 0..(k - 1)
      BY <1>2, <2>5
    <3>2. WalkAgrees(x)
      BY <1>3, <3>1
    <3>3. PICK t \in Seq(Checkpoints) : t = ClaimWalk[x]
      BY WalkSteps
    <3>4. s = <<c>> \o t
      BY <2>1, <2>3, <2>5, <3>3, WalkSteps
    <3>5. PICK one \in Seq(Checkpoints) : one = <<c>> /\ Len(one) = 1 /\ one[1] = c
      BY SingleOf
    <3>6. Range(one) = {c}
      <4>1. \A i \in 1..1 : one[i] = c
        BY <3>5
      <4>2. Range(one) = {one[i] : i \in 1..1}
        <5>1. Range(one) = {one[i] : i \in 1..Len(one)}
          BY RangeOf
        <5> QED
          BY <3>5, <5>1, Zenon
      <4> QED
        BY <4>1, <4>2
    <3>7. Range(one \o t) = Range(one) \cup Range(t)
      BY RangeOfConcat
    <3> QED
      BY <3>2, <3>3, <3>4, <3>5, <3>6, <3>7
  <2>6. CASE ParentOf(c) # 0
    <3>1. PICK x \in Checkpoints : x = Ref(c.run, ParentOf(c)) /\ x.run = c.run /\ Under(x, c)
      BY <2>6, ParentIsEarlier
    <3>2. x = Previous(c) /\ x # None /\ BeforeIt(x) < k
      <4>1. x # None
        BY SourceIs, PositionIs
      <4>2. BeforeIt(x) < BeforeIt(c)
        BY <3>1, BeforeGrows
      <4> QED
        BY <2>6, <3>1, <4>1, <4>2, PreviousIs
    <3>3. WalkAgrees(x) /\ Range(s) = {c} \cup Range(ClaimWalk[x])
      BY <2>5, <3>2
    <3>4. ChainRefs(c) = {c} \cup ChainRefs(x)
      <4>1. Chain[c] = {c.seq} \cup Chain[x]
        BY <2>4, <2>6, <3>1
      <4> QED
        BY <2>1, <3>1, <4>1 DEF ChainRefs
    <3> QED
      BY <2>3, <3>1, <3>3, <3>4 DEF WalkAgrees
  <2>7. CASE ParentOf(c) = 0
    <3>1. ChainRefs(c) = {c}
      <4>1. Chain[c] = {c.seq}
        BY <2>4, <2>7
      <4> QED
        BY <2>1, <4>1 DEF ChainRefs
    <3>2. CASE Previous(c) # None
      <4>1. PICK x \in Checkpoints : x = Previous(c) /\ Under(x, c)
        BY <3>2, PreviousIs
      <4>2. x = ForkSource(c.run) /\ c.run # 1
        BY <2>7, <3>2, <4>1, PreviousIs
      <4>3. BeforeIt(x) < BeforeIt(c)
        BY <4>1, BeforeGrows
      <4>4. WalkAgrees(x) /\ Range(s) = {c} \cup Range(ClaimWalk[x])
        BY <2>5, <3>2, <4>1, <4>3
      <4>5. runs[c.run].parent # 0 /\ x.run = runs[c.run].parent /\ x.run \in Runs
        BY <2>1, <4>2, SourceIs
      <4>6. above = Range(ParentSegments[x.run]) \cup ChainRefs(x)
        <5>1. PICK t \in Seq(Checkpoints) : t = SegmentOf(c.run) /\ Range(t) = ChainRefs(x)
          BY <2>1, <4>2, <4>5, SegmentIs DEF ChainRefs
        <5>2. PICK q \in Seq(Checkpoints) : q = ParentSegments[x.run]
          BY <4>5, SegmentSteps
        <5>3. ParentSegments[c.run] = q \o t
          BY <2>1, <4>5, <5>1, <5>2, SegmentSteps
        <5>4. Range(q \o t) = Range(q) \cup Range(t)
          BY RangeOfConcat
        <5> QED
          BY <2>2, <5>1, <5>2, <5>3, <5>4
      <4>7. Announced(c.run) => Announced(x.run)
        BY <2>1, <4>5, AnnouncedIs
      <4> QED
        BY <2>2, <2>3, <3>1, <4>4, <4>6, <4>7 DEF WalkAgrees
    <3>3. CASE Previous(c) = None
      <4>1. ClaimWalk[None] = <<>>
        BY WalkSteps
      <4>2. s = <<c>> \o <<>>
        BY <2>1, <2>3, <3>3, <4>1, WalkSteps
      <4>3. Len(s) = 1 /\ s[1] = c
        BY <4>2
      <4>4. Range(s) = {c}
        BY <4>3, RangeOf
      <4>5. ASSUME Announced(c.run) PROVE above = {}
        <5>1. runs[c.run].parent = 0
          <6> SUFFICES ASSUME runs[c.run].parent # 0 PROVE FALSE
            OBVIOUS
          <6>1. ledger[c.run][1].type = "forked"
            BY <2>1, <4>5, AnnouncedIs
          <6>2. Previous(c) = ForkSource(c.run)
            BY <2>7, <6>1, PreviousIs
          <6>3. c.run # 1
            BY SourceIs
          <6> QED
            BY <2>1, <3>3, <6>2, <6>3, SourceIs
        <5>2. ParentSegments[c.run] = <<>>
          BY <2>1, <5>1, SegmentSteps
        <5> QED
          BY <2>2, <5>2 DEF Range
      <4> QED
        BY <2>2, <2>3, <3>1, <4>4, <4>5 DEF WalkAgrees
    <3> QED
      BY <3>2, <3>3
  <2> QED
    BY <2>6, <2>7
<1>4. \A k \in 0..n : k \in good
  <2> HIDE DEF good
  <2> QED
    BY <1>3, ByEarlier
<1> QED
  BY <1>2, <1>4

\* The cursor at which the lineage of a checkpoint leaves its own run, or one after it.
LEMMA SeqInOwn ==
  ASSUME ForestInv, NEW c \in Positions
  PROVE  /\ SeqIn(EngineLineage[c], c.run) = c.seq
         /\ \A r \in Runs : c.run < r => SeqIn(EngineLineage[c], r) = 0
<1>1. PICK s \in Seq(Positions) : s = EngineLineage[c]
  BY LineageSteps
<1>2. PICK l \in Nat : l = Len(s) /\ DOMAIN s = 1..l
  OBVIOUS
<1>3. l >= 1 /\ s[1] = c /\ \A i, j \in 1..l : i < j => s[j].run < s[i].run
  BY <1>1, <1>2, LineageIs DEF LineageFine
<1>4. \A i \in 1..l : s[i].run \in Nat
  <2>1. \A i \in 1..l : s[i] \in Positions
    BY <1>2, ElementOf
  <2> QED
    BY <2>1, PositionIs
<1> DEFINE entries == {i \in DOMAIN s : s[i].run = c.run}
<1>5. 1 \in entries /\ entries \in SUBSET Nat
  BY <1>2, <1>3
<1>6. Min(entries) = 1
  <2>1. Min(entries) \in entries /\ Min(entries) <= 1
    BY <1>5, FirstOf
  <2> QED
    BY <1>2, <2>1
<1>7. SeqIn(s, c.run) = c.seq
  BY <1>3, <1>5, <1>6 DEF SeqIn
<1>8. ASSUME NEW r \in Runs, c.run < r PROVE SeqIn(EngineLineage[c], r) = 0
  <2>1. c.run \in Nat /\ r \in Nat
    BY PositionIs, SourceIs
  <2>2. ASSUME NEW i \in 1..l PROVE s[i].run # r
    <3>1. i = 1 \/ s[i].run < s[1].run
      BY <1>3
    <3> QED
      BY <1>3, <1>4, <1>8, <2>1, <3>1
  <2> QED
    BY <1>1, <1>2, <2>2, SeqInIs
<1> QED
  BY <1>1, <1>7, <1>8

\* What a pane lists is what diff finds beyond the parent.
LEMMA PaneIsDiff ==
  ASSUME ForestInv, NEW c \in Checkpoints, NodeParent(c).run # 0
  PROVE  DiffRange(c, NodeParent(c)) = LedgerRange(c)
<1>1. c.run \in Runs
  BY CheckpointIs, PositionIs
<1>2. CASE ParentOf(c) # 0
  <2>1. PICK x \in Checkpoints : x = NodeParent(c) /\ x.run = c.run /\ x.seq = ParentOf(c)
    BY <1>2, ParentIsEarlier DEF NodeParent
  <2>2. x \in Positions
    BY PositionIs
  <2>3. SeqIn(EngineLineage[x], c.run) = ParentOf(c)
    BY <2>1, <2>2, SeqInOwn
  <2>4. DiffRange(c, x) = Min({ParentOf(c), c.seq})..c.seq
    BY <2>2, <2>3, RangeIs
  <2> QED
    BY <2>1, <2>4 DEF LedgerRange
<1>3. CASE ParentOf(c) = 0
  <2>1. NodeParent(c) = ForkSource(c.run)
    BY <1>3 DEF NodeParent
  <2>2. c.run # 1
    BY <2>1, SourceIs DEF None, Ref
  <2>3. PICK x \in Positions : x = ForkSource(c.run) /\ x.run < c.run
    BY <1>1, <2>2, SourceIs
  <2>4. SeqIn(EngineLineage[x], c.run) = 0
    BY <1>1, <2>3, SeqInOwn
  <2>5. DiffRange(c, x) = Min({0, c.seq})..c.seq
    BY <2>4, RangeIs
  <2> QED
    BY <1>3, <2>1, <2>3, <2>5 DEF LedgerRange
<1> QED
  BY <1>2, <1>3

\* The reads agree.
LEMMA ReadsAgree == ForestInv => LineagesAgree
<1> SUFFICES ASSUME ForestInv, NEW c \in Checkpoints
             PROVE  LET walk == ClaimWalk[c]
                        listed == LineageCheckpoints(c.run)
                    IN  /\ Range(walk) \subseteq Range(listed)
                        /\ \A i, j \in DOMAIN listed, k, l \in DOMAIN walk :
                             listed[i] = walk[k] /\ listed[j] = walk[l] => (i < j <=> l < k)
                        /\ NodeParent(c).run # 0 => DiffRange(c, NodeParent(c)) = LedgerRange(c)
                        /\ Announced(c.run) =>
                              /\ NodeParent(c) = Previous(c)
                              /\ \A x \in Range(listed) : x.run # c.run => x \in Range(walk)
  BY DEF LineagesAgree
<1>1. c.run \in Runs /\ c.run \in Nat
  BY CheckpointIs, PositionIs
<1>2. PICK walk \in Seq(Checkpoints) : walk = ClaimWalk[c]
  BY WalkSteps
<1>3. PICK listed \in Seq(Checkpoints) : listed = LineageCheckpoints(c.run)
  BY <1>1, ListedIs DEF Climbs
<1>4. PICK above : above = Range(ParentSegments[c.run])
  OBVIOUS
<1>5. PICK own : own = {Ref(c.run, seq) : seq \in CheckpointSeqs(c.run)}
  OBVIOUS
<1>6. Range(listed) = above \cup own
  BY <1>1, <1>3, <1>4, <1>5, ListedIs
<1>7. WalkAgrees(c)
  BY WalkAgreesIs
<1>8. Range(walk) \subseteq Range(listed)
  <2>1. ChainRefs(c) \subseteq own
    BY <1>5, ChainIs DEF ChainRefs
  <2> QED
    BY <1>2, <1>4, <1>6, <1>7, <2>1 DEF WalkAgrees
<1>9. ASSUME NEW i \in DOMAIN listed, NEW j \in DOMAIN listed, NEW k \in DOMAIN walk, NEW l \in DOMAIN walk,
             listed[i] = walk[k], listed[j] = walk[l]
      PROVE  i < j <=> l < k
  <2>1. i \in 1..Len(listed) /\ j \in 1..Len(listed) /\ i \in Nat /\ j \in Nat
    OBVIOUS
  <2>2. k \in 1..Len(walk) /\ l \in 1..Len(walk) /\ k \in Nat /\ l \in Nat
    OBVIOUS
  <2>3. PICK x \in Checkpoints : x = walk[k] /\ x = listed[i]
    BY <1>9, <2>2, ElementOf
  <2>4. PICK y \in Checkpoints : y = walk[l] /\ y = listed[j]
    BY <1>9, <2>2, ElementOf
  <2>5. (i < j => Under(x, y)) /\ (j < i => Under(y, x)) /\ (i = j => x = y)
    BY <1>1, <1>3, <2>1, <2>3, <2>4, ListedIs DEF Climbs
  <2>6. (l < k => Under(x, y)) /\ (k < l => Under(y, x)) /\ (k = l => x = y)
    BY <1>2, <2>2, <2>3, <2>4, WalkIs DEF Walks
  <2>7. ~Under(x, x) /\ ~Under(y, y) /\ (Under(x, y) => ~Under(y, x))
    BY UnderOrders
  <2> QED
    BY <2>1, <2>2, <2>5, <2>6, <2>7
<1>10. NodeParent(c).run # 0 => DiffRange(c, NodeParent(c)) = LedgerRange(c)
  BY PaneIsDiff
<1>11. ASSUME Announced(c.run)
       PROVE  /\ NodeParent(c) = Previous(c)
              /\ \A x \in Range(listed) : x.run # c.run => x \in Range(walk)
  <2>1. \A x \in own : x.run = c.run
    BY <1>5 DEF Ref
  <2>2. above \subseteq Range(walk)
    BY <1>2, <1>4, <1>7, <1>11 DEF WalkAgrees
  <2>3. NodeParent(c) = Previous(c)
    <3>1. CASE ParentOf(c) # 0
      BY <3>1 DEF NodeParent, Previous
    <3>2. CASE ParentOf(c) = 0 /\ c.run = 1
      <4>1. NodeParent(c) = None
        BY <3>2, SourceIs DEF NodeParent
      <4>2. Previous(c) = None
        BY <3>2, PreviousIs
      <4> QED
        BY <4>1, <4>2
    <3>3. CASE ParentOf(c) = 0 /\ c.run # 1
      <4>1. runs[c.run].parent # 0
        BY <1>1, <3>3, SourceIs
      <4>2. ledger[c.run][1].type = "forked"
        BY <1>1, <1>11, <4>1, AnnouncedIs
      <4>3. Previous(c) = ForkSource(c.run)
        BY <3>3, <4>2, PreviousIs
      <4> QED
        BY <3>3, <4>3 DEF NodeParent
    <3> QED
      BY <3>1, <3>2, <3>3
  <2> QED
    BY <1>6, <2>1, <2>2, <2>3
<1> QED
  BY <1>2, <1>3, <1>8, <1>9, <1>10, <1>11

-----------------------------------------------------------------------------
(* What diff shows of the events that led to a checkpoint                    *)

\* A position goes on from one before it.
LEMMA GoesOnIs ==
  ASSUME ForestInv, NEW x \in Places
  PROVE  /\ GoesOnFrom(x) # None => GoesOnFrom(x) \in Places /\ Under(GoesOnFrom(x), x)
         /\ x.seq = 0 => GoesOnFrom(x) = ForkedFrom(x.run)
         /\ x.seq # 0 => GoesOnFrom(x) # None /\ GoesOnFrom(x).run = x.run /\ GoesOnFrom(x).seq < x.seq
<1>1. x.run \in Runs /\ x.run \in Nat /\ x.seq \in 0..Len(ledger[x.run]) /\ Len(ledger[x.run]) \in Nat /\ x.seq \in Nat
  BY PlaceIs, PositionIs
<1>2. CASE x.seq = 0
  <2>1. GoesOnFrom(x) = ForkedFrom(x.run)
    BY <1>2 DEF GoesOnFrom
  <2>2. ASSUME GoesOnFrom(x) # None PROVE GoesOnFrom(x) \in Places /\ GoesOnFrom(x).run < x.run
    <3>1. x.run # 1 /\ GoesOnFrom(x) = ForkSource(x.run)
      BY <1>1, <2>1, <2>2, ForkedFromIs
    <3> QED
      BY <1>1, <3>1, SourceIs, PlaceIs
  <2> QED
    BY <1>2, <2>1, <2>2 DEF Under
<1>3. CASE x.seq # 0
  <2>1. x.seq \in DOMAIN ledger[x.run] /\ Names(x.run, x.seq, ledger[x.run][x.seq])
    BY <1>1, <1>3, PlaceIs DEF ForestInv
  <2>2. PICK seq \in 0..(x.seq - 1) : GoesOnFrom(x) = Ref(x.run, seq)
    <3>1. CASE ledger[x.run][x.seq].type = "restored"
      <4>1. ledger[x.run][x.seq].seq \in 1..(x.seq - 1)
        BY <2>1, <3>1 DEF Names
      <4>2. GoesOnFrom(x) = Ref(x.run, ledger[x.run][x.seq].seq)
        BY <1>3, <3>1 DEF GoesOnFrom
      <4> QED
        BY <1>1, <4>1, <4>2
    <3>2. CASE ledger[x.run][x.seq].type # "restored"
      <4>1. GoesOnFrom(x) = Ref(x.run, x.seq - 1)
        BY <1>3, <3>2 DEF GoesOnFrom
      <4> QED
        BY <1>1, <1>3, <4>1
    <3> QED
      BY <3>1, <3>2
  <2>3. seq \in 0..Len(ledger[x.run]) /\ seq \in Nat /\ seq < x.seq
    BY <1>1, <2>2
  <2>4. GoesOnFrom(x) \in Places /\ GoesOnFrom(x).run = x.run /\ GoesOnFrom(x).seq = seq
    BY <1>1, <2>2, <2>3, PlaceIs DEF Ref
  <2>5. GoesOnFrom(x) # None
    BY <2>4, SourceIs, PlaceIs
  <2> QED
    BY <1>3, <2>3, <2>4, <2>5 DEF Under
<1> QED
  BY <1>2, <1>3


\* The steps of the descent.
LEMMA DescentSteps ==
  ASSUME ForestInv
  PROVE  \A x \in Places : /\ Descent[x] \in SUBSET Places
                             /\ Descent[x] = (IF x.seq = 0 THEN {} ELSE {x}) \cup (IF GoesOnFrom(x) = None THEN {} ELSE Descent[GoesOnFrom(x)])
<1> DEFINE Is(f) == f = [x \in Places |-> (IF x.seq = 0 THEN {} ELSE {x}) \cup (IF GoesOnFrom(x) = None THEN {} ELSE f[GoesOnFrom(x)])]
<1>1. Descent = CHOOSE f : Is(f)
  BY Zenon DEF Descent
<1>2. PICK D : D = Places
  OBVIOUS
<1>3. PICK Q : Q = SUBSET Places
  OBVIOUS
<1>4. PICK n \in Nat : n = Cardinality(Places)
  BY BeforeGrows
<1>5. PICK m : m = [x \in D |-> BeforeIt(x)]
  OBVIOUS
<1>6. PICK p : p = [x \in D |-> GoesOnFrom(x)]
  OBVIOUS
<1>7. PICK b : b = [x \in D |-> (IF x.seq = 0 THEN {} ELSE {x})]
  OBVIOUS
<1>8. PICK step : step = [x \in D |-> [s \in Q |-> (IF x.seq = 0 THEN {} ELSE {x}) \cup s]]
  OBVIOUS
<1>9. PICK leaf : leaf = {x \in D : GoesOnFrom(x) = None}
  OBVIOUS
<1>10. m \in [D -> 0..n] /\ \A x \in D : m[x] = BeforeIt(x)
  BY <1>2, <1>4, <1>5, BeforeGrows
<1>11. \A x \in D : p[x] = GoesOnFrom(x) /\ b[x] = (IF x.seq = 0 THEN {} ELSE {x}) /\ (x \in leaf <=> GoesOnFrom(x) = None)
  BY <1>6, <1>7, <1>9
<1>12. \A x \in D : \A s \in Q : step[x][s] = (IF x.seq = 0 THEN {} ELSE {x}) \cup s
  BY <1>8
<1>13. \A x \in D : x \in leaf => b[x] \in Q
  BY <1>2, <1>3, <1>11
<1>14. \A x \in D : x \notin leaf => p[x] \in D /\ m[p[x]] < m[x]
  <2> TAKE x \in D
  <2> HAVE x \notin leaf
  <2>1. PICK y \in Places : y = GoesOnFrom(x) /\ Under(y, x)
    BY <1>2, <1>11, GoesOnIs
  <2>2. BeforeIt(y) < BeforeIt(x)
    BY <1>2, <2>1, BeforeGrows
  <2> QED
    BY <1>2, <1>10, <1>11, <2>1, <2>2
<1>15. \A x \in D : x \notin leaf => \A s \in Q : step[x][s] \in Q
  BY <1>2, <1>3, <1>12
<1>16. Descends(D, Q, n, m, leaf, b, p, step)
  BY <1>10, <1>13, <1>14, <1>15 DEF Descends
<1>17. PICK f \in [D -> Q] : \A x \in D : f[x] = IF x \in leaf THEN b[x] ELSE step[x][f[p[x]]]
  BY <1>16, ByDescent
<1>18. \A x \in D : f[x] = (IF x.seq = 0 THEN {} ELSE {x}) \cup (IF GoesOnFrom(x) = None THEN {} ELSE f[GoesOnFrom(x)])
  <2> TAKE x \in D
  <2>1. CASE x \in leaf
    BY <1>11, <1>17, <2>1
  <2>2. CASE x \notin leaf
    <3>1. PICK s \in Q : s = f[GoesOnFrom(x)]
      BY <1>11, <1>14, <1>17, <2>2
    <3>2. f[x] = step[x][s]
      BY <1>11, <1>17, <2>2, <3>1
    <3> QED
      BY <1>11, <1>12, <2>2, <3>1, <3>2
  <2> QED
    BY <2>1, <2>2
<1>19. Is(f)
  <2>1. f = [x \in D |-> f[x]]
    BY <1>17
  <2> QED
    BY <1>2, <1>18, <2>1, Zenon
<1>20. Is(Descent)
  <2> HIDE DEF Is
  <2> QED
    BY <1>1, <1>19, Zenon
<1>21. \A x \in D : Descent[x] = (IF x.seq = 0 THEN {} ELSE {x}) \cup (IF GoesOnFrom(x) = None THEN {} ELSE Descent[GoesOnFrom(x)])
  BY <1>2, <1>20, Zenon
<1>22. \A x \in D : x \in leaf => Descent[x] = b[x]
  BY <1>11, <1>21
<1>23. \A x \in D : x \notin leaf /\ Descent[p[x]] \in Q => Descent[x] = step[x][Descent[p[x]]]
  <2> TAKE x \in D
  <2> HAVE x \notin leaf /\ Descent[p[x]] \in Q
  <2>1. PICK s \in Q : s = Descent[p[x]]
    OBVIOUS
  <2>2. step[x][s] = (IF x.seq = 0 THEN {} ELSE {x}) \cup s
    BY <1>12
  <2>3. Descent[x] = (IF x.seq = 0 THEN {} ELSE {x}) \cup s
    BY <1>11, <1>21, <2>1
  <2> QED
    BY <2>1, <2>2, <2>3
<1>24. \A x \in D : Descent[x] \in Q
  BY <1>16, <1>22, <1>23, Descended
<1> QED
  BY <1>2, <1>3, <1>21, <1>24


\* What is covered: the events of the own run, and what its fork's source covers.
LEMMA CoveredIs ==
  ASSUME ForestInv, NEW c \in Positions
  PROVE  Covered(c) = {Ref(c.run, seq) : seq \in 1..c.seq}
                        \cup (IF ForkedFrom(c.run) = None THEN {} ELSE Covered(ForkedFrom(c.run)))
<1> DEFINE Upto(entry) == {Ref(entry.run, seq) : seq \in 1..entry.seq}
<1>1. ASSUME NEW s \in Seq(Positions), NEW q
      PROVE  q \in UNION {Upto(entry) : entry \in Range(s)} <=> \E i \in 1..Len(s) : q \in Upto(s[i])
  <2> HIDE DEF Upto
  <2> QED
    BY DEF Range
<1>2. PICK s \in Seq(Positions) : s = EngineLineage[c]
  BY LineageSteps
<1>3. Covered(c) = UNION {Upto(entry) : entry \in Range(s)}
  BY <1>2 DEF Covered
<1> HIDE DEF Upto
<1>4. CASE ForkedFrom(c.run) = None
  <2>1. s = <<c>>
    BY <1>2, <1>4, LineageSteps
  <2>2. Len(s) = 1 /\ s[1] = c
    BY <2>1
  <2>3. ASSUME NEW q PROVE q \in Covered(c) <=> q \in Upto(c)
    <3>1. q \in Covered(c) <=> \E i \in 1..1 : q \in Upto(s[i])
      BY <1>1, <1>3, <2>2
    <3>2. \A i \in 1..1 : i = 1
      OBVIOUS
    <3> QED
      BY <2>2, <3>1, <3>2
  <2>4. Covered(c) = Upto(c)
    BY <2>3
  <2> QED
    BY <1>4, <2>4 DEF Upto
<1>5. CASE ForkedFrom(c.run) # None
  <2>1. PICK d \in Positions : d = ForkedFrom(c.run)
    BY <1>5, PositionIs, ForkedFromIs, SourceIs
  <2>2. PICK t \in Seq(Positions) : t = EngineLineage[d]
    BY LineageSteps
  <2>3. Covered(d) = UNION {Upto(entry) : entry \in Range(t)}
    BY <2>2 DEF Covered, Upto
  <2>4. s = <<c>> \o t
    BY <1>2, <1>5, <2>1, <2>2, LineageSteps
  <2>5. PICK l \in Nat : l = Len(t)
    OBVIOUS
  <2>6. Len(s) = l + 1 /\ s[1] = c /\ \A i \in 1..l : s[i + 1] = t[i]
    BY <2>4, <2>5, Prepended
  <2>7. ASSUME NEW q PROVE q \in Covered(c) <=> q \in Upto(c) \/ q \in Covered(d)
    <3>1. q \in Covered(c) <=> \E i \in 1..(l + 1) : q \in Upto(s[i])
      BY <1>1, <1>3, <2>6
    <3>2. q \in Covered(d) <=> \E i \in 1..l : q \in Upto(t[i])
      BY <1>1, <2>3, <2>5
    <3>3. ASSUME NEW i \in 1..(l + 1), q \in Upto(s[i]) PROVE q \in Upto(c) \/ q \in Covered(d)
      <4>1. CASE i = 1
        BY <2>6, <3>3, <4>1
      <4>2. CASE i # 1
        <5>1. i - 1 \in 1..l /\ (i - 1) + 1 = i
          BY <4>2
        <5>2. s[i] = t[i - 1]
          BY <2>6, <5>1
        <5> QED
          BY <3>2, <3>3, <5>1, <5>2
      <4> QED
        BY <4>1, <4>2
    <3>4. q \in Upto(c) => q \in Covered(c)
      <4>1. 1 \in 1..(l + 1)
        OBVIOUS
      <4> QED
        BY <2>6, <3>1, <4>1
    <3>5. ASSUME NEW i \in 1..l, q \in Upto(t[i]) PROVE q \in Covered(c)
      <4>1. i + 1 \in 1..(l + 1) /\ s[i + 1] = t[i]
        BY <2>6
      <4> QED
        BY <3>1, <3>5, <4>1
    <3> QED
      BY <3>1, <3>2, <3>3, <3>4, <3>5
  <2>8. Covered(c) = Upto(c) \cup Covered(d)
    BY <2>7
  <2> QED
    BY <1>5, <2>1, <2>8 DEF Upto
<1> QED
  BY <1>4, <1>5

\* What led to a position is covered.
LEMMA DescentIsCovered ==
  ASSUME ForestInv
  PROVE  \A x \in Places : Descent[x] \subseteq Covered(x)
<1>1. PICK n \in Nat : n = Cardinality(Places)
  BY BeforeGrows
<1>2. \A x \in Places : BeforeIt(x) \in 0..n
  BY <1>1, BeforeGrows
<1> DEFINE good == {k \in 0..n : \A x \in Places : BeforeIt(x) = k => Descent[x] \subseteq Covered(x)}
<1>3. ASSUME NEW k \in 0..n, \A i \in 0..(k - 1) : i \in good PROVE k \in good
  <2> SUFFICES ASSUME NEW x \in Places, BeforeIt(x) = k PROVE Descent[x] \subseteq Covered(x)
    OBVIOUS
  <2>1. x \in Positions /\ x = Ref(x.run, x.seq) /\ x.seq \in Nat
    BY PlaceIs, PositionIs
  <2>2. x.seq # 0 => x \in Covered(x)
    <3>1. x.seq # 0 => x.seq \in 1..x.seq
      BY <2>1
    <3> QED
      BY <2>1, <3>1, CoveredIs
  <2>3. CASE GoesOnFrom(x) = None
    <3>1. Descent[x] = IF x.seq = 0 THEN {} ELSE {x}
      BY <2>3, DescentSteps
    <3> QED
      BY <2>2, <3>1
  <2>4. CASE GoesOnFrom(x) # None
    <3>1. PICK y \in Places : y = GoesOnFrom(x) /\ Under(y, x)
      BY <2>4, GoesOnIs
    <3>2. BeforeIt(y) \in 0..(k - 1)
      BY <1>2, <3>1, BeforeGrows
    <3>3. Descent[y] \subseteq Covered(y)
      BY <1>3, <3>2
    <3>4. Descent[x] = (IF x.seq = 0 THEN {} ELSE {x}) \cup Descent[y]
      BY <2>4, <3>1, DescentSteps
    <3>5. Covered(y) \subseteq Covered(x)
      <4>1. CASE x.seq = 0
        <5>1. y = ForkedFrom(x.run)
          BY <3>1, <4>1, GoesOnIs
        <5> QED
          BY <2>1, <2>4, <3>1, <5>1, CoveredIs
      <4>2. CASE x.seq # 0
        <5>1. y.run = x.run /\ y.seq < x.seq /\ y \in Positions /\ y.seq \in Nat
          BY <3>1, <4>2, GoesOnIs, PlaceIs, PositionIs
        <5>2. 1..y.seq \subseteq 1..x.seq
          BY <2>1, <5>1
        <5>3. /\ Covered(y) = {Ref(x.run, seq) : seq \in 1..y.seq}
                                 \cup (IF ForkedFrom(x.run) = None THEN {} ELSE Covered(ForkedFrom(x.run)))
              /\ Covered(x) = {Ref(x.run, seq) : seq \in 1..x.seq}
                                 \cup (IF ForkedFrom(x.run) = None THEN {} ELSE Covered(ForkedFrom(x.run)))
          BY <2>1, <5>1, CoveredIs
        <5> QED
          BY <5>2, <5>3
      <4> QED
        BY <4>1, <4>2
    <3> QED
      BY <2>2, <3>3, <3>4, <3>5
  <2> QED
    BY <2>3, <2>4
<1>4. \A k \in 0..n : k \in good
  <2> HIDE DEF good
  <2> QED
    BY <1>3, ByEarlier
<1> QED
  BY <1>2, <1>4

\* Each range is exact.
LEMMA RangesExact == ForestInv => DiffRangesExact
<1> SUFFICES ASSUME ForestInv, NEW b \in Checkpoints, NEW a \in Checkpoints
             PROVE  LET range == DiffRange(a, b)
                        shown == {Ref(a.run, seq) : seq \in range \ {Min(range)}}
                        beyond == {x \in Descent[a] : x.run = a.run} \ Descent[b]
                    IN  /\ shown \cap Descent[b] = {}
                        /\ beyond \ shown = beyond \cap Covered(b)
  BY Zenon DEF DiffRangesExact
<1>a. PICK range : range = DiffRange(a, b)
  OBVIOUS
<1>b. PICK shown : shown = {Ref(a.run, seq) : seq \in range \ {Min(range)}}
  OBVIOUS
<1>c. PICK beyond : beyond = {x \in Descent[a] : x.run = a.run} \ Descent[b]
  OBVIOUS
<1>1. a \in Positions /\ b \in Positions /\ a \in Places /\ b \in Places /\ a.run \in Runs
  BY PositionIs, PlaceIs
<1>2. PICK z : z = SeqIn(EngineLineage[b], a.run)
  OBVIOUS
<1>3. PICK n \in Nat : n = a.seq
  BY <1>1, PositionIs
<1>4. z \in Nat /\ range = Min({z, n})..n
  BY <1>a, <1>1, <1>2, <1>3, RangeIs
<1>5. \A k \in Nat : Ref(a.run, k) \in Covered(b) <=> k \in 1..z
  BY <1>1, <1>2, SeqInIs
<1>6. PICK x : x = Min({z, n})
  OBVIOUS
<1>7. x \in Nat /\ x <= n /\ (z <= n => x = z) /\ (z > n => x = n)
  <2>1. {z, n} \in SUBSET Nat /\ {z, n} # {}
    BY <1>4
  <2>2. x \in {z, n} /\ \A i \in {z, n} : x <= i
    BY <1>6, <2>1, FirstOf
  <2> QED
    BY <1>4, <2>2
<1>8. Min(x..n) = x
  <2>1. x..n \in SUBSET Nat /\ x..n # {}
    BY <1>7
  <2>2. Min(x..n) \in x..n /\ Min(x..n) <= x
    <3>1. x \in x..n
      BY <1>7
    <3> QED
      BY <2>1, <3>1, FirstOf
  <2> QED
    BY <1>7, <2>2
<1>9. shown = {Ref(a.run, seq) : seq \in (x + 1)..n}
  <2>1. (x..n) \ {x} = (x + 1)..n
    BY <1>7
  <2> QED
    BY <1>b, <1>4, <1>6, <1>8, <2>1
<1>10. \A k \in 1..n : k \in (x + 1)..n <=> k \notin 1..z
  BY <1>4, <1>7
<1>11. \A k \in (x + 1)..n : k \in 1..n /\ k \in Nat
  BY <1>7
<1>12. ASSUME NEW y \in shown PROVE y \notin Covered(b)
  <2>1. PICK k \in (x + 1)..n : y = Ref(a.run, k)
    BY <1>9
  <2> QED
    BY <1>5, <1>10, <1>11, <2>1
<1>13. shown \cap Descent[b] = {}
  BY <1>1, <1>12, DescentIsCovered
<1>14. ASSUME NEW y \in beyond PROVE y \notin shown <=> y \in Covered(b)
  <2>1. y \in Descent[a] /\ y.run = a.run /\ y \in Covered(a) /\ y \in Places
    BY <1>c, <1>1, DescentSteps, DescentIsCovered
  <2>2. y = Ref(a.run, y.seq) /\ y.seq \in Nat
    BY <2>1, PlaceIs, PositionIs
  <2>3. SeqIn(EngineLineage[a], a.run) = n
    <3>1. PICK s \in Seq(Positions) : s = EngineLineage[a]
      BY <1>1, LineageSteps
    <3>2. Len(s) >= 1 /\ s[1] = a
      BY <1>1, <3>1, LineageIs DEF LineageFine
    <3> DEFINE entries == {i \in DOMAIN s : s[i].run = a.run}
    <3>3. DOMAIN s = 1..Len(s) /\ Len(s) \in Nat
      OBVIOUS
    <3>4. entries \in SUBSET Nat /\ 1 \in entries /\ \A i \in entries : i >= 1
      BY <3>2, <3>3
    <3>5. Min(entries) = 1
      <4>1. Min(entries) \in entries /\ Min(entries) <= 1
        BY <3>4, FirstOf
      <4> QED
        BY <3>4, <4>1
    <3> QED
      BY <1>3, <3>1, <3>2, <3>4, <3>5 DEF SeqIn
  <2>4. y.seq \in 1..n
    BY <1>1, <2>1, <2>2, <2>3, SeqInIs
  <2>5. y \in shown <=> y.seq \in (x + 1)..n
    <3>1. \A k \in (x + 1)..n : Ref(a.run, k) = Ref(a.run, y.seq) => k = y.seq
      BY DEF Ref
    <3> QED
      BY <1>9, <2>2, <3>1
  <2>6. y \in Covered(b) <=> y.seq \in 1..z
    BY <1>5, <2>2
  <2> QED
    BY <1>10, <2>4, <2>5, <2>6
<1>15. beyond \ shown = beyond \cap Covered(b)
  BY <1>14
<1> QED
  BY <1>a, <1>b, <1>c, <1>13, <1>15

\* The invariant of the forest, in every state.
THEOREM ForestInvariant == ForestSpec => []ForestInv
<1> QED
  BY ForestInvInit, ForestInvNext, PTL DEF ForestSpec

\* What a diff shows of one run is not in the other side's descent, and what it leaves
\* out of its own descent was left before the other's cursor, in every forest.
THEOREM DiffsAreExact == ForestSpec => []DiffRangesExact
<1> QED
  BY ForestInvariant, RangesExact, PTL

\* The context builder, the lineage query, diff and the inspector agree on where a
\* checkpoint comes from, in every forest of runs.
THEOREM LineagesConcur == ForestSpec => []LineagesAgree
<1> QED
  BY ForestInvariant, ReadsAgree, PTL
=============================================================================
